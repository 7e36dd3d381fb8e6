--------------------------- MODULE RWLocksProofs ---------------------------
(***************************************************************************)
(* Theorems about RWLocks, for any threads, tables and request bound, and  *)
(* for any handlers that are WellFormed (ProgramsAssumption, which TLC     *)
(* evaluates on the handlers of DataServerHandlers).                       *)
(*                                                                         *)
(* Those behind ReadersMatched rest on readers leaving what they entered.  *)
(* The premise that every branch is Matched is needed: the branch of       *)
(* validateID that misses is not, and with it the runs find a reader and   *)
(* a writer of one table together.                                         *)
(***************************************************************************)
EXTENDS RWLocks, TLAPS, FiniteSets, FiniteSetTheorems

----------------------------------------------------------------------------
(* The inductive invariant *)

(* A thread is between the sem_wait and the sem_post of t's mutex.         *)
InMutex(th, t) == At(th, "admit", t) \/ At(th, "left", t)

(* The readers of t, as a group, hold wrt: what the counter says, put      *)
(* right for the thread that has moved it and not yet acted on it.         *)
GroupHolds(t) ==
    \/ counter[t] >= 2
    \/ counter[t] = 1 /\ \A th \in Threads : ~At(th, "admit", t)
    \/ counter[t] = 0 /\ \E th \in Threads : At(th, "left", t)

MutexInv(t) ==
    /\ mutex[t] \in {0, 1}
    /\ mutex[t] = 1 <=> \A th \in Threads : ~InMutex(th, t)
    /\ \A a, b \in Threads : InMutex(a, t) /\ InMutex(b, t) => a = b

WriterInv(t) ==
    /\ wrt[t] \in {0, 1}
    /\ wrt[t] = 1 <=> ~GroupHolds(t) /\ \A th \in Threads : t \notin Writing(th)
    /\ GroupHolds(t) => \A th \in Threads : t \notin Writing(th)
    /\ \A a, b \in Threads : t \in Writing(a) /\ t \in Writing(b) => a = b

IInv == TypeOK /\ \A t \in Tables : MutexInv(t) /\ WriterInv(t)

----------------------------------------------------------------------------
(* What a handler has done before its next step *)

(* Taking one more step begins, ends or leaves alone what Since records.   *)
LEMMA SinceStep ==
    ASSUME NEW p, NEW i \in Nat, i >= 1, NEW b, NEW e
    PROVE  Since(p, i+1, b, e) <=> p[i] = b \/ (Since(p, i, b, e) /\ p[i] # e)
<1>1. ASSUME Since(p, i+1, b, e), p[i] # b
      PROVE  Since(p, i, b, e) /\ p[i] # e
  <2>1. PICK j \in 1..((i+1)-1) : p[j] = b /\ \A k \in (j+1)..((i+1)-1) : p[k] # e
    BY <1>1 DEF Since
  <2>2. j \in 1..(i-1) /\ i \in (j+1)..((i+1)-1) /\ (j+1)..(i-1) \subseteq (j+1)..((i+1)-1)
    BY <1>1, <2>1
  <2>. QED BY <2>1, <2>2 DEF Since
<1>2. ASSUME p[i] = b PROVE Since(p, i+1, b, e)
  <2>1. i \in 1..((i+1)-1) /\ (i+1)..((i+1)-1) = {}
    OBVIOUS
  <2>. QED BY <1>2, <2>1 DEF Since
<1>3. ASSUME Since(p, i, b, e), p[i] # e PROVE Since(p, i+1, b, e)
  <2>1. PICK j \in 1..(i-1) : p[j] = b /\ \A k \in (j+1)..(i-1) : p[k] # e
    BY <1>3 DEF Since
  <2>2. j \in 1..((i+1)-1) /\ \A k \in (j+1)..((i+1)-1) : k \in (j+1)..(i-1) \/ k = i
    BY <2>1
  <2>. QED BY <1>3, <2>1, <2>2 DEF Since
<1>. QED BY <1>1, <1>2, <1>3

(* The same for the writer locks held; none is when a handler starts.      *)
LEMMA HeldStep ==
    ASSUME NEW p, NEW i \in Nat, i >= 1, NEW t \in Tables
    PROVE  t \in Held(p, i+1) <=>
             p[i] = Do("wait", t) \/ (t \in Held(p, i) /\ p[i] # Do("post", t))
<1>1. Since(p, i+1, Do("wait", t), Do("post", t)) <=>
        p[i] = Do("wait", t)
          \/ (Since(p, i, Do("wait", t), Do("post", t)) /\ p[i] # Do("post", t))
  BY SinceStep
<1>. QED BY <1>1 DEF Held

LEMMA HeldFirst ==
    ASSUME NEW p PROVE Held(p, 1) = {}
BY DEF Held, Since

(* Steps are equal only when operation and table are.                      *)
LEMMA DoInjective ==
    ASSUME NEW o1, NEW o2, NEW t1, NEW t2, Do(o1, t1) = Do(o2, t2)
    PROVE  o1 = o2 /\ t1 = t2
BY DEF Do

(* A running thread's path is well formed; an idle one's next step is 1.   *)
LEMMA PathFacts ==
    ASSUME TypeOK, NEW th \in Threads
    PROVE  /\ path[th] # <<>> => path[th] \in Programs /\ WellFormed(path[th])
           /\ path[th] \in Seq(Steps) /\ Len(path[th]) \in Nat
           /\ pc[th] \in Nat /\ pc[th] >= 1 /\ pc[th] <= Len(path[th]) + 1
           /\ path[th] = <<>> => Len(path[th]) = 0 /\ pc[th] = 1
<1>1. path[th] # <<>> => path[th] \in Programs /\ WellFormed(path[th])
  BY ProgramsAssumption DEF TypeOK
<1>2. path[th] \in Seq(Steps) /\ Len(path[th]) \in Nat
  <2>1. CASE path[th] = <<>>
    <3>1. <<>> \in Seq(Steps) /\ Len(<<>>) = 0
      OBVIOUS
    <3>. QED BY <2>1, <3>1
  <2>2. CASE path[th] # <<>>
    <3>1. path[th] \in Seq(Steps)
      BY <1>1, <2>2 DEF WellFormed
    <3>. QED BY <3>1
  <2>. QED BY <2>1, <2>2
<1>3. pc[th] \in 1..(Len(path[th]) + 1)
  BY DEF TypeOK
<1>4. path[th] = <<>> => Len(path[th]) = 0
  OBVIOUS
<1>. QED BY <1>1, <1>2, <1>3, <1>4

(* Where the thread that takes a step gets to.                             *)
LEMMA OwnStep ==
    ASSUME TypeOK, NEW th \in Threads, pc[th] <= Len(path[th]), Advance(th),
           NEW t \in Tables
    PROVE  /\ At(th, "admit", t)' <=> At(th, "arrive", t)
           /\ At(th, "left", t)' <=> At(th, "leave", t)
           /\ (t \in Writing(th))' <=>
                At(th, "wait", t) \/ (t \in Writing(th) /\ ~At(th, "post", t))
<1> DEFINE p == path[th]
           i == pc[th]
<1>1. i \in Nat /\ i >= 1 /\ i <= Len(p) /\ Len(p) \in Nat /\ WellFormed(p)
  BY PathFacts
<1>2. path'[th] = p /\ pc'[th] = i + 1
  BY DEF Advance, TypeOK
<1>3. ASSUME NEW a, NEW b, Paired(p, a, b)
      PROVE  (i+1 <= Len(p) /\ p[i+1] = b) <=> p[i] = a
  <2>1. i \in 1..Len(p) /\ (i+1 <= Len(p) => i+1 \in 1..Len(p)) /\ (i+1)-1 = i
    BY <1>1
  <2>. QED BY <1>1, <1>3, <2>1 DEF Paired
<1>4. Paired(p, Do("arrive", t), Do("admit", t)) /\ Paired(p, Do("leave", t), Do("left", t))
  BY <1>1 DEF WellFormed
<1>5. At(th, "admit", t)' <=> At(th, "arrive", t)
  BY <1>1, <1>2, <1>3, <1>4 DEF At, AtStep
<1>6. At(th, "left", t)' <=> At(th, "leave", t)
  BY <1>1, <1>2, <1>3, <1>4 DEF At, AtStep
<1>7. (t \in Writing(th))' <=>
        At(th, "wait", t) \/ (t \in Writing(th) /\ ~At(th, "post", t))
  <2>1. t \in Held(p, i+1) <=>
          p[i] = Do("wait", t) \/ (t \in Held(p, i) /\ p[i] # Do("post", t))
    BY <1>1, HeldStep
  <2>2. Writing(th)' = Held(p, i+1) /\ Writing(th) = Held(p, i)
    BY <1>2 DEF Writing, Held
  <2>3. /\ At(th, "wait", t) <=> p[i] = Do("wait", t)
        /\ At(th, "post", t) <=> p[i] = Do("post", t)
    BY <1>1 DEF At, AtStep
  <2>. QED BY <2>1, <2>2, <2>3
<1>. QED BY <1>5, <1>6, <1>7

(* A thread is about to take one step at most.                             *)
LEMMA AtMostOneStep ==
    ASSUME NEW th, NEW o1, NEW o2, NEW t1, NEW t2, At(th, o1, t1), At(th, o2, t2)
    PROVE  o1 = o2 /\ t1 = t2
<1>1. Do(o1, t1) = Do(o2, t2)
  BY DEF At, AtStep
<1>. QED BY <1>1, DoInjective

(* Where every thread is after th has taken a step.                        *)
LEMMA StepEffect ==
    ASSUME TypeOK, NEW th \in Threads, pc[th] <= Len(path[th]), Advance(th),
           NEW t \in Tables, NEW o \in Threads
    PROVE  /\ At(o, "admit", t)' <=>
                IF o = th THEN At(th, "arrive", t) ELSE At(o, "admit", t)
           /\ At(o, "left", t)' <=>
                IF o = th THEN At(th, "leave", t) ELSE At(o, "left", t)
           /\ (t \in Writing(o))' <=>
                IF o = th THEN At(th, "wait", t) \/ (t \in Writing(th) /\ ~At(th, "post", t))
                ELSE t \in Writing(o)
<1>1. CASE o = th
  BY <1>1, OwnStep
<1>2. CASE o # th
  <2>1. path'[o] = path[o] /\ pc'[o] = pc[o]
    BY <1>2 DEF Advance, TypeOK
  <2>2. /\ At(o, "admit", t)' <=> At(o, "admit", t)
        /\ At(o, "left", t)' <=> At(o, "left", t)
    BY <2>1 DEF At, AtStep
  <2>3. Writing(o)' = Writing(o)
    BY <2>1 DEF Writing, Held
  <2>. QED BY <1>2, <2>2, <2>3
<1>. QED BY <1>1, <1>2

----------------------------------------------------------------------------
(* Every step preserves the invariant *)

(* A step that is not one of u's lock operations, and leaves u's locks as  *)
(* they are, leaves the invariant of u as it is.                           *)
LockOps == {"arrive", "admit", "leave", "left", "wait", "post"}

LEMMA Undisturbed ==
    ASSUME IInv, NEW th \in Threads, Advance(th), pc[th] <= Len(path[th]),
           NEW u \in Tables, \A op \in LockOps : ~At(th, op, u),
           mutex'[u] = mutex[u], counter'[u] = counter[u], wrt'[u] = wrt[u]
    PROVE  MutexInv(u)' /\ WriterInv(u)'
<1>1. TypeOK /\ MutexInv(u) /\ WriterInv(u)
  BY DEF IInv
<1>2. /\ ~At(th, "arrive", u) /\ ~At(th, "admit", u) /\ ~At(th, "leave", u)
      /\ ~At(th, "left", u) /\ ~At(th, "wait", u) /\ ~At(th, "post", u)
  BY DEF LockOps
<1>3. \A o \in Threads :
        /\ At(o, "admit", u)' <=> At(o, "admit", u)
        /\ At(o, "left", u)' <=> At(o, "left", u)
        /\ (u \in Writing(o))' <=> u \in Writing(o)
  BY <1>1, <1>2, StepEffect
<1>4. GroupHolds(u)' <=> GroupHolds(u)
  BY <1>3 DEF GroupHolds
<1>5. MutexInv(u)'
  BY <1>1, <1>3 DEF MutexInv, InMutex
<1>6. WriterInv(u)'
  BY <1>1, <1>3, <1>4 DEF WriterInv
<1>. QED BY <1>5, <1>6

(* A step at table t is no lock operation of another table u.              *)
LEMMA OtherTable ==
    ASSUME NEW th, NEW o, NEW t, NEW u, u # t, At(th, o, t)
    PROVE  \A op \in LockOps : ~At(th, op, u)
BY AtMostOneStep

LEMMA ArriveInv ==
    ASSUME IInv, NEW th \in Threads, NEW t \in Tables, Arrive(th, t), NEW u \in Tables
    PROVE  MutexInv(u)' /\ WriterInv(u)'
<1>1. /\ TypeOK /\ MutexInv(u) /\ WriterInv(u)
      /\ At(th, "arrive", t) /\ Advance(th) /\ pc[th] <= Len(path[th])
  BY DEF IInv, Arrive, At, AtStep
<1>2. CASE u # t
  <2>1. mutex'[u] = mutex[u] /\ counter'[u] = counter[u] /\ wrt'[u] = wrt[u]
    BY <1>1, <1>2 DEF Arrive, TypeOK
  <2>. QED BY <1>1, <1>2, <2>1, OtherTable, Undisturbed
<1>3. CASE u = t
  <2>1. \A o \in Threads :
          /\ At(o, "admit", u)' <=> o = th \/ At(o, "admit", u)
          /\ At(o, "left", u)' <=> o # th /\ At(o, "left", u)
          /\ (u \in Writing(o))' <=> u \in Writing(o)
    BY <1>1, <1>3, StepEffect, AtMostOneStep
  <2>2. /\ mutex[u] = 1 /\ mutex'[u] = 0 /\ counter'[u] = counter[u] + 1
        /\ wrt'[u] = wrt[u] /\ counter[u] \in Int
    BY <1>1, <1>3 DEF Arrive, TypeOK, MutexInv
  <2>3. \A o \in Threads : ~At(o, "admit", u) /\ ~At(o, "left", u)
    BY <1>1, <2>2 DEF MutexInv, InMutex
  <2>4. GroupHolds(u)' <=> GroupHolds(u)
    BY <2>1, <2>2, <2>3 DEF GroupHolds
  <2>5. MutexInv(u)'
    BY <2>1, <2>2, <2>3 DEF MutexInv, InMutex
  <2>6. WriterInv(u)'
    BY <1>1, <2>1, <2>2, <2>4 DEF WriterInv
  <2>. QED BY <2>5, <2>6
<1>. QED BY <1>2, <1>3

LEMMA LeaveInv ==
    ASSUME IInv, NEW th \in Threads, NEW t \in Tables, Leave(th, t), NEW u \in Tables
    PROVE  MutexInv(u)' /\ WriterInv(u)'
<1>1. /\ TypeOK /\ MutexInv(u) /\ WriterInv(u)
      /\ At(th, "leave", t) /\ Advance(th) /\ pc[th] <= Len(path[th])
  BY DEF IInv, Leave, At, AtStep
<1>2. CASE u # t
  <2>1. mutex'[u] = mutex[u] /\ counter'[u] = counter[u] /\ wrt'[u] = wrt[u]
    BY <1>1, <1>2 DEF Leave, TypeOK
  <2>. QED BY <1>1, <1>2, <2>1, OtherTable, Undisturbed
<1>3. CASE u = t
  <2>1. \A o \in Threads :
          /\ At(o, "admit", u)' <=> o # th /\ At(o, "admit", u)
          /\ At(o, "left", u)' <=> o = th \/ At(o, "left", u)
          /\ (u \in Writing(o))' <=> u \in Writing(o)
    BY <1>1, <1>3, StepEffect, AtMostOneStep
  <2>2. /\ mutex[u] = 1 /\ mutex'[u] = 0 /\ counter'[u] = counter[u] - 1
        /\ wrt'[u] = wrt[u] /\ counter[u] \in Int
    BY <1>1, <1>3 DEF Leave, TypeOK, MutexInv
  <2>3. \A o \in Threads : ~At(o, "admit", u) /\ ~At(o, "left", u)
    BY <1>1, <2>2 DEF MutexInv, InMutex
  <2>4. GroupHolds(u)' <=> GroupHolds(u)
    BY <2>1, <2>2, <2>3 DEF GroupHolds
  <2>5. MutexInv(u)'
    BY <2>1, <2>2, <2>3 DEF MutexInv, InMutex
  <2>6. WriterInv(u)'
    BY <1>1, <2>1, <2>2, <2>4 DEF WriterInv
  <2>. QED BY <2>5, <2>6
<1>. QED BY <1>2, <1>3

LEMMA AdmitInv ==
    ASSUME IInv, NEW th \in Threads, NEW t \in Tables, Admit(th, t), NEW u \in Tables
    PROVE  MutexInv(u)' /\ WriterInv(u)'
<1>1. /\ TypeOK /\ MutexInv(u) /\ WriterInv(u)
      /\ At(th, "admit", t) /\ Advance(th) /\ pc[th] <= Len(path[th])
  BY DEF IInv, Admit, At, AtStep
<1>2. CASE u # t
  <2>1. mutex'[u] = mutex[u] /\ counter'[u] = counter[u] /\ wrt'[u] = wrt[u]
    BY <1>1, <1>2 DEF Admit, TypeOK
  <2>. QED BY <1>1, <1>2, <2>1, OtherTable, Undisturbed
<1>3. CASE u = t
  <2>1. \A o \in Threads :
          /\ At(o, "admit", u)' <=> o # th /\ At(o, "admit", u)
          /\ At(o, "left", u)' <=> o # th /\ At(o, "left", u)
          /\ (u \in Writing(o))' <=> u \in Writing(o)
    BY <1>1, <1>3, StepEffect, AtMostOneStep
  <2>2. /\ mutex[u] = 0 /\ mutex'[u] = 1 /\ counter'[u] = counter[u] /\ counter[u] \in Int
    BY <1>1, <1>3 DEF Admit, TypeOK, MutexInv, InMutex
  <2>3. \A o \in Threads : o # th => ~At(o, "admit", u) /\ ~At(o, "left", u)
    BY <1>1, <1>3 DEF MutexInv, InMutex
  <2>4. ~At(th, "left", u)
    BY <1>1, AtMostOneStep
  <2>5. MutexInv(u)'
    BY <2>1, <2>2, <2>3 DEF MutexInv, InMutex
  <2>6. GroupHolds(u)' <=> counter[u] >= 1
    BY <2>1, <2>2, <2>3 DEF GroupHolds
  <2>7. GroupHolds(u) <=> counter[u] >= 2
    BY <1>1, <1>3, <2>2, <2>3, <2>4 DEF GroupHolds
  <2>8. CASE counter[u] = 1
    <3>1. wrt[u] = 1 /\ wrt'[u] = 0
      BY <1>1, <1>3, <2>8 DEF Admit, TypeOK, WriterInv
    <3>. QED BY <1>1, <2>1, <2>2, <2>5, <2>6, <2>8, <3>1 DEF WriterInv
  <2>9. CASE counter[u] # 1
    <3>1. wrt'[u] = wrt[u]
      BY <1>3, <2>9 DEF Admit
    <3>2. GroupHolds(u)' <=> GroupHolds(u)
      BY <2>2, <2>6, <2>7, <2>9
    <3>. QED BY <1>1, <2>1, <2>5, <3>1, <3>2 DEF WriterInv
  <2>. QED BY <2>8, <2>9
<1>. QED BY <1>2, <1>3

LEMMA LeftInv ==
    ASSUME IInv, NEW th \in Threads, NEW t \in Tables, Left(th, t), NEW u \in Tables
    PROVE  MutexInv(u)' /\ WriterInv(u)'
<1>1. /\ TypeOK /\ MutexInv(u) /\ WriterInv(u)
      /\ At(th, "left", t) /\ Advance(th) /\ pc[th] <= Len(path[th])
  BY DEF IInv, Left, At, AtStep
<1>2. CASE u # t
  <2>1. mutex'[u] = mutex[u] /\ counter'[u] = counter[u] /\ wrt'[u] = wrt[u]
    BY <1>1, <1>2 DEF Left, TypeOK
  <2>. QED BY <1>1, <1>2, <2>1, OtherTable, Undisturbed
<1>3. CASE u = t
  <2>1. \A o \in Threads :
          /\ At(o, "admit", u)' <=> o # th /\ At(o, "admit", u)
          /\ At(o, "left", u)' <=> o # th /\ At(o, "left", u)
          /\ (u \in Writing(o))' <=> u \in Writing(o)
    BY <1>1, <1>3, StepEffect, AtMostOneStep
  <2>2. /\ mutex[u] = 0 /\ mutex'[u] = 1 /\ counter'[u] = counter[u] /\ counter[u] \in Int
    BY <1>1, <1>3 DEF Left, TypeOK, MutexInv, InMutex
  <2>3. \A o \in Threads : o # th => ~At(o, "admit", u) /\ ~At(o, "left", u)
    BY <1>1, <1>3 DEF MutexInv, InMutex
  <2>4. ~At(th, "admit", u)
    BY <1>1, AtMostOneStep
  <2>5. MutexInv(u)'
    BY <2>1, <2>2, <2>3 DEF MutexInv, InMutex
  <2>6. GroupHolds(u)' <=> counter[u] >= 1
    BY <2>1, <2>2, <2>3 DEF GroupHolds
  <2>7. GroupHolds(u) <=> counter[u] >= 0
    BY <1>1, <1>3, <2>2, <2>3, <2>4 DEF GroupHolds
  <2>8. CASE counter[u] = 0
    <3>1. wrt[u] = 0 /\ wrt'[u] = 1
      BY <1>1, <1>3, <2>7, <2>8 DEF Left, TypeOK, WriterInv
    <3>2. \A o \in Threads : u \notin Writing(o)
      BY <1>1, <2>7, <2>8 DEF WriterInv
    <3>. QED BY <1>1, <2>1, <2>5, <2>6, <2>8, <3>1, <3>2 DEF WriterInv
  <2>9. CASE counter[u] # 0
    <3>1. wrt'[u] = wrt[u]
      BY <1>3, <2>9 DEF Left
    <3>2. GroupHolds(u)' <=> GroupHolds(u)
      BY <2>2, <2>6, <2>7, <2>9
    <3>. QED BY <1>1, <2>1, <2>5, <3>1, <3>2 DEF WriterInv
  <2>. QED BY <2>8, <2>9
<1>. QED BY <1>2, <1>3

LEMMA WaitInv ==
    ASSUME IInv, NEW th \in Threads, NEW t \in Tables, WaitWriter(th, t), NEW u \in Tables
    PROVE  MutexInv(u)' /\ WriterInv(u)'
<1>1. /\ TypeOK /\ MutexInv(u) /\ WriterInv(u)
      /\ At(th, "wait", t) /\ Advance(th) /\ pc[th] <= Len(path[th])
      /\ mutex' = mutex /\ counter' = counter
  BY DEF IInv, WaitWriter, At, AtStep
<1>2. CASE u # t
  <2>1. wrt'[u] = wrt[u]
    BY <1>1, <1>2 DEF WaitWriter, TypeOK
  <2>. QED BY <1>1, <1>2, <2>1, OtherTable, Undisturbed
<1>3. CASE u = t
  <2>1. ~At(th, "admit", u) /\ ~At(th, "left", u)
    BY <1>1, AtMostOneStep
  <2>2. \A o \in Threads :
          /\ At(o, "admit", u)' <=> At(o, "admit", u)
          /\ At(o, "left", u)' <=> At(o, "left", u)
          /\ (u \in Writing(o))' <=> o = th \/ u \in Writing(o)
    BY <1>1, <1>3, <2>1, StepEffect, AtMostOneStep
  <2>3. wrt[u] = 1 /\ wrt'[u] = 0
    BY <1>1, <1>3 DEF WaitWriter, TypeOK, WriterInv
  <2>4. ~GroupHolds(u) /\ \A o \in Threads : u \notin Writing(o)
    BY <1>1, <2>3 DEF WriterInv
  <2>5. GroupHolds(u)' <=> GroupHolds(u)
    BY <1>1, <2>2 DEF GroupHolds
  <2>6. MutexInv(u)'
    BY <1>1, <2>2 DEF MutexInv, InMutex
  <2>7. WriterInv(u)'
    BY <2>2, <2>3, <2>4, <2>5 DEF WriterInv
  <2>. QED BY <2>6, <2>7
<1>. QED BY <1>2, <1>3

LEMMA PostInv ==
    ASSUME IInv, NEW th \in Threads, NEW t \in Tables, PostWriter(th, t), NEW u \in Tables
    PROVE  MutexInv(u)' /\ WriterInv(u)'
<1>1. /\ TypeOK /\ MutexInv(u) /\ WriterInv(u)
      /\ At(th, "post", t) /\ Advance(th) /\ pc[th] <= Len(path[th])
      /\ mutex' = mutex /\ counter' = counter
  BY DEF IInv, PostWriter, At, AtStep
<1>2. CASE u # t
  <2>1. wrt'[u] = wrt[u]
    BY <1>1, <1>2 DEF PostWriter, TypeOK
  <2>. QED BY <1>1, <1>2, <2>1, OtherTable, Undisturbed
<1>3. CASE u = t
  <2>1. ~At(th, "admit", u) /\ ~At(th, "left", u) /\ ~At(th, "wait", u)
    BY <1>1, AtMostOneStep
  <2>2. \A o \in Threads :
          /\ At(o, "admit", u)' <=> At(o, "admit", u)
          /\ At(o, "left", u)' <=> At(o, "left", u)
          /\ (u \in Writing(o))' <=> o # th /\ u \in Writing(o)
    BY <1>1, <1>3, <2>1, StepEffect, AtMostOneStep
  <2>3. u \in Writing(th)
    <3>1. WellFormed(path[th]) /\ pc[th] \in 1..Len(path[th]) /\ path[th][pc[th]] = Do("post", u)
      BY <1>1, <1>3, PathFacts DEF At, AtStep
    <3>. QED BY <3>1 DEF WellFormed, Writing
  <2>4. wrt[u] = 0 /\ wrt'[u] = 1 /\ ~GroupHolds(u)
    BY <1>1, <1>3, <2>3 DEF PostWriter, TypeOK, WriterInv
  <2>5. \A o \in Threads : o # th => u \notin Writing(o)
    BY <1>1, <2>3 DEF WriterInv
  <2>6. GroupHolds(u)' <=> GroupHolds(u)
    BY <1>1, <2>2 DEF GroupHolds
  <2>7. MutexInv(u)'
    BY <1>1, <2>2 DEF MutexInv, InMutex
  <2>8. WriterInv(u)'
    BY <2>2, <2>4, <2>5, <2>6 DEF WriterInv
  <2>. QED BY <2>7, <2>8
<1>. QED BY <1>2, <1>3

(* A thread between two commands is at no step and holds nothing; so is a  *)
(* thread whose handler has not begun or is done.                          *)
LEMMA BetweenCommands ==
    ASSUME TypeOK, NEW th \in Threads, Receive(th) \/ Return(th),
           NEW t \in Tables, NEW o \in Threads
    PROVE  /\ InMutex(o, t)' <=> InMutex(o, t)
           /\ At(o, "admit", t)' <=> At(o, "admit", t)
           /\ At(o, "left", t)' <=> At(o, "left", t)
           /\ (t \in Writing(o))' <=> t \in Writing(o)
<1>1. CASE o # th
  <2>1. path'[o] = path[o] /\ pc'[o] = pc[o]
    BY <1>1 DEF Receive, Return, TypeOK
  <2>. QED BY <2>1 DEF InMutex, At, AtStep, Writing, Held
<1>2. CASE o = th
  <2>1. ASSUME Receive(th)
        PROVE  /\ pc[th] = 1 /\ pc'[th] = 1 /\ Len(path[th]) = 0
               /\ path'[th] \in Programs
    BY <2>1, PathFacts DEF Receive, Idle, TypeOK
  <2>2. ASSUME Return(th)
        PROVE  /\ pc[th] = Len(path[th]) + 1 /\ WellFormed(path[th])
               /\ pc'[th] = 1 /\ path'[th] = <<>> /\ Len(path[th]) \in Nat
    BY <2>2, PathFacts DEF Return, Idle, TypeOK
  <2>3. ~At(o, "admit", t) /\ ~At(o, "left", t)
    BY <1>2, <2>1, <2>2 DEF At, AtStep
  <2>4. ASSUME NEW a, NEW b, Paired(path'[th], a, b), Len(path'[th]) \in Nat, pc'[th] = 1
        PROVE  ~AtStep(th, b)'
    BY <2>4 DEF Paired, AtStep
  <2>5. ~At(o, "admit", t)' /\ ~At(o, "left", t)'
    <3>1. CASE Receive(th)
      <4>1. WellFormed(path'[th]) /\ Len(path'[th]) \in Nat
        BY <2>1, <3>1, ProgramsAssumption DEF WellFormed
      <4>2. /\ Paired(path'[th], Do("arrive", t), Do("admit", t))
            /\ Paired(path'[th], Do("leave", t), Do("left", t))
        BY <4>1 DEF WellFormed
      <4>. QED BY <1>2, <2>1, <2>4, <3>1, <4>1, <4>2 DEF At
    <3>2. CASE Return(th)
      BY <1>2, <2>2, <3>2 DEF At, AtStep
    <3>. QED BY <3>1, <3>2
  <2>6. t \notin Writing(o)
    BY <1>2, <2>1, <2>2, HeldFirst DEF Writing, WellFormed
  <2>7. ~(t \in Writing(o))'
    <3>1. pc'[th] = 1
      BY <2>1, <2>2
    <3>2. Writing(th)' = Held(path'[th], 1)
      BY <3>1 DEF Writing, Held
    <3>. QED BY <1>2, <3>2, HeldFirst
  <2>. QED BY <2>3, <2>5, <2>6, <2>7 DEF InMutex
<1>. QED BY <1>1, <1>2

LEMMA BetweenInv ==
    ASSUME IInv, NEW th \in Threads, Receive(th) \/ Return(th), NEW u \in Tables
    PROVE  MutexInv(u)' /\ WriterInv(u)'
<1>1. TypeOK /\ MutexInv(u) /\ WriterInv(u)
  BY DEF IInv
<1>2. mutex' = mutex /\ counter' = counter /\ wrt' = wrt
  BY DEF Receive, Return, locks
<1>3. GroupHolds(u)' <=> GroupHolds(u)
  BY <1>1, <1>2, BetweenCommands DEF GroupHolds
<1>4. MutexInv(u)'
  BY <1>1, <1>2, BetweenCommands DEF MutexInv
<1>5. WriterInv(u)'
  BY <1>1, <1>2, <1>3, BetweenCommands DEF WriterInv
<1>. QED BY <1>4, <1>5

(* Steps that touch the file or the connection move no lock.               *)
LEMMA FileInv ==
    ASSUME IInv, NEW th \in Threads, NEW t \in Tables,
           Load(th, t) \/ Truncate(th, t) \/ Flush(th, t) \/ Answer(th), NEW u \in Tables
    PROVE  MutexInv(u)' /\ WriterInv(u)'
<1>1. Advance(th) /\ mutex' = mutex /\ counter' = counter /\ wrt' = wrt
  BY DEF Load, Truncate, Flush, Answer, locks
<1>2. pc[th] <= Len(path[th])
  BY DEF Load, Truncate, Flush, Answer, At, AtStep
<1>3. ASSUME Answer(th), NEW op, At(th, op, u) PROVE FALSE
  BY <1>3 DEF Answer, At, AtStep, Do, Reply
<1>4. \A op \in LockOps : ~At(th, op, u)
  BY <1>3, AtMostOneStep DEF Load, Truncate, Flush, LockOps
<1>. QED BY <1>1, <1>2, <1>4, Undisturbed

----------------------------------------------------------------------------
(* Types *)

LEMMA TypeInit == Init => TypeOK
BY RequestsAssumption DEF Init, TypeOK

(* A thread that takes a step of its handler keeps the types of its own.   *)
LEMMA TypeAdvance ==
    ASSUME TypeOK, NEW th \in Threads, Advance(th), pc[th] <= Len(path[th])
    PROVE  /\ path' \in [Threads -> Programs \cup {<<>>}]
           /\ \A o \in Threads : pc'[o] \in 1..(Len(path'[o]) + 1)
           /\ pc' \in [Threads -> Nat] /\ sent' \in [Threads -> 0..MaxRequests]
<1>1. ASSUME NEW o \in Threads PROVE pc'[o] \in 1..(Len(path'[o]) + 1)
  <2>1. pc[o] \in Nat /\ pc[o] >= 1 /\ pc[o] <= Len(path[o]) + 1 /\ Len(path[o]) \in Nat
    BY PathFacts
  <2>2. path'[o] = path[o] /\ pc'[o] = IF o = th THEN pc[o] + 1 ELSE pc[o]
    BY DEF Advance, TypeOK
  <2>. QED BY <2>1, <2>2
<1>. QED BY <1>1 DEF Advance, TypeOK

(* The types hold, and go on holding.                                      *)
LEMMA TypeNext == TypeOK /\ [Next]_vars => TypeOK'
<1> SUFFICES ASSUME TypeOK, [Next]_vars PROVE TypeOK'
  OBVIOUS
<1>1. CASE UNCHANGED vars
  BY <1>1 DEF TypeOK, vars
<1>2. ASSUME NEW th \in Threads, Receive(th) PROVE TypeOK'
  <2>1. PICK p \in Programs : path' = [path EXCEPT ![th] = p]
    BY <1>2 DEF Receive
  <2>2. Len(p) \in Nat
    BY ProgramsAssumption DEF WellFormed
  <2>3. \A o \in Threads : pc'[o] \in 1..(Len(path'[o]) + 1)
    <3>1. SUFFICES ASSUME NEW o \in Threads PROVE pc'[o] \in 1..(Len(path'[o]) + 1)
      OBVIOUS
    <3>2. pc'[o] = pc[o] /\ path'[o] = IF o = th THEN p ELSE path[o]
      BY <1>2, <2>1 DEF Receive, TypeOK
    <3>3. pc[th] = 1
      BY <1>2, PathFacts DEF Receive, Idle
    <3>. QED BY <2>2, <3>2, <3>3 DEF TypeOK
  <2>4. sent' \in [Threads -> 0..MaxRequests]
    BY <1>2, RequestsAssumption DEF Receive, TypeOK
  <2>. QED BY <1>2, <2>1, <2>3, <2>4 DEF Receive, TypeOK, locks
<1>3. ASSUME NEW th \in Threads, Return(th) PROVE TypeOK'
  <2>1. \A o \in Threads : pc'[o] \in 1..(Len(path'[o]) + 1)
    <3>1. SUFFICES ASSUME NEW o \in Threads PROVE pc'[o] \in 1..(Len(path'[o]) + 1)
      OBVIOUS
    <3>2. CASE o = th
      <4>1. pc'[o] = 1 /\ path'[o] = <<>> /\ Len(<<>>) = 0
        BY <1>3, <3>2 DEF Return, TypeOK
      <4>. QED BY <4>1
    <3>3. CASE o # th
      BY <1>3, <3>3 DEF Return, TypeOK
    <3>. QED BY <3>2, <3>3
  <2>. QED BY <1>3, <2>1 DEF Return, TypeOK, locks
<1>4. ASSUME NEW th \in Threads, Answer(th) PROVE TypeOK'
  <2>1. pc[th] <= Len(path[th]) /\ Advance(th)
    BY <1>4 DEF Answer, AtStep
  <2>. QED BY <1>4, <2>1, TypeAdvance DEF Answer, TypeOK, locks
<1>5. ASSUME NEW th \in Threads, NEW t \in Tables, TableStep(th, t) PROVE TypeOK'
  <2>1. pc[th] <= Len(path[th]) /\ Advance(th)
    BY <1>5 DEF TableStep, Arrive, Admit, Leave, Left, WaitWriter, PostWriter,
                Load, Truncate, Flush, At, AtStep
  <2>2. wrt' \in [Tables -> Nat]
    BY <1>5 DEF TableStep, Arrive, Admit, Leave, Left, WaitWriter, PostWriter,
                Load, Truncate, Flush, TypeOK, locks
  <2>3. counter' \in [Tables -> Int]
    <3>1. CASE Arrive(th, t)
      BY <3>1 DEF Arrive, TypeOK
    <3>2. CASE Leave(th, t)
      BY <3>2 DEF Leave, TypeOK
    <3>3. CASE counter' = counter
      BY <3>3 DEF TypeOK
    <3>. QED BY <1>5, <3>1, <3>2, <3>3 DEF TableStep, Admit, Left, WaitWriter,
                                           PostWriter, Load, Truncate, Flush, locks
  <2>4. mutex' \in [Tables -> Nat]
    <3>1. CASE mutex[t] > 0 /\ mutex' = [mutex EXCEPT ![t] = @ - 1]
      BY <3>1 DEF TypeOK
    <3>2. CASE mutex' = [mutex EXCEPT ![t] = @ + 1]
      BY <3>2 DEF TypeOK
    <3>3. CASE mutex' = mutex
      BY <3>3 DEF TypeOK
    <3>. QED BY <1>5, <3>1, <3>2, <3>3 DEF TableStep, Arrive, Admit, Leave, Left,
                              WaitWriter, PostWriter, Load, Truncate, Flush, locks
  <2>5. fresh' \in [Threads -> SUBSET Tables]
    <3>1. CASE Load(th, t)
      BY <3>1 DEF Load, TypeOK
    <3>2. CASE Flush(th, t)
      BY <3>2 DEF Flush, TypeOK
    <3>3. CASE fresh' = fresh
      BY <3>3 DEF TypeOK
    <3>. QED BY <1>5, <3>1, <3>2, <3>3 DEF TableStep, Arrive, Admit, Leave, Left,
                                           WaitWriter, PostWriter, Truncate
  <2>. QED BY <2>1, <2>2, <2>3, <2>4, <2>5, TypeAdvance DEF TypeOK
<1>. QED BY <1>1, <1>2, <1>3, <1>4, <1>5 DEF Next, Run, Quiet

(* All variables keep their types.                                         *)
THEOREM TypeCorrect == Spec => []TypeOK
BY TypeInit, TypeNext, PTL DEF Spec

----------------------------------------------------------------------------
(* The invariant is inductive *)

LEMMA InvInit == Init => IInv
<1> SUFFICES ASSUME Init PROVE IInv
  OBVIOUS
<1>1. TypeOK
  BY TypeInit
<1>2. ASSUME NEW th \in Threads, NEW t \in Tables
      PROVE  ~InMutex(th, t) /\ ~At(th, "left", t) /\ t \notin Writing(th)
  <2>1. pc[th] = 1 /\ path[th] = <<>> /\ Len(<<>>) = 0
    BY DEF Init
  <2>2. Writing(th) = {}
    BY <2>1, HeldFirst DEF Writing
  <2>. QED BY <2>1, <2>2 DEF InMutex, At, AtStep
<1>3. ASSUME NEW t \in Tables PROVE MutexInv(t) /\ WriterInv(t)
  <2>1. wrt[t] = 1 /\ mutex[t] = 1 /\ counter[t] = 0
    BY DEF Init
  <2>. QED BY <1>2, <2>1 DEF MutexInv, WriterInv, GroupHolds
<1>. QED BY <1>1, <1>3 DEF IInv

LEMMA InvNext == IInv /\ [Next]_vars => IInv'
<1> SUFFICES ASSUME IInv, [Next]_vars PROVE IInv'
  OBVIOUS
<1>1. TypeOK'
  BY TypeNext DEF IInv
<1>2. ASSUME NEW u \in Tables PROVE MutexInv(u)' /\ WriterInv(u)'
  <2>1. CASE UNCHANGED vars
    BY <2>1 DEF IInv, MutexInv, WriterInv, GroupHolds, InMutex, At, AtStep, Writing, Held, vars
  <2>2. ASSUME NEW th \in Threads, Receive(th) \/ Return(th)
        PROVE  MutexInv(u)' /\ WriterInv(u)'
    BY <2>2, BetweenInv
  <2>3. ASSUME NEW th \in Threads, Answer(th) PROVE MutexInv(u)' /\ WriterInv(u)'
    BY <2>3, FileInv
  <2>4. ASSUME NEW th \in Threads, NEW t \in Tables, TableStep(th, t)
        PROVE  MutexInv(u)' /\ WriterInv(u)'
    BY <2>4, ArriveInv, AdmitInv, LeaveInv, LeftInv, WaitInv, PostInv, FileInv DEF TableStep
  <2>. QED BY <2>1, <2>2, <2>3, <2>4 DEF Next, Run, Quiet
<1>. QED BY <1>1, <1>2 DEF IInv

THEOREM Invariant == Spec => []IInv
BY InvInit, InvNext, PTL DEF Spec

(* No execution posts a semaphore that is free: the ten semaphores stay    *)
(* binary whatever the readers do, unmatched exits included.               *)
THEOREM SemaphoresStayBinary == Spec => []BinarySemaphores
<1>1. IInv => BinarySemaphores
  BY DEF IInv, MutexInv, WriterInv, BinarySemaphores
<1>. QED BY <1>1, Invariant, PTL

(* Two handlers never hold the writer lock of one table together.          *)
THEOREM WritersAlone == Spec => []WritersExclude
<1>1. IInv => WritersExclude
  BY DEF IInv, WriterInv, WritersExclude
<1>. QED BY <1>1, Invariant, PTL

----------------------------------------------------------------------------
(* No update is lost *)

(* The handler has loaded t since it took t's writer lock; the copy it has *)
(* of a table it holds and has loaded is that of the file.                 *)
Loaded(th, t) == Since(path[th], pc[th], Do("load", t), Do("wait", t))
CopyInv ==
    \A th \in Threads, t \in Tables : t \in Writing(th) /\ Loaded(th, t) => t \in fresh[th]

(* A handler is about to take a step of a well-formed sequence.            *)
LEMMA StepFacts ==
    ASSUME TypeOK, NEW th \in Threads, NEW o, NEW t \in Tables, At(th, o, t)
    PROVE  /\ WellFormed(path[th])
           /\ Len(path[th]) \in Nat /\ pc[th] \in 1..Len(path[th])
           /\ path[th][pc[th]] = Do(o, t)
BY PathFacts DEF At, AtStep

(* A file is rewritten only by the holder of its writer lock.              *)
LEMMA FlushUnderLock ==
    ASSUME TypeOK, NEW th \in Threads, NEW t \in Tables, At(th, "flush", t)
    PROVE  t \in Writing(th)
<1> DEFINE p == path[th]
           i == pc[th]
<1>1. WellFormed(p) /\ Len(p) \in Nat /\ i \in 1..Len(p) /\ p[i] = Do("flush", t)
  BY StepFacts
<1>2. i > 1 /\ p[i-1] = Do("truncate", t)
  BY <1>1 DEF WellFormed, Paired
<1>3. i-1 \in 1..Len(p) /\ i-1 \in Nat /\ i-1 >= 1 /\ (i-1)+1 = i
  BY <1>1, <1>2
<1>4. t \in Held(p, i-1)
  BY <1>1, <1>2, <1>3 DEF WellFormed
<1>5. Do("truncate", t) # Do("post", t)
  BY DEF Do
<1>6. t \in Held(p, (i-1)+1)
  BY <1>2, <1>3, <1>4, <1>5, HeldStep
<1>. QED BY <1>3, <1>6 DEF Writing

(* What a handler has loaded after one more step.                          *)
LEMMA LoadedStep ==
    ASSUME TypeOK, NEW th \in Threads, pc[th] <= Len(path[th]), Advance(th), NEW t \in Tables
    PROVE  Loaded(th, t)' => At(th, "load", t) \/ (Loaded(th, t) /\ ~At(th, "wait", t))
<1>1. pc[th] \in Nat /\ pc[th] >= 1
  BY PathFacts
<1>2. path'[th] = path[th] /\ pc'[th] = pc[th] + 1
  BY DEF Advance, TypeOK
<1>3. Loaded(th, t)' = Since(path[th], pc[th] + 1, Do("load", t), Do("wait", t))
  BY <1>2 DEF Loaded, Since
<1>. QED BY <1>1, <1>3, SinceStep DEF Loaded, At, AtStep

LEMMA CopyStep ==
    ASSUME IInv, CopyInv, NEW th \in Threads,
           Answer(th) \/ \E u \in Tables : TableStep(th, u)
    PROVE  CopyInv'
<1>1. TypeOK /\ Advance(th) /\ pc[th] <= Len(path[th])
  BY DEF IInv, Answer, TableStep, Arrive, Admit, Leave, Left, WaitWriter, PostWriter,
         Load, Truncate, Flush, At, AtStep
<1>2. ASSUME NEW o \in Threads, NEW t \in Tables, (t \in Writing(o))', Loaded(o, t)'
      PROVE  t \in fresh'[o]
  <2>1. CASE o = th
    <3>1. CASE At(th, "load", t)
      <4>1. Load(th, t)
        <5>1. ~Answer(th)
          BY <3>1 DEF Answer, At, AtStep, Do, Reply
        <5>2. ASSUME NEW u \in Tables, TableStep(th, u) PROVE Load(th, t)
          BY <3>1, <5>2, AtMostOneStep DEF TableStep, Arrive, Admit, Leave, Left,
             WaitWriter, PostWriter, Load, Truncate, Flush
        <5>. QED BY <5>1, <5>2
      <4>. QED BY <1>1, <2>1, <4>1 DEF Load, TypeOK
    <3>2. CASE ~At(th, "load", t)
      <4>1. t \in Writing(th) /\ Loaded(th, t)
        BY <1>1, <1>2, <2>1, <3>2, LoadedStep, StepEffect
      <4>2. fresh[th] \subseteq fresh'[th]
        BY <1>1 DEF TypeOK, Answer, TableStep, Arrive, Admit, Leave, Left, WaitWriter,
                    PostWriter, Load, Truncate, Flush
      <4>. QED BY <2>1, <4>1, <4>2 DEF CopyInv
    <3>. QED BY <3>1, <3>2
  <2>2. CASE o # th
    <3>1. path'[o] = path[o] /\ pc'[o] = pc[o]
      BY <1>1, <2>2 DEF Advance, TypeOK
    <3>2. t \in Writing(o) /\ Loaded(o, t)
      BY <1>2, <3>1 DEF Writing, Held, Loaded, Since
    <3>3. t \in fresh[o]
      BY <3>2 DEF CopyInv
    <3>4. CASE Flush(th, t)
      <4>1. t \in Writing(th)
        BY <1>1, <3>4, FlushUnderLock DEF Flush
      <4>. QED BY <2>2, <3>2, <4>1 DEF IInv, WriterInv
    <3>5. ASSUME NEW u \in Tables, u # t, Flush(th, u) PROVE t \in fresh'[o]
      <4>1. fresh'[o] = fresh[o] \ {u}
        BY <2>2, <3>5 DEF Flush
      <4>. QED BY <3>3, <3>5, <4>1
    <3>6. CASE \A u \in Tables : ~Flush(th, u)
      BY <1>1, <2>2, <3>3, <3>6 DEF TypeOK, Answer, TableStep, Arrive, Admit, Leave, Left,
                    WaitWriter, PostWriter, Load, Truncate
    <3>. QED BY <3>4, <3>5, <3>6
  <2>. QED BY <2>1, <2>2
<1>. QED BY <1>2 DEF CopyInv

LEMMA CopyNext == IInv /\ CopyInv /\ [Next]_vars => CopyInv'
<1> SUFFICES ASSUME IInv, CopyInv, [Next]_vars PROVE CopyInv'
  OBVIOUS
<1>1. CASE UNCHANGED vars
  BY <1>1 DEF CopyInv, Writing, Held, Loaded, Since, vars
<1>2. ASSUME NEW th \in Threads, Receive(th) \/ Return(th) PROVE CopyInv'
  <2>1. TypeOK
    BY DEF IInv
  <2>2. ASSUME NEW o \in Threads, NEW t \in Tables, (t \in Writing(o))', Loaded(o, t)'
        PROVE  t \in fresh'[o]
    <3>1. o # th
      <4>1. pc'[th] = 1
        <5>1. CASE Receive(th)
          BY <2>1, <5>1, PathFacts DEF Receive, Idle
        <5>2. CASE Return(th)
          BY <2>1, <5>2 DEF Return, TypeOK
        <5>. QED BY <1>2, <5>1, <5>2
      <4>. QED BY <2>2, <4>1 DEF Loaded, Since
    <3>2. path'[o] = path[o] /\ pc'[o] = pc[o] /\ fresh'[o] = fresh[o]
      BY <1>2, <2>1, <3>1 DEF Receive, Return, TypeOK
    <3>. QED BY <2>2, <3>2 DEF CopyInv, Writing, Held, Loaded, Since
  <2>. QED BY <2>2 DEF CopyInv
<1>. QED BY <1>1, <1>2, CopyStep DEF Next, Run, Quiet

(* A handler that rewrites a file writes back a copy nobody has outdated.  *)
THEOREM UpdatesKept == Spec => []NoLostUpdate
<1>1. Init => CopyInv
  BY DEF Init, CopyInv, Loaded, Since
<1>2. TypeOK /\ CopyInv => NoLostUpdate
  <2> SUFFICES ASSUME TypeOK, CopyInv, NEW th \in Threads, NEW t \in Tables, At(th, "truncate", t)
               PROVE  t \in fresh[th]
    BY DEF NoLostUpdate
  <2>1. WellFormed(path[th]) /\ pc[th] \in 1..Len(path[th]) /\ path[th][pc[th]] = Do("truncate", t)
    BY StepFacts
  <2>2. t \in Writing(th) /\ Loaded(th, t)
    BY <2>1 DEF WellFormed, Writing, Loaded
  <2>. QED BY <2>2 DEF CopyInv
<1>. QED BY <1>1, <1>2, CopyNext, Invariant, PTL DEF Spec, IInv

----------------------------------------------------------------------------
(* Readers that leave what they entered *)

ReadersMatched == IsFiniteSet(Threads) /\ \A p \in Programs : Matched(p)

(* The threads that t's counter counts when no unmatched exit disturbs it. *)
Entered(t) == {th \in Threads : t \in Reading(th) \/ At(th, "admit", t)}
CountInv == \A t \in Tables : counter[t] = Cardinality(Entered(t))

----------------------------------------------------------------------------
(* The readers of a handler *)

LEMMA InsideStep ==
    ASSUME NEW p, NEW i \in Nat, i >= 1, NEW t \in Tables
    PROVE  t \in Inside(p, i+1) <=>
             p[i] = Do("admit", t) \/ (t \in Inside(p, i) /\ p[i] # Do("leave", t))
<1>1. Since(p, i+1, Do("admit", t), Do("leave", t)) <=>
        p[i] = Do("admit", t)
          \/ (Since(p, i, Do("admit", t), Do("leave", t)) /\ p[i] # Do("leave", t))
  BY SinceStep
<1>. QED BY <1>1 DEF Inside

(* A handler enters only a table it is not reading: its own rank is not    *)
(* below itself.                                                           *)
LEMMA NotInsideAlready ==
    ASSUME TypeOK, NEW th \in Threads, NEW t \in Tables
    PROVE  /\ At(th, "arrive", t) => t \notin Reading(th)
           /\ At(th, "admit", t) => t \notin Reading(th)
<1> DEFINE p == path[th]
           i == pc[th]
<1>1. ASSUME NEW j \in 1..Len(p), WellFormed(p), p[j] = Do("arrive", t)
      PROVE  t \notin Inside(p, j)
  <2>1. \A u \in Held(p, j) \cup Inside(p, j) : Rank[u] < Rank[t]
    BY <1>1 DEF WellFormed
  <2>2. Rank[t] \in Int
    BY RankAssumption
  <2>. QED BY <2>1, <2>2
<1>2. ASSUME At(th, "arrive", t) PROVE t \notin Reading(th)
  BY <1>1, <1>2, StepFacts DEF Reading
<1>3. ASSUME At(th, "admit", t) PROVE t \notin Reading(th)
  <2>1. WellFormed(p) /\ Len(p) \in Nat /\ i \in 1..Len(p) /\ p[i] = Do("admit", t)
    BY <1>3, StepFacts
  <2>2. i > 1 /\ p[i-1] = Do("arrive", t)
    BY <2>1 DEF WellFormed, Paired
  <2>3. i-1 \in 1..Len(p) /\ i-1 \in Nat /\ i-1 >= 1 /\ (i-1)+1 = i
    BY <2>1, <2>2
  <2>4. t \notin Inside(p, i-1)
    BY <1>1, <2>1, <2>2, <2>3
  <2>5. Do("arrive", t) # Do("admit", t)
    BY DEF Do
  <2>6. t \notin Inside(p, (i-1)+1)
    BY <2>2, <2>3, <2>4, <2>5, InsideStep
  <2>. QED BY <2>3, <2>6 DEF Reading
<1>. QED BY <1>2, <1>3

(* Whom the counter counts after th has taken a step of its handler.       *)
LEMMA EnteredStep ==
    ASSUME TypeOK, ReadersMatched, NEW th \in Threads, pc[th] <= Len(path[th]), Advance(th),
           NEW t \in Tables, NEW o \in Threads
    PROVE  /\ (t \in Reading(o))' <=>
                IF o = th THEN At(th, "admit", t) \/ (t \in Reading(th) /\ ~At(th, "leave", t))
                ELSE t \in Reading(o)
           /\ (o \in Entered(t))' <=>
                IF o = th
                THEN At(th, "arrive", t) \/ (o \in Entered(t) /\ ~At(th, "leave", t))
                ELSE o \in Entered(t)
<1>1. CASE o # th
  <2>1. path'[o] = path[o] /\ pc'[o] = pc[o]
    BY <1>1 DEF Advance, TypeOK
  <2>2. Reading(o)' = Reading(o) /\ (At(o, "admit", t)' <=> At(o, "admit", t))
    BY <2>1 DEF Reading, Inside, At, AtStep
  <2>. QED BY <1>1, <2>2 DEF Entered
<1>2. CASE o = th
  <2>1. pc[th] \in Nat /\ pc[th] >= 1
    BY PathFacts
  <2>2. path'[th] = path[th] /\ pc'[th] = pc[th] + 1
    BY DEF Advance, TypeOK
  <2>3. Reading(th)' = Inside(path[th], pc[th] + 1)
    BY <2>2 DEF Reading, Inside
  <2>4. (t \in Reading(th))' <=>
          At(th, "admit", t) \/ (t \in Reading(th) /\ ~At(th, "leave", t))
    BY <2>1, <2>3, InsideStep DEF Reading, At, AtStep
  <2>5. At(th, "admit", t)' <=> At(th, "arrive", t)
    BY OwnStep
  <2>6. ~(At(th, "admit", t) /\ At(th, "leave", t))
    BY AtMostOneStep
  <2>7. (th \in Entered(t))' <=>
          At(th, "arrive", t) \/ (th \in Entered(t) /\ ~At(th, "leave", t))
    BY <2>4, <2>5, <2>6 DEF Entered
  <2>. QED BY <1>2, <2>4, <2>7
<1>. QED BY <1>1, <1>2

(* Between commands nobody reads, and the counter counts the same threads. *)
LEMMA EnteredBetween ==
    ASSUME TypeOK, ReadersMatched, NEW th \in Threads, Receive(th) \/ Return(th), NEW t \in Tables
    PROVE  /\ \A o \in Threads : (t \in Reading(o))' <=> t \in Reading(o)
           /\ Entered(t)' = Entered(t)
<1>1. ASSUME NEW o \in Threads PROVE (t \in Reading(o))' <=> t \in Reading(o)
  <2>1. CASE o # th
    <3>1. path'[o] = path[o] /\ pc'[o] = pc[o]
      BY <2>1 DEF Receive, Return, TypeOK
    <3>. QED BY <3>1 DEF Reading, Inside
  <2>2. CASE o = th
    <3>1. ASSUME NEW p PROVE Inside(p, 1) = {}
      BY DEF Inside, Since
    <3>2. pc'[th] = 1 /\ Reading(th) = {}
      <4>1. CASE Receive(th)
        BY <3>1, <4>1, PathFacts DEF Receive, Idle, Reading
      <4>2. CASE Return(th)
        <5>1. pc[th] = Len(path[th]) + 1 /\ path[th] \in Programs /\ pc'[th] = 1
          BY <4>2, PathFacts DEF Return, Idle, TypeOK
        <5>. QED BY <5>1 DEF ReadersMatched, Matched, Reading
      <4>. QED BY <4>1, <4>2
    <3>3. Reading(th)' = Inside(path'[th], 1)
      BY <3>2 DEF Reading, Inside
    <3>. QED BY <2>2, <3>1, <3>2, <3>3
  <2>. QED BY <2>1, <2>2
<1>2. \A o \in Threads : At(o, "admit", t)' <=> At(o, "admit", t)
  BY BetweenCommands
<1>3. Entered(t)' = Entered(t)
  BY <1>1, <1>2 DEF Entered
<1>. QED BY <1>1, <1>3

----------------------------------------------------------------------------
(* The counter counts the readers *)

LEMMA EnteredFinite ==
    ASSUME ReadersMatched, NEW t \in Tables
    PROVE  IsFiniteSet(Entered(t)) /\ Cardinality(Entered(t)) \in Nat
<1>1. Entered(t) \subseteq Threads /\ IsFiniteSet(Threads)
  BY DEF Entered, ReadersMatched
<1>. QED BY <1>1, FS_Subset, FS_CardinalityType

LEMMA CountStep ==
    ASSUME IInv, CountInv, ReadersMatched, NEW th \in Threads,
           Answer(th) \/ \E u \in Tables : TableStep(th, u)
    PROVE  CountInv'
<1>1. TypeOK /\ Advance(th) /\ pc[th] <= Len(path[th])
  BY DEF IInv, Answer, TableStep, Arrive, Admit, Leave, Left, WaitWriter, PostWriter,
         Load, Truncate, Flush, At, AtStep
<1>2. ASSUME NEW t \in Tables PROVE counter'[t] = Cardinality(Entered(t)')
  <2>1. counter[t] = Cardinality(Entered(t)) /\ IsFiniteSet(Entered(t))
    BY EnteredFinite DEF CountInv
  <2>2. CASE Arrive(th, t)
    <3>1. At(th, "arrive", t) /\ counter'[t] = counter[t] + 1
      BY <1>1, <2>2 DEF Arrive, TypeOK
    <3>2. th \notin Entered(t)
      BY <1>1, <3>1, NotInsideAlready, AtMostOneStep DEF Entered
    <3>3. ~At(th, "leave", t)
      BY <3>1, AtMostOneStep
    <3>4. Entered(t)' = Entered(t) \cup {th}
      <4>1. Entered(t) \subseteq Threads /\ Entered(t)' \subseteq Threads
        BY DEF Entered
      <4>. QED BY <1>1, <3>1, <3>3, <4>1, EnteredStep
    <3>. QED BY <2>1, <3>1, <3>2, <3>4, FS_AddElement
  <2>3. CASE Leave(th, t)
    <3>1. At(th, "leave", t) /\ counter'[t] = counter[t] - 1
      BY <1>1, <2>3 DEF Leave, TypeOK
    <3>2. th \in Entered(t)
      <4>1. path[th] \in Programs /\ pc[th] \in 1..Len(path[th]) /\ path[th][pc[th]] = Do("leave", t)
        <5>1. path[th] # <<>>
          BY <1>1, PathFacts DEF IInv
        <5>. QED BY <1>1, <3>1, <5>1, StepFacts, PathFacts
      <4>2. t \in Reading(th)
        BY <4>1 DEF ReadersMatched, Matched, Reading
      <4>. QED BY <4>2 DEF Entered
    <3>3. ~At(th, "arrive", t)
      BY <3>1, AtMostOneStep
    <3>4. Entered(t)' = Entered(t) \ {th}
      <4>1. Entered(t) \subseteq Threads /\ Entered(t)' \subseteq Threads
        BY DEF Entered
      <4>. QED BY <1>1, <3>1, <3>3, <4>1, EnteredStep
    <3>. QED BY <2>1, <3>1, <3>2, <3>4, FS_RemoveElement
  <2>4. CASE ~Arrive(th, t) /\ ~Leave(th, t)
    <3>1. counter'[t] = counter[t]
      <4>1. CASE Answer(th)
        BY <4>1 DEF Answer, locks
      <4>2. ASSUME NEW u \in Tables, TableStep(th, u) PROVE counter'[t] = counter[t]
        BY <1>1, <2>4, <4>2 DEF TableStep, Arrive, Admit, Leave, Left, WaitWriter,
                                PostWriter, Load, Truncate, Flush, locks, TypeOK
      <4>. QED BY <4>1, <4>2
    <3>2. ~At(th, "arrive", t) /\ ~At(th, "leave", t)
      <4>1. CASE Answer(th)
        BY <4>1 DEF Answer, At, AtStep, Do, Reply
      <4>2. ASSUME NEW u \in Tables, TableStep(th, u)
            PROVE  ~At(th, "arrive", t) /\ ~At(th, "leave", t)
        <5>1. /\ Arrive(th, u) => u # t /\ At(th, "arrive", u)
              /\ Leave(th, u) => u # t /\ At(th, "leave", u)
          BY <2>4 DEF Arrive, Leave
        <5>. QED BY <4>2, <5>1, AtMostOneStep DEF TableStep, Admit, Left, WaitWriter,
                                PostWriter, Load, Truncate, Flush
      <4>. QED BY <4>1, <4>2
    <3>3. Entered(t)' = Entered(t)
      <4>1. Entered(t) \subseteq Threads /\ Entered(t)' \subseteq Threads
        BY DEF Entered
      <4>. QED BY <1>1, <3>2, <4>1, EnteredStep
    <3>. QED BY <2>1, <3>1, <3>3
  <2>. QED BY <2>2, <2>3, <2>4
<1>. QED BY <1>2 DEF CountInv, Entered

LEMMA CountNext == ReadersMatched /\ IInv /\ CountInv /\ [Next]_vars => CountInv'
<1> SUFFICES ASSUME ReadersMatched, IInv, CountInv, [Next]_vars PROVE CountInv'
  OBVIOUS
<1>1. CASE UNCHANGED vars
  <2>1. \A t \in Tables : Entered(t)' = Entered(t)
    BY <1>1 DEF Entered, Reading, Inside, At, AtStep, vars
  <2>. QED BY <1>1, <2>1 DEF CountInv, vars
<1>2. ASSUME NEW th \in Threads, Receive(th) \/ Return(th) PROVE CountInv'
  <2>1. counter' = counter
    BY <1>2 DEF Receive, Return, locks
  <2>. QED BY <1>2, <2>1, EnteredBetween DEF CountInv, IInv
<1>. QED BY <1>1, <1>2, CountStep DEF Next, Run, Quiet

LEMMA CountInit == Init => CountInv
<1> SUFFICES ASSUME Init, NEW t \in Tables PROVE counter[t] = Cardinality(Entered(t))
  BY DEF CountInv
<1>1. ASSUME NEW th \in Threads PROVE t \notin Reading(th) /\ ~At(th, "admit", t)
  <2>1. pc[th] = 1 /\ path[th] = <<>> /\ Len(<<>>) = 0
    BY DEF Init
  <2>. QED BY <2>1 DEF Reading, Inside, Since, At, AtStep
<1>2. Entered(t) = {}
  BY <1>1 DEF Entered
<1>. QED BY <1>2, FS_EmptySet DEF Init

THEOREM CountersCountReaders == ReadersMatched => (Spec => []CountInv)
<1> SUFFICES ASSUME ReadersMatched PROVE Spec => []CountInv
  OBVIOUS
<1>. QED BY CountInit, CountNext, Invariant, PTL DEF Spec

(* A reader that is in makes its group hold wrt.                           *)
LEMMA ReaderHolds ==
    ASSUME IInv, CountInv, ReadersMatched, NEW t \in Tables, NEW th \in Threads, t \in Reading(th)
    PROVE  GroupHolds(t)
<1>1. /\ TypeOK /\ counter[t] = Cardinality(Entered(t)) /\ IsFiniteSet(Entered(t))
      /\ counter[t] \in Nat /\ th \in Entered(t)
  BY EnteredFinite DEF IInv, CountInv, Entered
<1>2. IsFiniteSet(Entered(t) \ {th}) /\ Cardinality(Entered(t) \ {th}) = counter[t] - 1
  BY <1>1, FS_RemoveElement
<1>3. CASE \A o \in Threads : ~At(o, "admit", t)
  <2>1. counter[t] >= 1
    BY <1>1, <1>2, FS_CardinalityType
  <2>. QED BY <1>1, <1>3, <2>1 DEF GroupHolds
<1>4. ASSUME NEW o \in Threads, At(o, "admit", t) PROVE GroupHolds(t)
  <2>1. o # th
    BY <1>1, <1>4, NotInsideAlready
  <2>2. o \in Entered(t) \ {th}
    BY <1>4, <2>1 DEF Entered
  <2>3. Cardinality(Entered(t) \ {th}) # 0
    BY <1>2, <2>2, FS_EmptySet
  <2>4. counter[t] >= 2
    BY <1>1, <1>2, <2>3, FS_CardinalityType
  <2>. QED BY <2>4 DEF GroupHolds
<1>. QED BY <1>3, <1>4

LEMMA ExclusionFollows ==
    ASSUME IInv, CountInv, ReadersMatched PROVE ReadersExcludeWriters
BY ReaderHolds DEF IInv, WriterInv, ReadersExcludeWriters

(* When every branch leaves as a reader what it entered, and no more,      *)
(* nobody writes a table that somebody reads.                              *)
THEOREM ReadersAndWritersApart == ReadersMatched => (Spec => []ReadersExcludeWriters)
<1> SUFFICES ASSUME ReadersMatched PROVE Spec => []ReadersExcludeWriters
  OBVIOUS
<1>. QED BY ExclusionFollows, CountersCountReaders, Invariant, PTL

(* Nor is a file loaded under either lock while a handler has it emptied.  *)
THEOREM LockedLoadsWhole == ReadersMatched => (Spec => []LockedLoadsSeeWholeFiles)
<1> SUFFICES ASSUME ReadersMatched PROVE Spec => []LockedLoadsSeeWholeFiles
  OBVIOUS
<1>1. ASSUME IInv, CountInv PROVE LockedLoadsSeeWholeFiles
  <2> SUFFICES ASSUME NEW th \in Threads, NEW t \in Tables, At(th, "load", t),
                      t \in Reading(th) \cup Writing(th),
                      NEW o \in Threads, At(o, "flush", t)
               PROVE  FALSE
    BY DEF LockedLoadsSeeWholeFiles, Torn
  <2>1. t \in Writing(o)
    BY <1>1, FlushUnderLock DEF IInv
  <2>2. t \in Writing(th)
    BY <1>1, <2>1, ExclusionFollows DEF ReadersExcludeWriters
  <2>3. o = th
    BY <1>1, <2>1, <2>2 DEF IInv, WriterInv
  <2>. QED BY <2>3, AtMostOneStep
<1>. QED BY <1>1, CountersCountReaders, Invariant, PTL

----------------------------------------------------------------------------
(* The protocol implements ReadersWriters *)

ReadersOf(t) == {th \in Threads : t \in Reading(th)}
WritersOf(t) == {th \in Threads : t \in Writing(th)}

LEMMA RWInit == Init => RW!Init
<1> SUFFICES ASSUME Init PROVE RW!Init
  OBVIOUS
<1>1. ASSUME NEW th \in Threads PROVE Reading(th) = {} /\ Writing(th) = {}
  BY HeldFirst DEF Init, Reading, Writing, Inside, Since
<1>. QED BY <1>1 DEF RW!Init

(* Who reads and who writes after th has taken a step of its handler.      *)
LEMMA RWStep ==
    ASSUME IInv, CountInv, ReadersMatched, NEW th \in Threads,
           Answer(th) \/ \E u \in Tables : TableStep(th, u)
    PROVE  [RW!Next]_RW!rwvars
<1>1. TypeOK /\ Advance(th) /\ pc[th] <= Len(path[th])
  BY DEF IInv, Answer, TableStep, Arrive, Admit, Leave, Left, WaitWriter, PostWriter,
         Load, Truncate, Flush, At, AtStep
<1>2. ASSUME NEW t \in Tables
      PROVE  /\ ReadersOf(t)' = IF At(th, "admit", t) THEN ReadersOf(t) \cup {th}
                                ELSE IF At(th, "leave", t) THEN ReadersOf(t) \ {th}
                                ELSE ReadersOf(t)
             /\ WritersOf(t)' = IF At(th, "wait", t) THEN WritersOf(t) \cup {th}
                                ELSE IF At(th, "post", t) THEN WritersOf(t) \ {th}
                                ELSE WritersOf(t)
  <2>1. \A o \in Threads :
          /\ (t \in Reading(o))' <=>
               IF o = th THEN At(th, "admit", t) \/ (t \in Reading(th) /\ ~At(th, "leave", t))
               ELSE t \in Reading(o)
          /\ (t \in Writing(o))' <=>
               IF o = th THEN At(th, "wait", t) \/ (t \in Writing(th) /\ ~At(th, "post", t))
               ELSE t \in Writing(o)
    BY <1>1, EnteredStep, StepEffect
  <2>2. ~(At(th, "admit", t) /\ At(th, "leave", t)) /\ ~(At(th, "wait", t) /\ At(th, "post", t))
    BY AtMostOneStep
  <2>. QED BY <2>1, <2>2 DEF ReadersOf, WritersOf
<1> DEFINE R == [t \in Tables |-> ReadersOf(t)]
           W == [t \in Tables |-> WritersOf(t)]
<1>3. ASSUME NEW u \in Tables, Admit(th, u) PROVE RW!BeginRead(th, u)
  <2>1. At(th, "admit", u)
    BY <1>3 DEF Admit
  <2>2. \A t \in Tables : /\ t # u => ~At(th, "admit", t)
                          /\ ~At(th, "leave", t) /\ ~At(th, "wait", t) /\ ~At(th, "post", t)
    BY <2>1, AtMostOneStep
  <2>3. R' = [R EXCEPT ![u] = @ \cup {th}] /\ W' = W
    BY <1>2, <2>1, <2>2
  <2>4. WritersOf(u) = {}
    <3>1. counter[u] >= 1
      <4>1. th \in Entered(u) /\ counter[u] = Cardinality(Entered(u)) /\ IsFiniteSet(Entered(u))
        BY <2>1, EnteredFinite DEF Entered, CountInv
      <4>2. Cardinality(Entered(u)) # 0 /\ Cardinality(Entered(u)) \in Nat
        BY <4>1, FS_EmptySet, EnteredFinite
      <4>. QED BY <4>1, <4>2
    <3>2. GroupHolds(u) \/ wrt[u] = 1
      <4>1. WriterInv(u) /\ counter[u] \in Int
        BY <1>1 DEF IInv, TypeOK
      <4>. QED BY <1>3, <3>1, <4>1 DEF Admit, GroupHolds, WriterInv
    <3>. QED BY <3>2 DEF IInv, WriterInv, WritersOf
  <2>. QED BY <2>3, <2>4 DEF RW!BeginRead, ReadersOf, WritersOf
<1>4. ASSUME NEW u \in Tables, Leave(th, u) PROVE RW!EndRead(th, u)
  <2>1. At(th, "leave", u)
    BY <1>4 DEF Leave
  <2>2. \A t \in Tables : /\ t # u => ~At(th, "leave", t)
                          /\ ~At(th, "admit", t) /\ ~At(th, "wait", t) /\ ~At(th, "post", t)
    BY <2>1, AtMostOneStep
  <2>3. R' = [R EXCEPT ![u] = @ \ {th}] /\ W' = W
    BY <1>2, <2>1, <2>2
  <2>4. th \in ReadersOf(u)
    <3>1. path[th] # <<>>
      BY <1>1, PathFacts
    <3>2. path[th] \in Programs /\ pc[th] \in 1..Len(path[th]) /\ path[th][pc[th]] = Do("leave", u)
      BY <1>1, <2>1, <3>1, StepFacts, PathFacts
    <3>. QED BY <3>2 DEF ReadersMatched, Matched, Reading, ReadersOf
  <2>. QED BY <2>3, <2>4 DEF RW!EndRead, ReadersOf, WritersOf
<1>5. ASSUME NEW u \in Tables, WaitWriter(th, u) PROVE RW!BeginWrite(th, u)
  <2>1. At(th, "wait", u)
    BY <1>5 DEF WaitWriter
  <2>2. \A t \in Tables : /\ t # u => ~At(th, "wait", t)
                          /\ ~At(th, "admit", t) /\ ~At(th, "leave", t) /\ ~At(th, "post", t)
    BY <2>1, AtMostOneStep
  <2>3. wrt[u] = 1
    BY <1>5 DEF WaitWriter, IInv, TypeOK, WriterInv
  <2>4. ReadersOf(u) = {} /\ WritersOf(u) = {}
    BY <2>3, ReaderHolds DEF IInv, WriterInv, ReadersOf, WritersOf
  <2>5. R' = R /\ W' = [W EXCEPT ![u] = {th}]
    BY <1>2, <2>1, <2>2, <2>4
  <2>. QED BY <2>4, <2>5 DEF RW!BeginWrite, ReadersOf, WritersOf
<1>6. ASSUME NEW u \in Tables, PostWriter(th, u) PROVE RW!EndWrite(th, u)
  <2>1. At(th, "post", u)
    BY <1>6 DEF PostWriter
  <2>2. \A t \in Tables : /\ t # u => ~At(th, "post", t)
                          /\ ~At(th, "admit", t) /\ ~At(th, "leave", t) /\ ~At(th, "wait", t)
    BY <2>1, AtMostOneStep
  <2>3. u \in Writing(th)
    BY <1>1, <2>1, StepFacts DEF WellFormed, Writing
  <2>4. WritersOf(u) = {th}
    BY <2>3 DEF IInv, WriterInv, WritersOf
  <2>5. R' = R /\ W' = [W EXCEPT ![u] = {}]
    BY <1>2, <2>1, <2>2, <2>4
  <2>. QED BY <2>4, <2>5 DEF RW!EndWrite, ReadersOf, WritersOf
<1>7. ASSUME \A u \in Tables : ~At(th, "admit", u) /\ ~At(th, "leave", u)
                              /\ ~At(th, "wait", u) /\ ~At(th, "post", u)
      PROVE  UNCHANGED RW!rwvars
  <2>1. R' = R /\ W' = W
    BY <1>2, <1>7
  <2>. QED BY <2>1 DEF RW!rwvars, ReadersOf, WritersOf
<1>8. CASE Answer(th)
  BY <1>7, <1>8 DEF Answer, At, AtStep, Do, Reply
<1>9. ASSUME NEW u \in Tables, TableStep(th, u) PROVE [RW!Next]_RW!rwvars
  <2>1. CASE Admit(th, u) \/ Leave(th, u) \/ WaitWriter(th, u) \/ PostWriter(th, u)
    BY <1>3, <1>4, <1>5, <1>6, <2>1 DEF RW!Next
  <2>2. CASE Arrive(th, u) \/ Left(th, u) \/ Load(th, u) \/ Truncate(th, u) \/ Flush(th, u)
    BY <1>7, <2>2, AtMostOneStep DEF Arrive, Left, Load, Truncate, Flush
  <2>. QED BY <1>9, <2>1, <2>2 DEF TableStep
<1>. QED BY <1>8, <1>9

LEMMA RWNext ==
    ReadersMatched /\ IInv /\ CountInv /\ [Next]_vars => [RW!Next]_RW!rwvars
<1> SUFFICES ASSUME ReadersMatched, IInv, CountInv, [Next]_vars PROVE [RW!Next]_RW!rwvars
  OBVIOUS
<1>1. CASE UNCHANGED vars
  BY <1>1 DEF RW!rwvars, Reading, Writing, Inside, Held, Since, vars
<1>2. ASSUME NEW th \in Threads, Receive(th) \/ Return(th) PROVE UNCHANGED RW!rwvars
  <2>1. \A t \in Tables, o \in Threads :
          ((t \in Reading(o))' <=> t \in Reading(o)) /\ ((t \in Writing(o))' <=> t \in Writing(o))
    BY <1>2, EnteredBetween, BetweenCommands DEF IInv
  <2>. QED BY <2>1 DEF RW!rwvars
<1>. QED BY <1>1, <1>2, RWStep DEF Next, Run, Quiet

(* Two semaphores and a counter per table are a readers-writers lock for   *)
(* handlers whose readers leave what they entered.                         *)
THEOREM LocksImplementReadersWriters == ReadersMatched => (Spec => ImplementsReadersWriters)
<1> SUFFICES ASSUME ReadersMatched PROVE Spec => RW!Spec
  BY DEF ImplementsReadersWriters
<1>. QED BY RWInit, RWNext, CountersCountReaders, Invariant, PTL DEF Spec, RW!Spec

----------------------------------------------------------------------------
(* Deadlock.  The resource lock order of misc/databaseActions.txt prevents *)
(* it: handlers that take their locks in rank order, and whose readers     *)
(* leave what they entered, never all wait for each other.                 *)
(*                                                                         *)
(* If every thread that serves a command is blocked, some wrt semaphore is *)
(* 0.  Take one of a table of the highest rank.  A thread reads or writes  *)
(* that table, is itself blocked, and what it waits for in the end is a    *)
(* wrt of a higher rank: a contradiction.                                  *)

AllBlocked == \A th \in Threads : ~Idle(th) => Blocked(th)

(* A thread that holds the mutex of a table is waiting for its wrt.        *)
LEMMA MutexHolderWaits ==
    ASSUME IInv, AllBlocked, NEW t \in Tables, mutex[t] = 0
    PROVE  \E q \in Threads : At(q, "admit", t) /\ counter[t] = 1 /\ wrt[t] = 0
<1>1. PICK q \in Threads : InMutex(q, t)
  BY DEF IInv, MutexInv
<1>2. Blocked(q)
  BY <1>1, PathFacts DEF AllBlocked, Idle, InMutex, At, AtStep, IInv
<1>3. PICK u \in Tables :
        \/ (At(q, "arrive", u) \/ At(q, "leave", u)) /\ mutex[u] = 0
        \/ At(q, "admit", u) /\ counter[u] = 1 /\ wrt[u] = 0
        \/ At(q, "wait", u) /\ wrt[u] = 0
  BY <1>2 DEF Blocked
<1>4. At(q, "admit", t) /\ u = t
  BY <1>1, <1>3, AtMostOneStep DEF InMutex
<1>. QED BY <1>3, <1>4, AtMostOneStep

(* If wrt of a table is 0, a thread reads or writes the table.             *)
LEMMA SomeoneHolds ==
    ASSUME IInv, CountInv, ReadersMatched, AllBlocked, NEW t \in Tables, wrt[t] = 0
    PROVE  \E o \in Threads : t \in Writing(o) \cup Reading(o)
<1>1. GroupHolds(t) \/ \E o \in Threads : t \in Writing(o)
  BY DEF IInv, WriterInv
<1>2. ASSUME GroupHolds(t) PROVE \E o \in Threads : t \in Reading(o)
  <2>1. /\ counter[t] = Cardinality(Entered(t)) /\ IsFiniteSet(Entered(t)) /\ counter[t] \in Nat
    BY EnteredFinite DEF CountInv
  <2>2. CASE \A o \in Threads : ~At(o, "admit", t)
    <3>1. CASE counter[t] >= 1
      <4>1. Entered(t) # {}
        BY <2>1, <3>1, FS_EmptySet
      <4>. QED BY <2>2, <4>1 DEF Entered
    <3>2. CASE counter[t] = 0
      <4>1. PICK o \in Threads : At(o, "left", t)
        BY <1>2, <2>1, <3>2 DEF GroupHolds
      <4>2. Blocked(o)
        BY <4>1, PathFacts DEF AllBlocked, Idle, At, AtStep, IInv
      <4>3. PICK u \in Tables :
              At(o, "arrive", u) \/ At(o, "leave", u) \/ At(o, "admit", u) \/ At(o, "wait", u)
        BY <4>2 DEF Blocked
      <4>. QED BY <4>1, <4>3, AtMostOneStep
    <3>. QED BY <2>1, <3>1, <3>2
  <2>3. ASSUME NEW q \in Threads, At(q, "admit", t) PROVE \E o \in Threads : t \in Reading(o)
    <3>1. \A o \in Threads : At(o, "left", t) \/ At(o, "admit", t) => o = q
      BY <2>3 DEF IInv, MutexInv, InMutex
    <3>2. ~At(q, "left", t)
      BY <2>3, AtMostOneStep
    <3>3. counter[t] >= 2
      BY <1>2, <2>1, <2>3, <3>1, <3>2 DEF GroupHolds
    <3>4. q \in Entered(t)
      BY <2>3 DEF Entered
    <3>5. IsFiniteSet(Entered(t) \ {q}) /\ Cardinality(Entered(t) \ {q}) = counter[t] - 1
      BY <2>1, <3>4, FS_RemoveElement
    <3>6. Entered(t) \ {q} # {}
      BY <2>1, <3>3, <3>5, FS_EmptySet
    <3>. QED BY <3>1, <3>6 DEF Entered
  <2>. QED BY <2>2, <2>3
<1>. QED BY <1>1, <1>2

(* A blocked thread waits, itself or through the holder of a mutex, for    *)
(* the wrt of a table ranked above all it reads and writes.                *)
LEMMA BlockedWaitsAbove ==
    ASSUME IInv, CountInv, ReadersMatched, AllBlocked, NEW o \in Threads, ~Idle(o)
    PROVE  \E v \in Tables :
             wrt[v] = 0 /\ \A t \in Writing(o) \cup Reading(o) : Rank[t] < Rank[v]
<1> DEFINE p == path[o]
           i == pc[o]
<1>1. TypeOK /\ Blocked(o)
  BY DEF AllBlocked, IInv
<1>2. PICK v \in Tables :
        \/ (At(o, "arrive", v) \/ At(o, "leave", v)) /\ mutex[v] = 0
        \/ At(o, "admit", v) /\ counter[v] = 1 /\ wrt[v] = 0
        \/ At(o, "wait", v) /\ wrt[v] = 0
  BY <1>1 DEF Blocked
<1>3. ASSUME NEW j \in 1..Len(p), WellFormed(p), p[j] \in {Do("wait", v), Do("arrive", v)}
      PROVE  \A t \in Held(p, j) \cup Inside(p, j) : Rank[t] < Rank[v]
  BY <1>3 DEF WellFormed
<1>4. CASE At(o, "wait", v) /\ wrt[v] = 0
  BY <1>1, <1>3, <1>4, StepFacts DEF Writing, Reading
<1>5. CASE At(o, "arrive", v) /\ mutex[v] = 0
  <2>1. wrt[v] = 0
    BY <1>5, MutexHolderWaits
  <2>. QED BY <1>1, <1>3, <1>5, <2>1, StepFacts DEF Writing, Reading
<1>6. CASE At(o, "admit", v) /\ wrt[v] = 0
  <2>1. WellFormed(p) /\ Len(p) \in Nat /\ i \in 1..Len(p) /\ p[i] = Do("admit", v)
    BY <1>1, <1>6, StepFacts
  <2>2. i > 1 /\ p[i-1] = Do("arrive", v)
    BY <2>1 DEF WellFormed, Paired
  <2>3. i-1 \in 1..Len(p) /\ i-1 \in Nat /\ i-1 >= 1 /\ (i-1)+1 = i
    BY <2>1, <2>2
  <2>4. ASSUME NEW t \in Writing(o) \cup Reading(o) PROVE t \in Held(p, i-1) \cup Inside(p, i-1)
    <3>1. Do("arrive", v) # Do("wait", t) /\ Do("arrive", v) # Do("admit", t)
      BY DEF Do
    <3>2. t \in Tables /\ t \in Held(p, (i-1)+1) \cup Inside(p, (i-1)+1)
      BY <2>3 DEF Writing, Reading, Held, Inside
    <3>. QED BY <2>2, <2>3, <3>1, <3>2, HeldStep, InsideStep
  <2>. QED BY <1>3, <1>6, <2>1, <2>2, <2>3, <2>4
<1>7. CASE At(o, "leave", v) /\ mutex[v] = 0
  <2>1. PICK q \in Threads : At(q, "admit", v) /\ counter[v] = 1
    BY <1>7, MutexHolderWaits
  <2>2. v \in Reading(o)
    <3>1. p \in Programs /\ i \in 1..Len(p) /\ p[i] = Do("leave", v)
      BY <1>1, <1>7, StepFacts, PathFacts DEF Idle
    <3>. QED BY <3>1 DEF ReadersMatched, Matched, Reading
  <2>3. ~At(o, "admit", v)
    BY <1>7, AtMostOneStep
  <2>4. o \in Entered(v) /\ q \in Entered(v) /\ o # q
    BY <2>1, <2>2, <2>3 DEF Entered
  <2>5. IsFiniteSet(Entered(v) \ {o}) /\ Cardinality(Entered(v) \ {o}) = counter[v] - 1
    BY <2>4, EnteredFinite, FS_RemoveElement DEF CountInv
  <2>6. Entered(v) \ {o} = {}
    BY <2>1, <2>5, FS_EmptySet
  <2>. QED BY <2>4, <2>6
<1>. QED BY <1>2, <1>4, <1>5, <1>6, <1>7

(* A non-empty set of tables has one of the highest rank.                  *)
LEMMA HighestRank ==
    ASSUME NEW S \in SUBSET Tables, S # {}
    PROVE  \E m \in S : \A v \in S : Rank[v] <= Rank[m]
<1>1. \A v \in S : Rank[v] \in 1..5
  BY RankAssumption
<1>2. CASE \E m \in S : Rank[m] = 5
  BY <1>1, <1>2
<1>3. CASE (\E m \in S : Rank[m] = 4) /\ \A v \in S : Rank[v] <= 4
  BY <1>1, <1>3
<1>4. CASE (\E m \in S : Rank[m] = 3) /\ \A v \in S : Rank[v] <= 3
  BY <1>1, <1>4
<1>5. CASE (\E m \in S : Rank[m] = 2) /\ \A v \in S : Rank[v] <= 2
  BY <1>1, <1>5
<1>6. CASE \A v \in S : Rank[v] <= 1
  BY <1>1, <1>6
<1>. QED BY <1>1, <1>2, <1>3, <1>4, <1>5, <1>6

LEMMA ProgressFollows ==
    ASSUME IInv, CountInv, ReadersMatched PROVE SomeoneProceeds
<1> SUFFICES ASSUME NEW th \in Threads, ~Idle(th), AllBlocked PROVE FALSE
  BY DEF SomeoneProceeds, AllBlocked
<1> DEFINE S == {v \in Tables : wrt[v] = 0}
<1>1. S # {}
  BY BlockedWaitsAbove
<1>2. PICK m \in S : \A v \in S : Rank[v] <= Rank[m]
  BY <1>1, HighestRank
<1>3. PICK o \in Threads : m \in Writing(o) \cup Reading(o)
  BY SomeoneHolds
<1>4. ~Idle(o)
  <2>1. ASSUME Idle(o) PROVE pc[o] = 1
    BY <2>1, PathFacts DEF IInv, Idle
  <2>. QED BY <1>3, <2>1, HeldFirst DEF Writing, Reading, Inside, Since
<1>5. PICK v \in Tables : wrt[v] = 0 /\ Rank[m] < Rank[v]
  BY <1>3, <1>4, BlockedWaitsAbove
<1>. QED BY <1>2, <1>5, RankAssumption

(* The threads that serve commands never all wait for each other.          *)
THEOREM NoDeadlock == ReadersMatched => (Spec => []SomeoneProceeds)
<1> SUFFICES ASSUME ReadersMatched PROVE Spec => []SomeoneProceeds
  OBVIOUS
<1>. QED BY ProgressFollows, CountersCountReaders, Invariant, PTL
=============================================================================
