-------------------------- MODULE SchedulerProofs --------------------------
(***************************************************************************)
(* The invariants of the scheduler hold for every set of threads and of    *)
(* clients, every set of calls they make and every number of handlers.     *)
(*                                                                         *)
(* None of them is inductive.  SchedulerInv says where every operation is: *)
(* a handler in one list, or with the reactor, or executed, or about to be *)
(* pushed; the task in the shared queue, behind what it has found, or run  *)
(* by one thread.  From that and from what threads count in private it     *)
(* follows that the count of work, which work_cleanup lowers, is not zero  *)
(* yet (WorkLeft), and that every step keeps its balance.  A wake-up is    *)
(* not lost because the thread in the reactor is interrupted whenever      *)
(* task_interrupted_ is set (Interruptible).                               *)
(***************************************************************************)
EXTENDS Scheduler, SequenceTheorems, FiniteSetTheorems, TLAPS

\* A list has an element, and has it not more than once.
In(q, x) == \E i \in DOMAIN q : q[i] = x
Once(q, x) == \A i, j \in DOMAIN q : q[i] = x /\ q[j] = x => i = j

-----------------------------------------------------------------------------
(* Lists of operations *)

\* The elements of two lists put together.
LEMMA InConcat ==
  ASSUME NEW S, NEW q \in Seq(S), NEW r \in Seq(S), NEW x
  PROVE  /\ In(q \o r, x) <=> In(q, x) \/ In(r, x)
         /\ Once(q \o r, x) <=> Once(q, x) /\ Once(r, x) /\ ~(In(q, x) /\ In(r, x))
<1> DEFINE s == q \o r
<1>1. /\ Len(q) \in Nat /\ Len(r) \in Nat
      /\ DOMAIN q = 1 .. Len(q) /\ DOMAIN r = 1 .. Len(r) /\ DOMAIN s = 1 .. Len(q) + Len(r)
      /\ \A i \in 1 .. Len(q) : s[i] = q[i]
      /\ \A i \in 1 .. Len(r) : s[Len(q) + i] = r[i]
  BY ConcatProperties
<1> HIDE DEF s
<1>2. \A i \in DOMAIN s : i \in DOMAIN q \/ (i - Len(q) \in DOMAIN r /\ s[i] = r[i - Len(q)])
  BY <1>1
<1>3. In(s, x) <=> In(q, x) \/ In(r, x)
  <2>1. ASSUME In(s, x) PROVE In(q, x) \/ In(r, x)
    BY <1>1, <1>2, <2>1 DEF In
  <2>2. ASSUME In(q, x) PROVE In(s, x)
    BY <1>1, <2>2 DEF In
  <2>3. ASSUME In(r, x) PROVE In(s, x)
    <3>1. PICK i \in 1 .. Len(r) : r[i] = x
      BY <1>1, <2>3 DEF In
    <3>2. Len(q) + i \in DOMAIN s /\ s[Len(q) + i] = x
      BY <1>1, <3>1
    <3> QED
      BY <3>2 DEF In
  <2> QED
    BY <2>1, <2>2, <2>3
<1>4. ASSUME Once(s, x) PROVE Once(q, x) /\ Once(r, x) /\ ~(In(q, x) /\ In(r, x))
  <2>1. Once(q, x)
    BY <1>1, <1>4 DEF Once
  <2>2. Once(r, x)
    <3> SUFFICES ASSUME NEW i \in 1 .. Len(r), NEW j \in 1 .. Len(r), r[i] = x, r[j] = x
                 PROVE  i = j
      BY <1>1 DEF Once
    <3>1. s[Len(q) + i] = x /\ s[Len(q) + j] = x /\ Len(q) + i \in DOMAIN s /\ Len(q) + j \in DOMAIN s
      BY <1>1
    <3>2. Len(q) + i = Len(q) + j
      BY <1>4, <3>1 DEF Once
    <3> QED
      BY <1>1, <3>2
  <2>3. ASSUME NEW i \in 1 .. Len(q), NEW j \in 1 .. Len(r), q[i] = x, r[j] = x PROVE FALSE
    <3>1. s[i] = x /\ s[Len(q) + j] = x /\ i \in DOMAIN s /\ Len(q) + j \in DOMAIN s
      BY <1>1, <2>3
    <3>2. i = Len(q) + j
      BY <1>4, <3>1 DEF Once
    <3> QED
      BY <1>1, <3>2
  <2> QED
    BY <1>1, <2>1, <2>2, <2>3 DEF In
<1>5. ASSUME Once(q, x), Once(r, x), ~(In(q, x) /\ In(r, x)) PROVE Once(s, x)
  <2> SUFFICES ASSUME NEW i \in DOMAIN s, NEW j \in DOMAIN s, s[i] = x, s[j] = x
               PROVE  i = j
    BY DEF Once
  <2>1. i \in DOMAIN q \/ (i - Len(q) \in DOMAIN r /\ s[i] = r[i - Len(q)])
    BY <1>2
  <2>2. j \in DOMAIN q \/ (j - Len(q) \in DOMAIN r /\ s[j] = r[j - Len(q)])
    BY <1>2
  <2>3. i \in DOMAIN q => s[i] = q[i]
    BY <1>1
  <2>4. j \in DOMAIN q => s[j] = q[j]
    BY <1>1
  <2>5. i - Len(q) = j - Len(q) => i = j
    BY <1>1
  <2> QED
    BY <1>5, <2>1, <2>2, <2>3, <2>4, <2>5 DEF Once, In
<1> QED
  BY <1>3, <1>4, <1>5 DEF s

\* The elements of short lists.
LEMMA InShort ==
  ASSUME NEW x, NEW y
  PROVE  /\ ~In(<<>>, x) /\ Once(<<>>, x)
         /\ In(<<y>>, x) <=> x = y
         /\ Once(<<y>>, x)
BY DEF In, Once

\* One element is put at the end.
LEMMA InAppend ==
  ASSUME NEW S, NEW q \in Seq(S), NEW y \in S, NEW x
  PROVE  /\ In(Append(q, y), x) <=> In(q, x) \/ x = y
         /\ Once(Append(q, y), x) <=> Once(q, x) /\ ~(In(q, x) /\ x = y)
<1> DEFINE e == <<y>>
<1>1. Append(q, y) = q \o e /\ e \in Seq(S)
  BY AppendIsConcat
<1>2. (In(e, x) <=> x = y) /\ Once(e, x)
  BY InShort
<1> HIDE DEF e
<1>3. /\ In(q \o e, x) <=> In(q, x) \/ In(e, x)
      /\ Once(q \o e, x) <=> Once(q, x) /\ Once(e, x) /\ ~(In(q, x) /\ In(e, x))
  BY <1>1, InConcat
<1> QED
  BY <1>1, <1>2, <1>3

\* The first element is taken off.
LEMMA InTail ==
  ASSUME NEW S, NEW q \in Seq(S), q # <<>>
  PROVE  /\ Head(q) \in S /\ Tail(q) \in Seq(S)
         /\ In(q, Head(q))
         /\ \A x : In(q, x) <=> In(Tail(q), x) \/ x = Head(q)
         /\ \A x : Once(q, x) => Once(Tail(q), x) /\ ~(In(Tail(q), x) /\ x = Head(q))
<1>1. Head(q) \in S /\ Tail(q) \in Seq(S) /\ <<Head(q)>> \in Seq(S)
  BY HeadTailProperties
<1>2. q = <<Head(q)>> \o Tail(q)
  <2>1. /\ Len(Tail(q)) = Len(q) - 1
        /\ \A i \in 1 .. Len(Tail(q)) : Tail(q)[i] = q[i + 1]
    BY HeadTailProperties
  <2>2. Len(q) \in Nat \ {0}
    BY EmptySeq
  <2>3. /\ <<Head(q)>> \o Tail(q) \in Seq(S)
        /\ Len(<<Head(q)>> \o Tail(q)) = Len(q)
        /\ \A i \in 1 .. Len(q) : (<<Head(q)>> \o Tail(q))[i] = q[i]
    BY <1>1, <2>1, <2>2
  <2> QED
    BY <2>3, SeqEqual
<1> DEFINE e == <<Head(q)>>
           r == Tail(q)
<1>3. ASSUME NEW x
      PROVE  /\ In(q, x) <=> In(r, x) \/ x = Head(q)
             /\ Once(q, x) => Once(r, x) /\ ~(In(r, x) /\ x = Head(q))
  <2>1. q = e \o r /\ e \in Seq(S) /\ r \in Seq(S)
    BY <1>1, <1>2
  <2>2. In(e, x) <=> x = Head(q)
    BY InShort
  <2> HIDE DEF e, r
  <2>3. /\ In(e \o r, x) <=> In(e, x) \/ In(r, x)
        /\ Once(e \o r, x) <=> Once(e, x) /\ Once(r, x) /\ ~(In(e, x) /\ In(r, x))
    BY <2>1, InConcat
  <2> QED
    BY <2>1, <2>2, <2>3
<1> QED
  BY <1>1, <1>3

\* A set as a list.
LEMMA InSetToSeq ==
  ASSUME NEW S, IsFiniteSet(S)
  PROVE  /\ SetToSeq(S) \in Seq(S)
         /\ \A x : (In(SetToSeq(S), x) <=> x \in S) /\ Once(SetToSeq(S), x)
<1> DEFINE n == Cardinality(S)
<1>1. n \in Nat /\ \E f : f \in [1 .. n -> S] /\ IsInjective(f)
  <2>1. n \in Nat /\ ExistsBijection(1 .. n, S)
    BY FS_CardinalityType
  <2> QED
    BY <2>1 DEF ExistsBijection, Bijection, Injection, IsInjective
<1>2. SetToSeq(S) \in [1 .. n -> S] /\ IsInjective(SetToSeq(S))
  BY <1>1 DEF SetToSeq
<1>3. SetToSeq(S) \in Seq(S)
  BY <1>1, <1>2
<1>4. SetToSeq(S) \in Surjection(1 .. n, S)
  <2>1. SetToSeq(S) \in Injection(1 .. n, S)
    BY <1>2 DEF Injection, IsInjective
  <2>2. IsFiniteSet(1 .. n) /\ Cardinality(1 .. n) = n
    BY <1>1, FS_Interval
  <2> QED
    BY <2>1, <2>2, FS_Injection
<1> QED
  BY <1>2, <1>3, <1>4 DEF In, Once, IsInjective, Surjection

\* Every descriptor_state is in front of the task.
Before(q) == \A i, j \in DOMAIN q : q[i] = Task /\ q[j] = Descriptor => j < i

\* Two lists put together, and the rest of one.
LEMMA BeforeConcat ==
  ASSUME NEW S, NEW q \in Seq(S), NEW r \in Seq(S),
         Before(q), Before(r), ~(In(q, Task) /\ In(r, Descriptor))
  PROVE  Before(q \o r)
<1> DEFINE s == q \o r
<1>1. /\ Len(q) \in Nat /\ Len(r) \in Nat
      /\ DOMAIN q = 1 .. Len(q) /\ DOMAIN r = 1 .. Len(r) /\ DOMAIN s = 1 .. Len(q) + Len(r)
      /\ \A i \in 1 .. Len(q) : s[i] = q[i]
      /\ \A i \in 1 .. Len(r) : s[Len(q) + i] = r[i]
  BY ConcatProperties
<1> HIDE DEF s
<1> SUFFICES ASSUME NEW i \in DOMAIN s, NEW j \in DOMAIN s, s[i] = Task, s[j] = Descriptor
             PROVE  j < i
  BY DEF Before, s
<1>2. ASSUME NEW k \in DOMAIN s, k \notin DOMAIN q
      PROVE  k > Len(q) /\ k - Len(q) \in DOMAIN r /\ s[k] = r[k - Len(q)]
  <2>1. k > Len(q) /\ k - Len(q) \in 1 .. Len(r) /\ Len(q) + (k - Len(q)) = k
    BY <1>1, <1>2
  <2> QED
    BY <1>1, <2>1
<1>3. CASE i \in DOMAIN q /\ j \in DOMAIN q
  BY <1>1, <1>3 DEF Before
<1>4. CASE i \in DOMAIN q /\ j \notin DOMAIN q
  BY <1>1, <1>2, <1>4 DEF In
<1>5. CASE i \notin DOMAIN q /\ j \in DOMAIN q
  BY <1>1, <1>5
<1>6. CASE i \notin DOMAIN q /\ j \notin DOMAIN q
  <2>1. j - Len(q) < i - Len(q)
    BY <1>2, <1>6 DEF Before
  <2> QED
    BY <1>1, <2>1
<1> QED
  BY <1>3, <1>4, <1>5, <1>6

\* Taking the first operation off leaves the order as it is; if that was the
\* task, no descriptor_state is left.
LEMMA BeforeTail ==
  ASSUME NEW S, NEW q \in Seq(S), q # <<>>, Before(q)
  PROVE  /\ Before(Tail(q))
         /\ Head(q) = Task => ~In(Tail(q), Descriptor)
<1>1. /\ Len(q) \in Nat \ {0}
      /\ DOMAIN q = 1 .. Len(q) /\ DOMAIN Tail(q) = 1 .. Len(q) - 1
      /\ \A i \in 1 .. Len(q) - 1 : Tail(q)[i] = q[i + 1]
      /\ Head(q) = q[1]
  BY HeadTailProperties, EmptySeq
<1>2. Before(Tail(q))
  <2> SUFFICES ASSUME NEW i \in 1 .. Len(q) - 1, NEW j \in 1 .. Len(q) - 1,
                      Tail(q)[i] = Task, Tail(q)[j] = Descriptor
               PROVE  j < i
    BY <1>1 DEF Before
  <2>1. q[i + 1] = Task /\ q[j + 1] = Descriptor /\ i + 1 \in DOMAIN q /\ j + 1 \in DOMAIN q
    BY <1>1
  <2>2. j + 1 < i + 1
    BY <2>1 DEF Before
  <2> QED
    BY <2>2
<1>3. ASSUME Head(q) = Task, NEW j \in 1 .. Len(q) - 1, Tail(q)[j] = Descriptor
      PROVE  FALSE
  <2>1. q[1] = Task /\ q[j + 1] = Descriptor /\ 1 \in DOMAIN q /\ j + 1 \in DOMAIN q
    BY <1>1, <1>3
  <2>2. j + 1 < 1
    BY <2>1 DEF Before
  <2> QED
    BY <2>2
<1> QED
  BY <1>1, <1>2, <1>3 DEF In

-----------------------------------------------------------------------------
(* The invariant *)

\* Where a thread runs the task, and where it executes an operation.
Reacting == {"task", "reap"}
Working == {"op", "push", "clean"}

\* Where threads are, and what goes with it.
Control ==
  /\ \A t \in Threads :
       /\ cur[t] # NoOp <=> pc[t] \in Working
       /\ cur[t] = Descriptor => pc[t] # "push"
  /\ \A a \in Actors : pushing[a] # NoOp <=> pc[a] = "push"
  /\ \A a \in Clients : pc[a] \in {"out", "push", "stop"}
  /\ shutdown => \A a \in Actors : pc[a] = "out" /\ a \notin signalling
  /\ asleep \subseteq Waiters

\* What a thread counts in private is in its private queue.
PrivateCount ==
  \A t \in Threads :
    /\ privateWork[t] # 0 => pc[t] \in Working
    /\ privateWork[t] <= handlers
    /\ privateWork[t] <= Len(private[t])

\* An operation is in one list, once.
ListedOnce ==
  \A op \in Handlers \cup {Descriptor} :
    /\ Once(queue, op)
    /\ \A t \in Threads : /\ Once(private[t], op)
                          /\ ~(In(queue, op) /\ In(private[t], op))
    /\ \A t, u \in Threads : In(private[t], op) /\ In(private[u], op) => t = u

\* The places a handler may be in.
Listed(h) == In(queue, h) \/ \E t \in Threads : In(private[t], h)
Executed(h) == \E t \in Threads : cur[t] = h
BeingPushed(h) == \E a \in Actors : pushing[a] = h

\* A handler is in one place, and comes into being once.
InOnePlace(h) ==
  /\ ~(Listed(h) /\ Executed(h)) /\ ~(Listed(h) /\ BeingPushed(h)) /\ ~(Listed(h) /\ h \in io)
  /\ ~(Executed(h) /\ BeingPushed(h)) /\ ~(Executed(h) /\ h \in io) /\ ~(BeingPushed(h) /\ h \in io)
  /\ \A t, u \in Threads : cur[t] = h /\ cur[u] = h => t = u
  /\ \A a, b \in Actors : pushing[a] = h /\ pushing[b] = h => a = b
  /\ h > handlers => ~Listed(h) /\ ~Executed(h) /\ ~BeingPushed(h) /\ h \notin io

\* So it is with all handlers.
HandlerOnce == \A h \in Handlers : InOnePlace(h)

\* The task is queued or run by one thread, and what it found is in front of it.
TaskOnce ==
  /\ Once(queue, Task)
  /\ \A t \in Threads : ~In(private[t], Task)
  /\ \A t \in Threads : In(private[t], Descriptor) => pc[t] = "reap"
  /\ \A t, u \in Threads : pc[t] \in Reacting /\ pc[u] \in Reacting => t = u
  /\ \A t \in Threads : pc[t] \in Reacting =>
       hasTask /\ ~In(queue, Task) /\ ~In(queue, Descriptor)
  /\ In(queue, Task) => hasTask
  /\ hasTask => In(queue, Task) \/ \E t \in Threads : pc[t] \in Reacting
  /\ Before(queue)

\* A thread that blocks in the reactor will hear of the next interruption.
Interruptible ==
  \A t \in Threads : pc[t] = "task" /\ block[t] /\ taskInterrupted => interrupt

\* The inductive invariant.
SchedulerInv ==
  /\ TypeOK /\ Control /\ PrivateCount /\ ListedOnce /\ HandlerOnce /\ TaskOnce
  /\ Interruptible /\ WorkCounted /\ NoLostWakeup

-----------------------------------------------------------------------------
(* What steps do to the lists *)

\* What the lists hold.
LEMMA Lists ==
  ASSUME TypeOK
  PROVE  /\ queue \in Seq(Ops)
         /\ \A t \in Threads : private[t] \in Seq(Ops) /\ t \in Actors
         /\ Threads \subseteq Actors /\ Clients \subseteq Actors
         /\ Task \in Ops /\ Descriptor \in Ops /\ Handlers \subseteq Ops
         /\ Task \notin Handlers /\ Descriptor \notin Handlers /\ Task # Descriptor
         /\ NoOp \notin Ops
BY SchedulerAssumption DEF TypeOK, Actors, Ops, Task, Descriptor, Handlers

\* What epoll_wait finds.
LEMMA FoundLists ==
  ASSUME TypeOK, NEW timers \in SUBSET io, NEW found \in Found(timers)
  PROVE  /\ found \in Seq(Ops)
         /\ \A x : In(found, x) => x \in timers \cup {Descriptor}
         /\ \A x \in timers : In(found, x)
         /\ \A x : Once(found, x)
<1>1. PICK ready \in {<<>>, <<Descriptor>>},
           expired \in Bijection(1 .. Cardinality(timers), timers) :
        found = ready \o expired
  BY DEF Found
<1>2. timers \subseteq Handlers /\ IsFiniteSet(timers)
  <2>1. timers \subseteq Handlers
    BY DEF TypeOK
  <2>2. IsFiniteSet(Handlers)
    BY SchedulerAssumption, FS_Interval DEF Handlers
  <2> QED
    BY <2>1, <2>2, FS_Subset
<1>3. Cardinality(timers) \in Nat
  BY <1>2, FS_CardinalityType
<1>4. /\ expired \in [1 .. Cardinality(timers) -> timers]
      /\ \A i, j \in 1 .. Cardinality(timers) : expired[i] = expired[j] => i = j
      /\ \A x \in timers : \E i \in 1 .. Cardinality(timers) : expired[i] = x
  BY DEF Bijection, Injection, Surjection, IsInjective
<1>5. expired \in Seq(Ops) /\ ready \in Seq(Ops)
  <2>1. expired \in Seq(timers) /\ timers \subseteq Ops
    BY <1>2, <1>3, <1>4, Lists
  <2>2. <<>> \in Seq(Ops) /\ <<Descriptor>> \in Seq(Ops)
    BY Lists
  <2>3. expired \in Seq(Ops)
    <3>1. /\ expired \in [1 .. Cardinality(timers) -> Ops]
      BY <1>4, <2>1
    <3> QED
      BY <1>3, <3>1
  <2>4. ready \in Seq(Ops)
    BY <2>2, ready \in {<<>>, <<Descriptor>>}
  <2> QED
    BY <2>3, <2>4
<1>6. \A x : (In(expired, x) <=> x \in timers) /\ Once(expired, x)
  BY <1>4 DEF In, Once
<1>7. \A x : (In(ready, x) => x = Descriptor) /\ Once(ready, x)
  <2>1. CASE ready = <<>>
    BY <2>1, InShort
  <2>2. CASE ready = <<Descriptor>>
    BY <2>2, InShort
  <2> QED
    BY <2>1, <2>2
<1>8. Descriptor \notin timers
  BY <1>2, Lists
<1>9. ASSUME NEW x
      PROVE  /\ In(found, x) <=> In(ready, x) \/ In(expired, x)
             /\ Once(found, x)
  BY <1>1, <1>5, <1>6, <1>7, <1>8, InConcat
<1>10. found \in Seq(Ops)
  BY <1>1, <1>5, ConcatProperties
<1> QED
  BY <1>6, <1>7, <1>9, <1>10

\* What cleanup objects push.
LEMMA PushedIs ==
  ASSUME TypeOK, NEW t \in Threads
  PROVE  /\ Pushed(t) \in Seq(Ops)
         /\ \A x : In(Pushed(t), x) <=>
                    In(queue, x) \/ In(private[t], x) \/ (pc[t] = "reap" /\ x = Task)
         /\ \A x : /\ Once(queue, x) /\ Once(private[t], x)
                   /\ ~(In(queue, x) /\ In(private[t], x))
                   /\ ~(pc[t] = "reap" /\ x = Task /\ (In(queue, x) \/ In(private[t], x)))
                  => Once(Pushed(t), x)
         /\ /\ Before(queue) /\ ~In(private[t], Task)
            /\ ~(In(queue, Task) /\ In(private[t], Descriptor))
            => Before(Pushed(t))
         /\ pc[t] # "reap" => Pushed(t) = queue \o private[t]
<1> DEFINE q == queue
           r == private[t]
           e == IF pc[t] = "reap" THEN <<Task>> ELSE <<>>
<1>1. q \in Seq(Ops) /\ r \in Seq(Ops) /\ e \in Seq(Ops)
  BY Lists
<1>2. \A x : (In(e, x) <=> pc[t] = "reap" /\ x = Task) /\ Once(e, x)
  BY InShort
<1>3. Before(e) /\ ~In(e, Descriptor)
  BY DEF Before, In, Task, Descriptor
<1>4. Pushed(t) = (q \o r) \o e
  BY DEF Pushed
<1>5. q \o r \in Seq(Ops)
  BY <1>1, ConcatProperties
<1>6. pc[t] # "reap" => (q \o r) \o e = q \o r
  BY <1>5, ConcatEmptySeq
<1> HIDE DEF q, r, e
<1> DEFINE s == q \o r
<1>7. \A x : /\ In(s, x) <=> In(q, x) \/ In(r, x)
             /\ Once(s, x) <=> Once(q, x) /\ Once(r, x) /\ ~(In(q, x) /\ In(r, x))
  BY <1>1, InConcat
<1>8. Before(q) /\ Before(r) /\ ~(In(q, Task) /\ In(r, Descriptor)) => Before(s)
  BY <1>1, BeforeConcat
<1>9. s \in Seq(Ops)
  BY <1>5
<1> HIDE DEF s
<1>10. \A x : /\ In(s \o e, x) <=> In(s, x) \/ In(e, x)
              /\ Once(s \o e, x) <=> Once(s, x) /\ Once(e, x) /\ ~(In(s, x) /\ In(e, x))
  BY <1>1, <1>9, InConcat
<1>11. Before(s) => Before(s \o e)
  BY <1>1, <1>3, <1>9, BeforeConcat
<1>12. s \o e \in Seq(Ops)
  BY <1>1, <1>9, ConcatProperties
<1>13. ~In(r, Task) => Before(r)
  BY DEF In, Before
<1>14. Pushed(t) = s \o e /\ q = queue /\ r = private[t]
  BY <1>4 DEF s, q, r
<1>15. pc[t] # "reap" => Pushed(t) = queue \o private[t]
  BY <1>4, <1>6 DEF q, r
<1>16. ASSUME NEW x
       PROVE  /\ In(s \o e, x) <=> In(q, x) \/ In(r, x) \/ (pc[t] = "reap" /\ x = Task)
              /\ /\ Once(q, x) /\ Once(r, x) /\ ~(In(q, x) /\ In(r, x))
                 /\ ~(pc[t] = "reap" /\ x = Task /\ (In(q, x) \/ In(r, x)))
                => Once(s \o e, x)
  <2>1. (In(e, x) <=> pc[t] = "reap" /\ x = Task) /\ Once(e, x)
    BY <1>2
  <2>2. /\ In(s, x) <=> In(q, x) \/ In(r, x)
        /\ Once(s, x) <=> Once(q, x) /\ Once(r, x) /\ ~(In(q, x) /\ In(r, x))
    BY <1>7
  <2>3. /\ In(s \o e, x) <=> In(s, x) \/ In(e, x)
        /\ Once(s \o e, x) <=> Once(s, x) /\ Once(e, x) /\ ~(In(s, x) /\ In(e, x))
    BY <1>10
  <2> QED
    BY <2>1, <2>2, <2>3
<1>17. Before(q) /\ ~In(r, Task) /\ ~(In(q, Task) /\ In(r, Descriptor)) => Before(s \o e)
  BY <1>8, <1>11, <1>13
<1> QED
  BY <1>12, <1>14, <1>15, <1>16, <1>17

-----------------------------------------------------------------------------
(* Types *)

\* The types of the event and of the task, and of the lists.
EventOK ==
  /\ bit \in BOOLEAN /\ asleep \subseteq Threads /\ signalling \subseteq Actors
  /\ taskInterrupted \in BOOLEAN /\ interrupt \in BOOLEAN

ListsOK == queue \in Seq(Ops) /\ private \in [Threads -> Seq(Ops)]

\* Waking a thread.
LEMMA WakeType ==
  ASSUME TypeOK, NEW a \in Actors
  PROVE  /\ SignalOne(a) => bit' \in BOOLEAN /\ asleep' \subseteq Threads /\ signalling' \subseteq Actors
         /\ \A b \in BOOLEAN : WakeOne(a, b) => EventOK'
         /\ StopAllThreads => EventOK' /\ stopped' \in BOOLEAN
<1>1. EventOK /\ hasTask \in BOOLEAN
  BY DEF TypeOK, EventOK
<1>2. SignalOne(a) => bit' \in BOOLEAN /\ asleep' \subseteq Threads /\ signalling' \subseteq Actors
  BY <1>1 DEF SignalOne, EventOK
<1>3. \A b \in BOOLEAN : InterruptTask(b) => taskInterrupted' \in BOOLEAN /\ interrupt' \in BOOLEAN
  BY DEF InterruptTask
<1>4. ASSUME NEW b \in BOOLEAN, WakeOne(a, b) PROVE EventOK'
  BY <1>1, <1>2, <1>3, <1>4 DEF WakeOne, EventOK
<1>5. ASSUME StopAllThreads PROVE EventOK' /\ stopped' \in BOOLEAN
  BY <1>1, <1>3, <1>5 DEF StopAllThreads, EventOK
<1> QED
  BY <1>2, <1>4, <1>5

\* Putting operations on a list.
LEMMA SubmitType ==
  ASSUME TypeOK, NEW a \in Actors, NEW ops \in Seq(Ops), NEW c, Submit(a, ops, c)
  PROVE  ListsOK' /\ EventOK'
<1>1. queue \o ops \in Seq(Ops) /\ \A t \in Threads : private[t] \o ops \in Seq(Ops)
  BY Lists, ConcatProperties
<1>2. ListsOK'
  BY <1>1 DEF Submit, ListsOK, TypeOK
<1>3. EventOK'
  BY WakeType DEF Submit, EventOK, TypeOK, event, task
<1> QED
  BY <1>2, <1>3

\* Taking over the private queue.
LEMMA CleanUpType ==
  ASSUME TypeOK, NEW t \in Threads, NEW q \in Seq(Ops), CleanUp(t, q)
  PROVE  ListsOK' /\ work' \in Nat /\ privateWork' \in [Threads -> Nat]
<1>1. <<>> \in Seq(Ops)
  BY EmptySeq
<1> QED
  BY <1>1 DEF CleanUp, ListsOK, TypeOK

\* The steps, one by one.
LEMMA NextCases ==
  ASSUME [Next]_vars
  PROVE  \/ UNCHANGED vars
         \/ \E a \in Actors : \/ Signal(a) \/ Push(a) \/ StopIdle(a) \/ Post(a) \/ StartIo(a)
                              \/ Cancel(a) \/ Stop(a) \/ InitTask(a) \/ Hold(a) \/ Release(a)
                              \/ Restart(a)
         \/ \E t \in Threads : \/ Woken(t) \/ LeaveStopped(t) \/ TakeTask(t) \/ PollNothing(t)
                               \/ TakeOp(t) \/ FindEmpty(t) \/ TaskReturn(t) \/ PerformIo(t)
                               \/ HandlerEnds(t) \/ WorkCleanup(t) \/ Leave(t) \/ Continue(t)
                               \/ Spurious(t) \/ TaskEvent(t)
                               \/ \E c \in CallsOf[t] : Enter(t, c)
         \/ ShutdownService
BY Zenon DEF Next, Step, Request

\* The count of work is not taken below zero.
Counted ==
  /\ \A t \in Threads : pc[t] = "clean" => work >= 1
  /\ holding # {} /\ ~shutdown => work >= 1

\* Every step keeps the types.
LEMMA TypeKept ==
  ASSUME TypeOK, Control, Counted, [Next]_vars
  PROVE  TypeOK'
<1> USE DEF TypeOK, thread, event, task, fixed, vars, Goto, Actors
<1>0. MaxHandlers \in Nat /\ CallsOf \in [Threads -> SUBSET Calls] /\ NoOp \notin Handlers
  BY SchedulerAssumption DEF Handlers
<1>f. IsFiniteSet(Handlers)
  BY <1>0, FS_Interval DEF Handlers
<1>1. CASE UNCHANGED vars
  BY <1>1
<1>2. ASSUME NEW a \in Actors, Signal(a) PROVE TypeOK'
  BY <1>2 DEF Signal
<1>3. ASSUME NEW a \in Actors, Push(a) PROVE TypeOK'
  <2>1. pushing[a] \in Handlers
    BY <1>3 DEF Push, At, Control
  <2>2. <<pushing[a]>> \in Seq(Ops)
    BY <2>1, Lists
  <2>3. ListsOK' /\ EventOK'
    BY <1>3, <2>2, SubmitType DEF Push
  <2> QED
    BY <1>3, <2>3 DEF Push, ListsOK, EventOK
<1>5. ASSUME NEW a \in Actors, Post(a) PROVE TypeOK'
  <2>1. handlers + 1 \in Handlers /\ handlers + 1 \in 0 .. MaxHandlers
    BY <1>0, <1>5 DEF Post, Handlers
  <2>2. <<handlers + 1>> \in Seq(Ops)
    BY <2>1, Lists
  <2>3. CASE a \in Threads /\ oneThread
    <3>1. ListsOK' /\ EventOK'
      BY <1>5, <2>2, <2>3, SubmitType DEF Post
    <3>2. privateWork' = [privateWork EXCEPT ![a] = @ + 1] /\ handlers' = handlers + 1
      BY <1>5, <2>3 DEF Post
    <3>3. privateWork' \in [Threads -> Nat] /\ handlers' \in 0 .. MaxHandlers
      BY <2>1, <2>3, <3>2
    <3> QED
      BY <1>5, <2>3, <3>1, <3>3 DEF Post, ListsOK, EventOK
  <2>4. CASE ~(a \in Threads /\ oneThread)
    <3>1. /\ work' = work + 1 /\ handlers' = handlers + 1
          /\ pushing' = [pushing EXCEPT ![a] = handlers + 1]
      BY <1>5, <2>4 DEF Post
    <3>2. /\ work' \in Nat /\ handlers' \in 0 .. MaxHandlers
          /\ pushing' \in [Actors -> Handlers \cup {NoOp}]
      BY <2>1, <3>1
    <3> QED
      BY <1>5, <2>4, <3>2 DEF Post
  <2> QED
    BY <2>3, <2>4
<1>4. ASSUME NEW a \in Actors, StopIdle(a) PROVE TypeOK'
  <2>1. EventOK' /\ stopped' \in BOOLEAN
    BY <1>4, WakeType DEF StopIdle
  <2> QED
    BY <1>4, <2>1 DEF StopIdle, EventOK, Return, AfterOp
<1>6. ASSUME NEW a \in Actors, StartIo(a) PROVE TypeOK'
  BY <1>0, <1>6 DEF StartIo, Handlers
<1>7. ASSUME NEW a \in Actors, Cancel(a) PROVE TypeOK'
  <2>1. IsFiniteSet(io)
    BY <1>f, FS_Subset
  <2>2. SetToSeq(io) \in Seq(Handlers)
    BY <2>1, InSetToSeq
  <2>3. SetToSeq(io) \in Seq(Ops)
    BY <2>2, Lists
  <2>4. ListsOK' /\ EventOK'
    BY <1>7, <2>3, SubmitType DEF Cancel
  <2> QED
    BY <1>7, <2>4 DEF Cancel, ListsOK, EventOK
<1>8. ASSUME NEW a \in Actors, Stop(a) PROVE TypeOK'
  <2>1. EventOK' /\ stopped' \in BOOLEAN
    BY <1>8, WakeType DEF Stop
  <2> QED
    BY <1>8, <2>1 DEF Stop, EventOK
<1>9. ASSUME NEW a \in Actors, InitTask(a) PROVE TypeOK'
  <2>1. EventOK'
    BY <1>9, WakeType DEF InitTask
  <2>2. Append(queue, Task) \in Seq(Ops)
    BY Lists, AppendProperties
  <2> QED
    BY <1>9, <2>1, <2>2 DEF InitTask, EventOK
<1>10. ASSUME NEW a \in Actors, Hold(a) PROVE TypeOK'
  BY <1>10 DEF Hold
<1>11. ASSUME NEW a \in Actors, Release(a) PROVE TypeOK'
  BY <1>11 DEF Release, Free, Counted
<1>12. ASSUME NEW a \in Actors, Restart(a) PROVE TypeOK'
  BY <1>12 DEF Restart
<1>13. ASSUME NEW t \in Threads, Woken(t) PROVE TypeOK'
  BY <1>13 DEF Woken
<1>p. ASSUME NEW t \in Threads
      PROVE  /\ Pushed(t) \in Seq(Ops)
             /\ Pushed(t) # <<>> => Tail(Pushed(t)) \in Seq(Ops) /\ Head(Pushed(t)) \in Ops
  BY PushedIs, HeadTailProperties
<1>14. ASSUME NEW t \in Threads, LeaveStopped(t) PROVE TypeOK'
  <2>1. ListsOK' /\ work' \in Nat /\ privateWork' \in [Threads -> Nat]
    BY <1>14, <1>p, CleanUpType DEF LeaveStopped
  <2> QED
    BY <1>14, <2>1 DEF LeaveStopped, ListsOK, Return, Interrupted
<1>15. ASSUME NEW t \in Threads, TakeTask(t) PROVE TypeOK'
  <2>1. ListsOK' /\ work' \in Nat /\ privateWork' \in [Threads -> Nat]
    BY <1>15, <1>p, CleanUpType DEF TakeTask
  <2>2. EventOK' /\ block' \in [Threads -> BOOLEAN]
    BY <1>15, WakeType DEF TakeTask, EventOK
  <2> QED
    BY <1>15, <2>1, <2>2 DEF TakeTask, ListsOK, EventOK
<1>16. ASSUME NEW t \in Threads, PollNothing(t) PROVE TypeOK'
  <2>1. ListsOK' /\ work' \in Nat /\ privateWork' \in [Threads -> Nat]
    BY <1>16, <1>p, CleanUpType DEF PollNothing
  <2>2. bit' \in BOOLEAN /\ asleep' \subseteq Threads /\ signalling' \subseteq Actors
    BY <1>16, WakeType DEF PollNothing
  <2> QED
    BY <1>16, <2>1, <2>2 DEF PollNothing, ListsOK, Return
<1>17. ASSUME NEW t \in Threads, TakeOp(t) PROVE TypeOK'
  <2>1. ListsOK' /\ work' \in Nat /\ privateWork' \in [Threads -> Nat]
    BY <1>17, <1>p, CleanUpType DEF TakeOp
  <2>2. Interrupted(t) \in BOOLEAN
    BY DEF Interrupted
  <2>3. EventOK'
    BY <1>17, <2>2, WakeType DEF TakeOp, EventOK
  <2>4. Head(Pushed(t)) \in Handlers \cup {Descriptor}
    BY <1>17, <1>p DEF TakeOp, Ops
  <2> QED
    BY <1>17, <2>1, <2>3, <2>4 DEF TakeOp, ListsOK, EventOK
<1>18. ASSUME NEW t \in Threads, FindEmpty(t) PROVE TypeOK'
  BY <1>18 DEF FindEmpty, Return
<1>19. ASSUME NEW t \in Threads, TaskReturn(t) PROVE TypeOK'
  BY <1>19 DEF TaskReturn
<1>20. ASSUME NEW t \in Threads, PerformIo(t) PROVE TypeOK'
  <2>1. ASSUME NEW S \in SUBSET io PROVE SetToSeq(S) \in Seq(Ops)
    <3>1. IsFiniteSet(S)
      BY <1>f, FS_Subset
    <3>2. SetToSeq(S) \in Seq(S)
      BY <3>1, InSetToSeq
    <3>3. S \subseteq Ops
      BY Lists
    <3> QED
      BY <3>2, <3>3
  <2>2. CASE work' = work + 1 /\ Goto(t, "clean") /\ UNCHANGED <<queue, private, event, task, io, cur>>
    BY <1>20, <2>2 DEF PerformIo
  <2>3. ASSUME NEW h \in io, NEW S \in SUBSET io,
               io' = io \ (S \cup {h}), cur' = [cur EXCEPT ![t] = h],
               IF S = {} THEN UNCHANGED <<queue, private, event, task>>
               ELSE Submit(t, SetToSeq(S), FALSE),
               UNCHANGED <<pc, work>>
        PROVE  TypeOK'
    <3>1. ListsOK' /\ EventOK'
      BY <2>1, <2>3, SubmitType DEF ListsOK, EventOK
    <3> QED
      BY <1>20, <2>3, <3>1 DEF PerformIo, ListsOK, EventOK
  <2> QED
    BY <1>20, <2>2, <2>3 DEF PerformIo
<1>21. ASSUME NEW t \in Threads, HandlerEnds(t) PROVE TypeOK'
  BY <1>21 DEF HandlerEnds
<1>22. ASSUME NEW t \in Threads, WorkCleanup(t) PROVE TypeOK'
  BY <1>22 DEF WorkCleanup, At, AfterOp, Counted
<1>23. ASSUME NEW t \in Threads, Leave(t) PROVE TypeOK'
  <2>1. queue \o private[t] \in Seq(Ops)
    BY Lists, ConcatProperties
  <2>2. ListsOK' /\ work' \in Nat /\ privateWork' \in [Threads -> Nat]
    BY <1>23, <2>1, CleanUpType DEF Leave
  <2> QED
    BY <1>23, <2>2 DEF Leave, ListsOK, Return
<1>24. ASSUME NEW t \in Threads, Continue(t) PROVE TypeOK'
  <2>1. handlers + 1 \in Handlers /\ handlers + 1 \in 0 .. MaxHandlers
    BY <1>0, <1>24 DEF Continue, Handlers
  <2>2. <<handlers + 1>> \in Seq(Ops)
    BY <2>1, Lists
  <2>3. ListsOK' /\ EventOK'
    BY <1>24, <2>2, SubmitType DEF Continue
  <2>4. privateWork' \in [Threads -> Nat] /\ handlers' \in 0 .. MaxHandlers
    BY <1>24, <2>1 DEF Continue
  <2> QED
    BY <1>24, <2>3, <2>4 DEF Continue, ListsOK, EventOK
<1>25. ASSUME NEW t \in Threads, Spurious(t) PROVE TypeOK'
  BY <1>25 DEF Spurious
<1>26. ASSUME NEW t \in Threads, TaskEvent(t) PROVE TypeOK'
  <2>0. PICK timers \in SUBSET io : \E found \in Found(timers) :
          private' = [private EXCEPT ![t] = private[t] \o found] /\ io' = io \ timers
    BY <1>26 DEF TaskEvent
  <2>1. PICK found \in Found(timers) :
          private' = [private EXCEPT ![t] = private[t] \o found] /\ io' = io \ timers
    BY <2>0
  <2>2. found \in Seq(Ops) /\ private[t] \in Seq(Ops)
    BY FoundLists, Lists
  <2>3. private[t] \o found \in Seq(Ops)
    BY <2>2, ConcatProperties
  <2>4. private' \in [Threads -> Seq(Ops)] /\ io' \subseteq io
    BY <2>1, <2>3
  <2> QED
    BY <1>26, <2>4 DEF TaskEvent
<1>27. ASSUME NEW t \in Threads, NEW c \in CallsOf[t], Enter(t, c) PROVE TypeOK'
  BY <1>0, <1>27 DEF Enter
<1>28. CASE ShutdownService
  BY <1>28, EmptySeq DEF ShutdownService
<1> QED
  BY NextCases, Zenon, <1>1, <1>2, <1>3, <1>4, <1>5, <1>6, <1>7, <1>8, <1>9, <1>10, <1>11,
     <1>12, <1>13, <1>14, <1>15, <1>16, <1>17, <1>18, <1>19, <1>20, <1>21, <1>22, <1>23,
     <1>24, <1>25, <1>26, <1>27, <1>28

-----------------------------------------------------------------------------
(* Every operation is in one list *)

\* The task and the descriptor_state stay where they are.
TaskUntouched ==
  /\ \A x \in {Task, Descriptor} :
       /\ In(queue', x) <=> In(queue, x)
       /\ \A t \in Threads : In(private'[t], x) <=> In(private[t], x)
  /\ Once(queue, Task) => Once(queue', Task)
  /\ Before(queue) => Before(queue')

\* Handlers that are in no list are put on one.
LEMMA SubmitLists ==
  ASSUME TypeOK, ListedOnce, NEW a \in Actors, NEW ops \in Seq(Handlers), NEW c,
         \A x : Once(ops, x), \A h \in Handlers : In(ops, h) => ~Listed(h),
         Submit(a, ops, c)
  PROVE  /\ ListedOnce'
         /\ \A h \in Handlers : Listed(h)' <=> Listed(h) \/ In(ops, h)
         /\ TaskUntouched
<1>1. /\ queue \in Seq(Ops) /\ ops \in Seq(Ops)
      /\ private \in [Threads -> Seq(Ops)] /\ \A t \in Threads : private[t] \in Seq(Ops)
  BY Lists DEF TypeOK
<1>2. \A x : In(ops, x) => x \in Handlers
  BY DEF In
<1>3. ~In(ops, Task) /\ ~In(ops, Descriptor) /\ Before(ops)
  BY <1>2, Lists DEF Before, In
<1>4. \A h \in Handlers \cup {Descriptor} :
        In(ops, h) => ~In(queue, h) /\ \A t \in Threads : ~In(private[t], h)
  BY <1>3 DEF Listed
<1>5. CASE a \in Threads /\ private' = [private EXCEPT ![a] = private[a] \o ops] /\ queue' = queue
  <2>1. \A x : /\ In(private[a] \o ops, x) <=> In(private[a], x) \/ In(ops, x)
               /\ Once(private[a] \o ops, x)
                    <=> Once(private[a], x) /\ Once(ops, x) /\ ~(In(private[a], x) /\ In(ops, x))
    BY <1>1, <1>5, InConcat
  <2>2. /\ private'[a] = private[a] \o ops
        /\ \A t \in Threads : t # a => private'[t] = private[t]
    BY <1>1, <1>5
  <2>3. ASSUME NEW t \in Threads, NEW x
        PROVE  /\ In(private'[t], x) <=> In(private[t], x) \/ (t = a /\ In(ops, x))
               /\ Once(private[t], x) /\ (t = a => ~(In(private[a], x) /\ In(ops, x)))
                   => Once(private'[t], x)
    BY <2>1, <2>2
  <2>4. ListedOnce'
    <3> SUFFICES ASSUME NEW op \in Handlers \cup {Descriptor}
                 PROVE  /\ Once(queue', op)
                        /\ \A t \in Threads : /\ Once(private'[t], op)
                                              /\ ~(In(queue', op) /\ In(private'[t], op))
                        /\ \A t, u \in Threads :
                             In(private'[t], op) /\ In(private'[u], op) => t = u
      BY DEF ListedOnce
    <3> QED
      BY <1>4, <1>5, <2>3 DEF ListedOnce
  <2>5. \A h \in Handlers : Listed(h)' <=> Listed(h) \/ In(ops, h)
    BY <1>5, <2>3 DEF Listed
  <2>6. TaskUntouched
    BY <1>3, <1>5, <2>3 DEF TaskUntouched
  <2> QED
    BY <2>4, <2>5, <2>6
<1>6. CASE queue' = queue \o ops /\ private' = private
  <2>1. \A x : /\ In(queue \o ops, x) <=> In(queue, x) \/ In(ops, x)
               /\ Once(queue \o ops, x)
                    <=> Once(queue, x) /\ Once(ops, x) /\ ~(In(queue, x) /\ In(ops, x))
    BY <1>1, InConcat
  <2>2. Before(queue) => Before(queue \o ops)
    BY <1>1, <1>3, BeforeConcat
  <2>3. ASSUME NEW x
        PROVE  /\ In(queue', x) <=> In(queue, x) \/ In(ops, x)
               /\ Once(queue, x) /\ ~(In(queue, x) /\ In(ops, x)) => Once(queue', x)
    BY <1>6, <2>1
  <2>4. ListedOnce'
    <3> SUFFICES ASSUME NEW op \in Handlers \cup {Descriptor}
                 PROVE  /\ Once(queue', op)
                        /\ \A t \in Threads : /\ Once(private'[t], op)
                                              /\ ~(In(queue', op) /\ In(private'[t], op))
                        /\ \A t, u \in Threads :
                             In(private'[t], op) /\ In(private'[u], op) => t = u
      BY DEF ListedOnce
    <3> QED
      BY <1>4, <1>6, <2>3 DEF ListedOnce
  <2>5. \A h \in Handlers : Listed(h)' <=> Listed(h) \/ In(ops, h)
    BY <1>6, <2>3 DEF Listed
  <2>6. TaskUntouched
    BY <1>3, <1>6, <2>2, <2>3 DEF TaskUntouched
  <2> QED
    BY <2>4, <2>5, <2>6
<1> QED
  BY <1>5, <1>6 DEF Submit

\* The list a thread leaves in the shared queue holds what was there before.
LEMMA PushedOnce ==
  ASSUME TypeOK, ListedOnce, TaskOnce, NEW t \in Threads
  PROVE  /\ \A x \in Ops : Once(Pushed(t), x)
         /\ Before(Pushed(t))
<1>1. \A x \in Handlers \cup {Descriptor} :
        Once(queue, x) /\ Once(private[t], x) /\ ~(In(queue, x) /\ In(private[t], x))
  BY DEF ListedOnce
<1>2. Once(queue, Task) /\ ~In(private[t], Task) /\ Once(private[t], Task)
  BY DEF TaskOnce, In, Once
<1>3. pc[t] = "reap" => ~In(queue, Task)
  BY DEF TaskOnce, Reacting
<1>4. \A x \in Ops : x = Task \/ x \in Handlers \cup {Descriptor}
  BY DEF Ops
<1>5. \A x \in Ops : Once(Pushed(t), x)
  BY <1>1, <1>2, <1>3, <1>4, PushedIs
<1>6. Before(queue) /\ ~(In(queue, Task) /\ In(private[t], Descriptor))
  BY DEF TaskOnce, Reacting
<1> QED
  BY <1>2, <1>5, <1>6, PushedIs

\* A thread puts its private queue on the shared one.
LEMMA CleanUpLists ==
  ASSUME TypeOK, ListedOnce, TaskOnce, NEW t \in Threads, NEW q,
         CleanUp(t, q), \A x \in Ops : Once(q, x), \A x : In(q, x) => In(Pushed(t), x)
  PROVE  /\ ListedOnce'
         /\ queue' = q
         /\ \A u \in Threads : \A x : In(private'[u], x) <=> u # t /\ In(private[u], x)
<1>1. private \in [Threads -> Seq(Ops)]
  BY DEF TypeOK
<1>2. queue' = q /\ private'[t] = <<>> /\ \A u \in Threads : u # t => private'[u] = private[u]
  BY <1>1 DEF CleanUp
<1>3. ASSUME NEW u \in Threads, NEW x
      PROVE  /\ In(private'[u], x) <=> u # t /\ In(private[u], x)
             /\ Once(private[u], x) => Once(private'[u], x)
  BY <1>2, InShort
<1>4. ASSUME NEW op \in Handlers \cup {Descriptor}
      PROVE  /\ Once(queue', op)
             /\ \A u \in Threads : /\ Once(private'[u], op)
                                   /\ ~(In(queue', op) /\ In(private'[u], op))
             /\ \A u, v \in Threads : In(private'[u], op) /\ In(private'[v], op) => u = v
  <2>1. op \in Ops /\ op # Task
    BY Lists
  <2>2. In(q, op) => In(queue, op) \/ In(private[t], op)
    BY <2>1, PushedIs
  <2> QED
    BY <1>2, <1>3, <2>1, <2>2 DEF ListedOnce
<1>5. ListedOnce'
  BY <1>4 DEF ListedOnce
<1> QED
  BY <1>2, <1>3, <1>5

-----------------------------------------------------------------------------
(* Every handler is in one place, and so is the task *)

\* Every operation is in one place.
Placed == ListedOnce /\ HandlerOnce /\ TaskOnce

\* No thread starts or leaves the task.
Steady ==
  /\ hasTask' = hasTask
  /\ \A t \in Threads : /\ pc'[t] \in Reacting <=> pc[t] \in Reacting
                        /\ pc[t] = "reap" => pc'[t] = "reap"

\* Then the task is where it was.
LEMMA TaskStays ==
  ASSUME TaskOnce, TaskUntouched, Steady
  PROVE  TaskOnce'
BY DEF TaskOnce, TaskUntouched, Steady

\* The handlers that exist and have not ended.
Exists(h) == Listed(h) \/ h \in io \/ Executed(h) \/ BeingPushed(h)

\* No handler begins or ends; the next one begins.
NoneEnds == \A h \in Handlers : Exists(h)' <=> Exists(h)
OneBegins == \A h \in Handlers : Exists(h)' <=> Exists(h) \/ h = handlers + 1

\* The handlers that are where they were.
Handled(h) ==
  /\ Listed(h)' <=> Listed(h)
  /\ \A t \in Threads : cur'[t] = h <=> cur[t] = h
  /\ \A a \in Actors : pushing'[a] = h <=> pushing[a] = h
  /\ h \in io' <=> h \in io

\* Such a handler stays in one place.
LEMMA HandledStays ==
  ASSUME HandlerOnce, NEW h \in Handlers, Handled(h),
         handlers' = handlers \/ (handlers' = handlers + 1 /\ handlers \in Nat)
  PROVE  InOnePlace(h)' /\ (Exists(h)' <=> Exists(h))
<1>1. h > handlers' => h > handlers
  BY DEF Handlers
<1>2. InOnePlace(h)
  BY DEF HandlerOnce
<1>3. (Executed(h)' <=> Executed(h)) /\ (BeingPushed(h)' <=> BeingPushed(h))
  BY DEF Handled, Executed, BeingPushed
<1> QED
  BY <1>1, <1>2, <1>3 DEF Handled, InOnePlace, Exists

\* Steps that move no operation.
LEMMA Quiet ==
  ASSUME Placed, Steady,
         UNCHANGED <<queue, private, io, cur, pushing, handlers>>
  PROVE  Placed'
<1>1. ListedOnce'
  BY DEF Placed, ListedOnce
<1>2. \A h : Listed(h)' <=> Listed(h)
  BY DEF Listed
<1>3. \A h : (Executed(h)' <=> Executed(h)) /\ (BeingPushed(h)' <=> BeingPushed(h))
  BY DEF Executed, BeingPushed
<1>4. HandlerOnce'
  BY <1>2, <1>3 DEF HandlerOnce, InOnePlace, Placed
<1>5. TaskUntouched
  BY DEF TaskUntouched
<1> QED
  BY <1>1, <1>4, <1>5, TaskStays DEF Placed

\* Steps of the event, of requests and of control.
LEMMA QuietSteps ==
  ASSUME TypeOK, Control, Placed,
         \/ UNCHANGED vars
         \/ \E a \in Actors : Signal(a) \/ StopIdle(a) \/ Stop(a) \/ Hold(a) \/ Release(a) \/ Restart(a)
         \/ \E t \in Threads : \/ Woken(t) \/ FindEmpty(t) \/ TaskReturn(t) \/ HandlerEnds(t)
                               \/ Spurious(t) \/ \E c \in CallsOf[t] : Enter(t, c)
  PROVE  Placed'
<1> USE DEF Steady, Reacting, Goto, thread, event, task, fixed, vars, At, Return
<1>0. DOMAIN pc = Actors /\ Threads \subseteq Actors /\ Threads \cap Clients = {}
      /\ pc = [a \in Actors |-> pc[a]]
  BY SchedulerAssumption DEF TypeOK, Actors
<1>q. Steady /\ UNCHANGED <<queue, private, io, cur, pushing, handlers>> => Placed'
  BY Quiet
<1>1. CASE UNCHANGED vars
  BY <1>1, <1>q
<1>2. ASSUME NEW a \in Actors, Signal(a) \/ Stop(a) \/ Hold(a) \/ Restart(a) PROVE Placed'
  BY <1>2, <1>q DEF Signal, Stop, Hold, Restart
<1>3. ASSUME NEW a \in Actors, StopIdle(a) PROVE Placed'
  BY <1>0, <1>3, <1>q DEF StopIdle, AfterOp
<1>4. ASSUME NEW a \in Actors, Release(a) PROVE Placed'
  <2>1. a \notin Threads
    BY <1>0, <1>4 DEF Release, TypeOK
  <2> QED
    BY <1>0, <1>4, <1>q, <2>1 DEF Release
<1>5. ASSUME NEW t \in Threads, Woken(t) \/ Spurious(t) PROVE Placed'
  BY <1>0, <1>5, <1>q DEF Woken, Spurious
<1>6. ASSUME NEW t \in Threads, FindEmpty(t) PROVE Placed'
  BY <1>0, <1>6, <1>q DEF FindEmpty
<1>7. ASSUME NEW t \in Threads, TaskReturn(t) PROVE Placed'
  BY <1>0, <1>7, <1>q DEF TaskReturn
<1>8. ASSUME NEW t \in Threads, HandlerEnds(t) PROVE Placed'
  BY <1>0, <1>8, <1>q DEF HandlerEnds, Free
<1>9. ASSUME NEW t \in Threads, NEW c \in CallsOf[t], Enter(t, c) PROVE Placed'
  BY <1>0, <1>9, <1>q DEF Enter
<1> QED
  BY <1>1, <1>2, <1>3, <1>4, <1>5, <1>6, <1>7, <1>8, <1>9

\* A handler that is in a list and nowhere else.
LEMMA ListedOnly ==
  ASSUME NEW h \in Handlers, ~Executed(h)', ~BeingPushed(h)', h \notin io', ~(h > handlers')
  PROVE  InOnePlace(h)'
BY DEF InOnePlace, Executed, BeingPushed

\* push of post_immediate_completion and do_dispatch.
LEMMA PushPlaced ==
  ASSUME TypeOK, Control, Placed, NEW a \in Actors, Push(a)
  PROVE  Placed' /\ NoneEnds
<1> DEFINE p == pushing[a]
<1>0. pc[a] = "push" /\ pushing \in [Actors -> Handlers \cup {NoOp}] /\ DOMAIN pc = Actors
  BY DEF Push, At, TypeOK
<1>1. p \in Handlers /\ p # NoOp
  BY <1>0, Lists DEF Control
<1>2. BeingPushed(p) /\ InOnePlace(p)
  BY <1>1 DEF BeingPushed, Placed, HandlerOnce
<1>3. ~Listed(p) /\ ~Executed(p) /\ p \notin io /\ ~(p > handlers)
  BY <1>2 DEF InOnePlace
<1>4. <<p>> \in Seq(Handlers) /\ \A x : Once(<<p>>, x) /\ (In(<<p>>, x) <=> x = p)
  BY <1>1, InShort
<1>5. /\ ListedOnce'
      /\ \A h \in Handlers : Listed(h)' <=> Listed(h) \/ h = p
      /\ TaskUntouched
  <2> DEFINE ops == <<p>>
  <2>1. /\ ops \in Seq(Handlers) /\ \A x : Once(ops, x) /\ (In(ops, x) <=> x = p)
        /\ \A h \in Handlers : In(ops, h) => ~Listed(h)
    BY <1>3, <1>4
  <2>2. Submit(a, ops, FALSE)
    BY DEF Push
  <2> HIDE DEF ops, p
  <2>3. /\ ListedOnce'
        /\ \A h \in Handlers : Listed(h)' <=> Listed(h) \/ In(ops, h)
        /\ TaskUntouched
    BY <2>1, <2>2, SubmitLists DEF Placed
  <2> QED
    BY <2>1, <2>3
<1>6. Steady
  BY <1>0 DEF Push, Steady, Goto, Reacting, TypeOK
<1>7. /\ pushing' = [pushing EXCEPT ![a] = NoOp]
      /\ cur' = cur /\ io' = io /\ handlers' = handlers
  BY DEF Push
<1>8. ASSUME NEW h \in Handlers PROVE InOnePlace(h)' /\ (Exists(h)' <=> Exists(h))
  <2>1. CASE h = p
    <3>1. ~BeingPushed(h)'
      <4>1. \A b \in Actors : pushing[b] = p => b = a
        BY <1>2 DEF InOnePlace
      <4> QED
        BY <1>0, <1>1, <1>7, <2>1, <4>1 DEF BeingPushed
    <3>2. ~Executed(h)' /\ h \notin io' /\ ~(h > handlers')
      BY <1>3, <1>7, <2>1 DEF Executed
    <3>3. Exists(h)' /\ Exists(h)
      BY <1>2, <1>5, <2>1 DEF Exists
    <3> QED
      BY <3>1, <3>2, <3>3, ListedOnly
  <2>2. CASE h # p
    <3>1. h # NoOp
      BY Lists
    <3>2. Handled(h)
      BY <1>0, <1>5, <1>7, <2>2, <3>1 DEF Handled
    <3> QED
      BY <1>7, <3>2, HandledStays DEF Placed
  <2> QED
    BY <2>1, <2>2
<1> QED
  BY <1>5, <1>6, <1>8, TaskStays DEF Placed, HandlerOnce, NoneEnds

\* The next handler is nowhere yet.
LEMMA Fresh ==
  ASSUME TypeOK, HandlerOnce, handlers < MaxHandlers
  PROVE  /\ handlers + 1 \in Handlers /\ handlers \in Nat
         /\ ~Listed(handlers + 1) /\ ~Executed(handlers + 1) /\ ~BeingPushed(handlers + 1)
         /\ handlers + 1 \notin io
<1>1. handlers + 1 \in Handlers /\ handlers + 1 > handlers /\ handlers \in Nat
  BY SchedulerAssumption DEF TypeOK, Handlers
<1>2. InOnePlace(handlers + 1)
  BY <1>1 DEF HandlerOnce
<1> QED
  BY <1>1, <1>2 DEF InOnePlace

\* A new handler is put on a list at once.
LEMMA NewListed ==
  ASSUME TypeOK, Placed, NEW a \in Actors, NEW c, handlers < MaxHandlers,
         Submit(a, <<handlers + 1>>, c), handlers' = handlers + 1,
         UNCHANGED <<pc, cur, pushing, io, hasTask>>
  PROVE  Placed' /\ OneBegins
<1> DEFINE n == handlers + 1
           ops == <<n>>
<1>1. /\ n \in Handlers /\ handlers \in Nat /\ ~Listed(n) /\ ~Executed(n)
      /\ ~BeingPushed(n) /\ n \notin io /\ handlers' = n
  BY Fresh DEF Placed
<1> HIDE DEF n
<1>2. /\ ops \in Seq(Handlers) /\ \A x : Once(ops, x) /\ (In(ops, x) <=> x = n)
      /\ \A h \in Handlers : In(ops, h) => ~Listed(h)
  BY <1>1, InShort
<1>3. Submit(a, ops, c)
  BY DEF n
<1> HIDE DEF ops
<1>4. /\ ListedOnce'
      /\ \A h \in Handlers : Listed(h)' <=> Listed(h) \/ In(ops, h)
      /\ TaskUntouched
  BY <1>2, <1>3, SubmitLists DEF Placed
<1>5. Steady
  BY DEF Steady
<1>6. ASSUME NEW h \in Handlers PROVE InOnePlace(h)' /\ (Exists(h)' <=> Exists(h) \/ h = n)
  <2>1. CASE h = n
    <3>1. ~Executed(h)' /\ ~BeingPushed(h)' /\ h \notin io' /\ ~(h > handlers')
      BY <1>1, <2>1 DEF Executed, BeingPushed, Handlers
    <3>2. Exists(h)'
      BY <1>2, <1>4, <2>1 DEF Exists
    <3> QED
      BY <2>1, <3>1, <3>2, ListedOnly
  <2>2. CASE h # n
    <3>1. Handled(h)
      BY <1>2, <1>4, <2>2 DEF Handled
    <3> QED
      BY <1>1, <2>2, <3>1, HandledStays DEF Placed
  <2> QED
    BY <2>1, <2>2
<1> QED
  BY <1>4, <1>5, <1>6, TaskStays DEF Placed, HandlerOnce, OneBegins, n

\* A new handler waits to be pushed.
LEMMA PostPlaced ==
  ASSUME TypeOK, Control, Placed, NEW a \in Actors, Post(a)
  PROVE  Placed' /\ OneBegins
<1>1. CASE a \in Threads /\ oneThread
  <2>1. /\ handlers < MaxHandlers /\ handlers' = handlers + 1
        /\ Submit(a, <<handlers + 1>>, FALSE) /\ UNCHANGED <<pc, cur, pushing, io, hasTask>>
    BY <1>1 DEF Post
  <2> QED
    BY <2>1, NewListed
<1>2. CASE ~(a \in Threads /\ oneThread)
  <2> DEFINE n == handlers + 1
  <2>1. /\ handlers < MaxHandlers /\ handlers' = n /\ pushing' = [pushing EXCEPT ![a] = n]
        /\ UNCHANGED <<queue, private, cur, io, hasTask>> /\ Goto(a, "push")
        /\ Free(a)
    BY <1>2 DEF Post
  <2>2. /\ n \in Handlers /\ handlers \in Nat /\ ~Listed(n) /\ ~Executed(n)
        /\ ~BeingPushed(n) /\ n \notin io
    BY <2>1, Fresh DEF Placed
  <2>3. pc[a] # "push" /\ pc[a] \notin Reacting /\ DOMAIN pc = Actors /\ DOMAIN pushing = Actors
    BY <2>1 DEF Free, At, Reacting, TypeOK
  <2>4. pushing[a] = NoOp
    BY <2>3 DEF Control
  <2> HIDE DEF n
  <2>5. Steady
    BY <2>1, <2>3 DEF Steady, Goto, Reacting
  <2>6. TaskUntouched /\ ListedOnce'
    BY <2>1 DEF TaskUntouched, ListedOnce, Placed
  <2>7. \A h : Listed(h)' <=> Listed(h)
    BY <2>1 DEF Listed
  <2>8. ASSUME NEW h \in Handlers PROVE InOnePlace(h)' /\ (Exists(h)' <=> Exists(h) \/ h = n)
    <3>1. CASE h = n
      <4>1. ~Executed(h)' /\ h \notin io' /\ ~Listed(h)' /\ ~(h > handlers')
        BY <2>1, <2>2, <2>7, <3>1 DEF Executed, Handlers
      <4>2. \A b \in Actors : pushing'[b] = h => b = a
        BY <2>1, <2>2, <2>3, <3>1 DEF BeingPushed
      <4>3. pushing'[a] = h
        BY <2>1, <2>3, <3>1
      <4> QED
        BY <3>1, <4>1, <4>2, <4>3 DEF InOnePlace, Executed, Exists, BeingPushed
    <3>2. CASE h # n
      <4>1. h # NoOp
        BY Lists
      <4>2. Handled(h)
        BY <2>1, <2>3, <2>4, <2>7, <3>2, <4>1 DEF Handled
      <4> QED
        BY <2>1, <2>2, <3>2, <4>2, HandledStays DEF Placed, n
    <3> QED
      BY <3>1, <3>2
  <2> QED
    BY <2>5, <2>6, <2>8, TaskStays DEF Placed, HandlerOnce, OneBegins, n
<1> QED
  BY <1>1, <1>2

\* A continuation.
LEMMA ContinuePlaced ==
  ASSUME TypeOK, Placed, NEW t \in Threads, Continue(t)
  PROVE  Placed' /\ OneBegins
<1>1. /\ handlers < MaxHandlers /\ handlers' = handlers + 1 /\ t \in Actors
      /\ Submit(t, <<handlers + 1>>, TRUE) /\ UNCHANGED <<pc, cur, pushing, io, hasTask>>
  BY Lists DEF Continue
<1> QED
  BY <1>1, NewListed

\* start_op of the reactor, or a timer.
LEMMA StartIoPlaced ==
  ASSUME TypeOK, Placed, NEW a \in Actors, StartIo(a)
  PROVE  Placed' /\ OneBegins
<1> DEFINE n == handlers + 1
<1>1. /\ handlers < MaxHandlers /\ handlers' = n /\ io' = io \cup {n}
      /\ UNCHANGED <<pc, queue, private, cur, pushing, hasTask>>
  BY DEF StartIo
<1>2. /\ n \in Handlers /\ handlers \in Nat /\ ~Listed(n) /\ ~Executed(n)
      /\ ~BeingPushed(n) /\ n \notin io
  BY <1>1, Fresh DEF Placed
<1> HIDE DEF n
<1>3. Steady /\ TaskUntouched /\ ListedOnce'
  BY <1>1 DEF Steady, TaskUntouched, ListedOnce, Placed
<1>4. \A h : Listed(h)' <=> Listed(h)
  BY <1>1 DEF Listed
<1>5. ASSUME NEW h \in Handlers PROVE InOnePlace(h)' /\ (Exists(h)' <=> Exists(h) \/ h = n)
  <2>1. CASE h = n
    BY <1>1, <1>2, <1>4, <2>1 DEF InOnePlace, Executed, BeingPushed, Handlers, Exists
  <2>2. CASE h # n
    <3>1. Handled(h)
      BY <1>1, <1>4, <2>2 DEF Handled
    <3> QED
      BY <1>1, <1>2, <2>2, <3>1, HandledStays DEF Placed, n
  <2> QED
    BY <2>1, <2>2
<1> QED
  BY <1>3, <1>5, TaskStays DEF Placed, HandlerOnce, OneBegins, n

\* Operations of the reactor complete.
LEMMA IoListed ==
  ASSUME TypeOK, Placed, NEW a \in Actors, NEW S \in SUBSET io,
         \/ S = {} /\ UNCHANGED <<queue, private>>
         \/ Submit(a, SetToSeq(S), FALSE)
  PROVE  /\ ListedOnce' /\ TaskUntouched
         /\ \A h \in Handlers : Listed(h)' <=> Listed(h) \/ h \in S
<1>1. CASE S = {} /\ UNCHANGED <<queue, private>>
  BY <1>1 DEF ListedOnce, TaskUntouched, Listed, Placed
<1>2. CASE Submit(a, SetToSeq(S), FALSE)
  <2> DEFINE ops == SetToSeq(S)
  <2>1. IsFiniteSet(S) /\ S \subseteq Handlers
    <3>1. io \subseteq Handlers /\ IsFiniteSet(Handlers)
      BY SchedulerAssumption, FS_Interval DEF TypeOK, Handlers
    <3> QED
      BY <3>1, FS_Subset
  <2>2. ops \in Seq(S) /\ \A x : (In(ops, x) <=> x \in S) /\ Once(ops, x)
    BY <2>1, InSetToSeq
  <2>3. ops \in Seq(Handlers)
    BY <2>1, <2>2
  <2>4. \A h \in Handlers : In(ops, h) => ~Listed(h)
    BY <2>2 DEF Placed, HandlerOnce, InOnePlace
  <2>5. Submit(a, ops, FALSE)
    BY <1>2
  <2> HIDE DEF ops
  <2>6. /\ ListedOnce' /\ TaskUntouched
        /\ \A h \in Handlers : Listed(h)' <=> Listed(h) \/ In(ops, h)
    BY <2>2, <2>3, <2>4, <2>5, SubmitLists DEF Placed
  <2> QED
    BY <2>2, <2>6
<1> QED
  BY <1>1, <1>2

\* post_deferred_completions of what is cancelled.
LEMMA CancelPlaced ==
  ASSUME TypeOK, Placed, NEW a \in Actors, Cancel(a)
  PROVE  Placed' /\ NoneEnds
<1>1. /\ Submit(a, SetToSeq(io), FALSE) /\ io' = {}
      /\ UNCHANGED <<pc, cur, pushing, handlers, hasTask>>
  BY DEF Cancel
<1>2. /\ ListedOnce' /\ TaskUntouched
      /\ \A h \in Handlers : Listed(h)' <=> Listed(h) \/ h \in io
  BY <1>1, IoListed
<1>3. Steady
  BY <1>1 DEF Steady
<1>4. ASSUME NEW h \in Handlers PROVE InOnePlace(h)' /\ (Exists(h)' <=> Exists(h))
  <2>1. InOnePlace(h)
    BY DEF Placed, HandlerOnce
  <2> QED
    BY <1>1, <1>2, <2>1 DEF InOnePlace, Executed, BeingPushed, Exists
<1> QED
  BY <1>2, <1>3, <1>4, TaskStays DEF Placed, HandlerOnce, NoneEnds

\* do_complete of a descriptor_state.
LEMMA PerformIoPlaced ==
  ASSUME TypeOK, Placed, NEW t \in Threads, PerformIo(t)
  PROVE  Placed' /\ NoneEnds
<1>0. /\ pc[t] = "op" /\ cur[t] = Descriptor /\ DOMAIN pc = Actors /\ t \in Actors
      /\ cur \in [Threads -> Handlers \cup {Descriptor, NoOp}] /\ Descriptor \notin Handlers
  BY Lists DEF PerformIo, At, TypeOK
<1>1. CASE Goto(t, "clean") /\ UNCHANGED <<queue, private, event, task, io, cur>>
  <2>1. Steady /\ UNCHANGED <<queue, private, io, cur, pushing, handlers>>
    BY <1>0, <1>1 DEF PerformIo, Steady, Goto, Reacting
  <2>2. NoneEnds
    BY <2>1 DEF NoneEnds, Exists, Listed, Executed, BeingPushed
  <2> QED
    BY <2>1, <2>2, Quiet
<1>2. ASSUME NEW k \in io, NEW S \in SUBSET io, k \notin S,
             io' = io \ (S \cup {k}), cur' = [cur EXCEPT ![t] = k],
             \/ S = {} /\ UNCHANGED <<queue, private>>
             \/ Submit(t, SetToSeq(S), FALSE),
             UNCHANGED <<pc, work>>
      PROVE  Placed' /\ NoneEnds
  <2>1. /\ ListedOnce' /\ TaskUntouched
        /\ \A h \in Handlers : Listed(h)' <=> Listed(h) \/ h \in S
    BY <1>0, <1>2, IoListed
  <2>2. Steady /\ UNCHANGED <<pushing, handlers>>
    BY <1>2 DEF PerformIo, Steady
  <2>3. ASSUME NEW h \in Handlers PROVE InOnePlace(h)' /\ (Exists(h)' <=> Exists(h))
    <3>1. InOnePlace(h)
      BY DEF Placed, HandlerOnce
    <3>2. BeingPushed(h)' <=> BeingPushed(h)
      BY <2>2 DEF BeingPushed
    <3>3. \A u \in Threads : cur'[u] = h <=> cur[u] = h \/ (u = t /\ h = k)
      BY <1>0, <1>2
    <3>4. Executed(h)' <=> Executed(h) \/ h = k
      BY <3>3 DEF Executed
    <3>5. h = k => \A u \in Threads : cur[u] # h
      BY <1>2, <3>1 DEF InOnePlace, Executed
    <3> QED
      BY <1>2, <2>1, <2>2, <3>1, <3>2, <3>3, <3>4, <3>5 DEF InOnePlace, Exists
  <2> QED
    BY <2>1, <2>2, <2>3, TaskStays DEF Placed, HandlerOnce, NoneEnds
<1> QED
  BY <1>1, <1>2 DEF PerformIo

\* A handler is over.
LEMMA WorkCleanupPlaced ==
  ASSUME TypeOK, Placed, NEW t \in Threads, WorkCleanup(t)
  PROVE  Placed' /\ \A h \in Handlers : Exists(h)' <=> Exists(h) /\ h # cur[t]
<1>1. /\ pc[t] = "clean" /\ DOMAIN pc = Actors /\ t \in Actors
      /\ cur \in [Threads -> Handlers \cup {Descriptor, NoOp}]
      /\ cur' = [cur EXCEPT ![t] = NoOp]
      /\ UNCHANGED <<queue, private, io, pushing, handlers, hasTask>>
      /\ \E l \in {"stop", "loop", "leave"} : pc' = [pc EXCEPT ![t] = l]
  BY Lists DEF WorkCleanup, At, TypeOK, Goto, AfterOp
<1>2. Steady
  BY <1>1 DEF Steady, Reacting
<1>3. ListedOnce' /\ TaskUntouched
  BY <1>1 DEF ListedOnce, TaskUntouched, Placed
<1>4. ASSUME NEW h \in Handlers PROVE InOnePlace(h)' /\ (Exists(h)' <=> Exists(h) /\ h # cur[t])
  <2>1. InOnePlace(h) /\ h # NoOp
    BY Lists DEF Placed, HandlerOnce
  <2>2. (Listed(h)' <=> Listed(h)) /\ (BeingPushed(h)' <=> BeingPushed(h))
    BY <1>1 DEF Listed, BeingPushed
  <2>3. \A u \in Threads : cur'[u] = h => cur[u] = h
    BY <1>1, <2>1
  <2>4. Executed(h)' => Executed(h)
    BY <2>3 DEF Executed
  <2>5. \A u \in Threads : cur'[u] = h <=> cur[u] = h /\ u # t
    BY <1>1, <2>1
  <2>6. Executed(h)' <=> Executed(h) /\ h # cur[t]
    BY <2>1, <2>5 DEF Executed, InOnePlace
  <2>7. h = cur[t] => Executed(h)
    BY DEF Executed
  <2> QED
    BY <1>1, <2>1, <2>2, <2>3, <2>4, <2>6, <2>7 DEF InOnePlace, Exists
<1> QED
  BY <1>2, <1>3, <1>4, TaskStays DEF Placed, HandlerOnce

\* The reactor reports a descriptor and expired timers.
LEMMA TaskEventPlaced ==
  ASSUME TypeOK, Placed, NEW t \in Threads, TaskEvent(t)
  PROVE  Placed' /\ NoneEnds
<1>0. /\ pc[t] = "task" /\ DOMAIN pc = Actors /\ t \in Actors
      /\ pc' = [pc EXCEPT ![t] = "reap"]
      /\ private \in [Threads -> Seq(Ops)] /\ io \subseteq Handlers
      /\ UNCHANGED <<queue, cur, pushing, handlers, hasTask>>
  BY Lists DEF TaskEvent, At, Goto, TypeOK
<1>a. PICK timers \in SUBSET io : \E found \in Found(timers) :
        /\ private' = [private EXCEPT ![t] = private[t] \o found]
        /\ io' = io \ timers
  BY DEF TaskEvent
<1>1. PICK found \in Found(timers) :
        /\ private' = [private EXCEPT ![t] = private[t] \o found]
        /\ io' = io \ timers
  BY <1>a
<1>2. /\ found \in Seq(Ops)
      /\ \A x : In(found, x) => x \in timers \cup {Descriptor}
      /\ \A x \in timers : In(found, x)
      /\ \A x : Once(found, x)
  BY FoundLists
<1>3. ASSUME NEW x \in timers \cup {Descriptor}
      PROVE  x # Task /\ ~In(queue, x) /\ \A u \in Threads : ~In(private[u], x)
  <2>1. CASE x = Descriptor
    BY <1>0, <2>1, Lists DEF Placed, TaskOnce, Reacting
  <2>2. CASE x \in timers
    BY <1>0, <2>2, Lists DEF Placed, HandlerOnce, InOnePlace, Listed
  <2> QED
    BY <1>1, <2>1, <2>2
<1>4. ASSUME NEW u \in Threads, NEW y
      PROVE  /\ In(private'[u], y) <=> In(private[u], y) \/ (u = t /\ In(found, y))
             /\ Once(private[u], y) => Once(private'[u], y)
  <2>1. CASE u = t
    <3>1. private[t] \in Seq(Ops) /\ private'[t] = private[t] \o found
      BY <1>0, <1>1
    <3>2. /\ In(private[t] \o found, y) <=> In(private[t], y) \/ In(found, y)
          /\ Once(private[t] \o found, y)
               <=> Once(private[t], y) /\ Once(found, y) /\ ~(In(private[t], y) /\ In(found, y))
      BY <1>2, <3>1, InConcat
    <3>3. ~(In(private[t], y) /\ In(found, y))
      BY <1>2, <1>3
    <3> QED
      BY <1>2, <2>1, <3>1, <3>2, <3>3
  <2>2. CASE u # t
    BY <1>0, <1>1, <2>2
  <2> QED
    BY <2>1, <2>2
<1>5. ListedOnce'
  <2> SUFFICES ASSUME NEW op \in Handlers \cup {Descriptor}
               PROVE  /\ Once(queue', op)
                      /\ \A u \in Threads : /\ Once(private'[u], op)
                                            /\ ~(In(queue', op) /\ In(private'[u], op))
                      /\ \A u, v \in Threads :
                           In(private'[u], op) /\ In(private'[v], op) => u = v
    BY DEF ListedOnce
  <2>1. In(found, op) => ~In(queue, op) /\ \A u \in Threads : ~In(private[u], op)
    BY <1>2, <1>3
  <2> QED
    BY <1>0, <1>4, <2>1 DEF ListedOnce, Placed
<1>6. TaskOnce'
  <2>1. ~In(found, Task)
    BY <1>2, <1>3
  <2>2. \A u \in Threads : ~In(private'[u], Task)
    BY <1>4, <2>1 DEF TaskOnce, Placed
  <2>3. \A u \in Threads : In(private'[u], Descriptor) => pc'[u] = "reap"
    BY <1>0, <1>4 DEF TaskOnce, Placed
  <2> QED
    BY <1>0, <2>2, <2>3 DEF TaskOnce, Placed, Reacting
<1>7. ASSUME NEW h \in Handlers PROVE InOnePlace(h)' /\ (Exists(h)' <=> Exists(h))
  <2>1. InOnePlace(h) /\ h # Descriptor
    BY Lists DEF Placed, HandlerOnce
  <2>2. In(found, h) <=> h \in timers
    BY <1>2, <2>1
  <2>3. Listed(h)' <=> Listed(h) \/ h \in timers
    BY <1>0, <1>4, <2>2 DEF Listed
  <2>4. (h \in io' <=> h \in io /\ h \notin timers) /\ (h \in timers => h \in io)
    BY <1>1
  <2> QED
    BY <1>0, <2>1, <2>3, <2>4 DEF InOnePlace, Executed, BeingPushed, Exists
<1> QED
  BY <1>5, <1>6, <1>7 DEF Placed, HandlerOnce, NoneEnds

\* The task is queued for the first time.
LEMMA InitTaskPlaced ==
  ASSUME TypeOK, Placed, NEW a \in Actors, InitTask(a)
  PROVE  Placed' /\ NoneEnds
<1>0. /\ queue' = Append(queue, Task) /\ ~hasTask /\ hasTask'
      /\ UNCHANGED <<pc, private, io, cur, pushing, handlers>>
  BY DEF InitTask
<1>1. ~In(queue, Task) /\ \A t \in Threads : pc[t] \notin Reacting
  BY <1>0 DEF Placed, TaskOnce
<1>2. queue \in Seq(Ops) /\ Task \in Ops
  BY Lists
<1>3. \A x : /\ In(queue', x) <=> In(queue, x) \/ x = Task
             /\ Once(queue, x) => Once(queue', x)
  BY <1>0, <1>1, <1>2, InAppend
<1>4. Before(queue')
  <2> DEFINE e == <<Task>>
  <2>1. e \in Seq(Ops) /\ Before(e) /\ queue' = queue \o e
    BY <1>0, <1>2, AppendIsConcat, Lists DEF Before
  <2>2. Before(queue) /\ ~In(queue, Task)
    BY <1>1 DEF Placed, TaskOnce
  <2> HIDE DEF e
  <2> QED
    BY <1>2, <2>1, <2>2, BeforeConcat
<1>5. ListedOnce'
  <2> SUFFICES ASSUME NEW op \in Handlers \cup {Descriptor}
               PROVE  /\ Once(queue', op)
                      /\ \A u \in Threads : /\ Once(private'[u], op)
                                            /\ ~(In(queue', op) /\ In(private'[u], op))
                      /\ \A u, v \in Threads :
                           In(private'[u], op) /\ In(private'[v], op) => u = v
    BY DEF ListedOnce
  <2>1. op # Task
    BY Lists
  <2> QED
    BY <1>0, <1>3, <2>1 DEF ListedOnce, Placed
<1>6. TaskOnce'
  BY <1>0, <1>1, <1>3, <1>4 DEF TaskOnce, Placed
<1>7. ASSUME NEW h \in Handlers PROVE InOnePlace(h)' /\ (Exists(h)' <=> Exists(h))
  <2>1. h # Task
    BY Lists
  <2>2. Listed(h)' <=> Listed(h)
    BY <1>0, <1>3, <2>1 DEF Listed
  <2>3. Handled(h)
    BY <1>0, <2>2 DEF Handled
  <2> QED
    BY <1>0, <2>3, HandledStays DEF Placed
<1> QED
  BY <1>5, <1>6, <1>7 DEF Placed, HandlerOnce, NoneEnds

\* The queue is destroyed.
LEMMA ShutdownPlaced ==
  ASSUME TypeOK, Placed, ShutdownService
  PROVE  Placed'
<1>0. /\ queue' = <<>> /\ hasTask' = FALSE
      /\ \A t \in Threads : pc[t] = "out"
      /\ UNCHANGED <<pc, private, io, cur, pushing, handlers>>
  BY Lists DEF ShutdownService
<1>1. \A x : ~In(queue', x) /\ Once(queue', x)
  BY <1>0, InShort
<1>2. ListedOnce'
  BY <1>0, <1>1 DEF ListedOnce, Placed
<1>3. Before(queue')
  BY <1>1 DEF Before, In
<1>4. TaskOnce'
  BY <1>0, <1>1, <1>3 DEF TaskOnce, Placed, Reacting
<1>5. ASSUME NEW h \in Handlers PROVE InOnePlace(h)'
  <2>1. InOnePlace(h)
    BY DEF Placed, HandlerOnce
  <2>2. Listed(h)' => Listed(h)
    BY <1>0, <1>1 DEF Listed
  <2> QED
    BY <1>0, <2>1, <2>2 DEF InOnePlace, Executed, BeingPushed
<1> QED
  BY <1>2, <1>4, <1>5 DEF Placed, HandlerOnce

\* A thread that leaves puts all its operations on the shared queue.
LEMMA GivesBack ==
  ASSUME TypeOK, Placed, NEW t \in Threads,
         CleanUp(t, Pushed(t)), pc[t] # "task", pc' = [pc EXCEPT ![t] = "out"],
         UNCHANGED <<io, cur, pushing, handlers, hasTask>>
  PROVE  Placed' /\ NoneEnds
<1>0. DOMAIN pc = Actors /\ t \in Actors
  BY Lists DEF TypeOK
<1>1. (\A x \in Ops : Once(Pushed(t), x)) /\ Before(Pushed(t))
  BY PushedOnce DEF Placed
<1>2. /\ ListedOnce' /\ queue' = Pushed(t)
      /\ \A u \in Threads : \A x : In(private'[u], x) <=> u # t /\ In(private[u], x)
  BY <1>1, CleanUpLists DEF Placed
<1>3. \A x : In(queue', x) <=>
             In(queue, x) \/ In(private[t], x) \/ (pc[t] = "reap" /\ x = Task)
  BY <1>2, PushedIs
<1>4. TaskOnce'
  <2>1. Once(queue', Task) /\ Before(queue')
    BY <1>1, <1>2, Lists
  <2>2. \A u \in Threads : pc'[u] \in Reacting <=> u # t /\ pc[u] \in Reacting
    BY <1>0, Lists DEF Reacting
  <2>3. \A u \in Threads : u # t => pc'[u] = pc[u]
    BY <1>0, Lists
  <2>4. In(private[t], Descriptor) => pc[t] = "reap"
    BY DEF Placed, TaskOnce
  <2>5. pc[t] = "reap" => \A u \in Threads : pc'[u] \notin Reacting
    BY <2>2 DEF Placed, TaskOnce, Reacting
  <2>6. \A u \in Threads : pc'[u] \in Reacting =>
          hasTask' /\ ~In(queue', Task) /\ ~In(queue', Descriptor)
    BY <1>3, <2>2, <2>4, <2>5, Lists DEF Placed, TaskOnce
  <2>7. hasTask' => In(queue', Task) \/ \E u \in Threads : pc'[u] \in Reacting
    BY <1>3, <2>2 DEF Placed, TaskOnce, Reacting
  <2>8. In(queue', Task) => hasTask'
    BY <1>3 DEF Placed, TaskOnce, Reacting
  <2>9. \A u \in Threads : ~In(private'[u], Task)
    BY <1>2 DEF Placed, TaskOnce
  <2>10. \A u \in Threads : In(private'[u], Descriptor) => pc'[u] = "reap"
    BY <1>2, <2>3 DEF Placed, TaskOnce
  <2>11. \A u, v \in Threads : pc'[u] \in Reacting /\ pc'[v] \in Reacting => u = v
    BY <2>2 DEF Placed, TaskOnce
  <2> QED
    BY <2>1, <2>6, <2>7, <2>8, <2>9, <2>10, <2>11 DEF TaskOnce
<1>5. ASSUME NEW h \in Handlers PROVE InOnePlace(h)' /\ (Exists(h)' <=> Exists(h))
  <2>1. h # Task
    BY Lists
  <2>2. Listed(h)' <=> Listed(h)
    BY <1>2, <1>3, <2>1 DEF Listed
  <2>3. Handled(h)
    BY <2>2 DEF Handled
  <2> QED
    BY <2>3, HandledStays DEF Placed
<1> QED
  BY <1>2, <1>4, <1>5 DEF Placed, HandlerOnce, NoneEnds

\* A thread takes the first operation of all there are.
LEMMA TakesFirst ==
  ASSUME TypeOK, Placed, NEW t \in Threads, Pushed(t) # <<>>, CleanUp(t, Tail(Pushed(t)))
  PROVE  /\ ListedOnce' /\ Once(queue', Task) /\ Before(queue')
         /\ Head(Pushed(t)) \in Ops /\ In(Pushed(t), Head(Pushed(t)))
         /\ \A x \in Ops : In(queue', x) <=> In(Pushed(t), x) /\ x # Head(Pushed(t))
         /\ \A u \in Threads : \A x : In(private'[u], x) <=> u # t /\ In(private[u], x)
         /\ Head(Pushed(t)) = Task => ~In(queue', Descriptor)
<1> DEFINE p == Pushed(t)
<1>1. (\A x \in Ops : Once(p, x)) /\ Before(p) /\ p \in Seq(Ops) /\ p # <<>>
  BY PushedOnce, PushedIs DEF Placed
<1>2. CleanUp(t, Tail(p))
  OBVIOUS
<1> HIDE DEF p
<1>3. /\ Head(p) \in Ops /\ In(p, Head(p))
      /\ \A x : In(p, x) <=> In(Tail(p), x) \/ x = Head(p)
      /\ \A x : Once(p, x) => Once(Tail(p), x) /\ ~(In(Tail(p), x) /\ x = Head(p))
  BY <1>1, InTail
<1>4. Before(Tail(p)) /\ (Head(p) = Task => ~In(Tail(p), Descriptor))
  BY <1>1, BeforeTail
<1>5. (\A x \in Ops : Once(Tail(p), x)) /\ \A x : In(Tail(p), x) => In(p, x)
  BY <1>1, <1>3
<1>6. /\ ListedOnce' /\ queue' = Tail(p)
      /\ \A u \in Threads : \A x : In(private'[u], x) <=> u # t /\ In(private[u], x)
  BY <1>2, <1>5, CleanUpLists DEF Placed, p
<1>7. \A x \in Ops : In(queue', x) <=> In(p, x) /\ x # Head(p)
  BY <1>1, <1>3, <1>6
<1>8. Once(queue', Task)
  BY <1>5, <1>6, Lists
<1> QED
  BY <1>3, <1>4, <1>6, <1>7, <1>8 DEF p

\* The task is taken.
LEMMA TakeTaskPlaced ==
  ASSUME TypeOK, Placed, NEW t \in Threads, TakeTask(t)
  PROVE  Placed' /\ NoneEnds
<1>0. /\ DOMAIN pc = Actors /\ t \in Actors /\ pc[t] \in {"loop", "reap"}
      /\ Pushed(t) # <<>> /\ Head(Pushed(t)) = Task /\ CleanUp(t, Tail(Pushed(t)))
      /\ pc' = [pc EXCEPT ![t] = "task"]
      /\ UNCHANGED <<cur, pushing, io, hasTask, handlers>>
  BY Lists DEF TypeOK, TakeTask, Deciding, At, Goto
<1>1. /\ ListedOnce' /\ Once(queue', Task) /\ Before(queue')
      /\ In(Pushed(t), Task) /\ ~In(queue', Descriptor)
      /\ \A x \in Ops : In(queue', x) <=> In(Pushed(t), x) /\ x # Task
      /\ \A u \in Threads : \A x : In(private'[u], x) <=> u # t /\ In(private[u], x)
  BY <1>0, TakesFirst
<1>2. \A x : In(Pushed(t), x) <=>
             In(queue, x) \/ In(private[t], x) \/ (pc[t] = "reap" /\ x = Task)
  BY PushedIs
<1>3. ~In(private[t], Task) /\ ~In(queue', Task)
  BY <1>1, Lists DEF Placed, TaskOnce
<1>4. /\ hasTask'
      /\ \A u \in Threads : u # t => pc[u] \notin Reacting
  BY <1>0, <1>1, <1>2, <1>3 DEF Placed, TaskOnce, Reacting
<1>5. /\ pc'[t] = "task" /\ \A u \in Threads : u # t => pc'[u] = pc[u]
  BY <1>0, Lists
<1>6. TaskOnce'
  <2>1. \A u \in Threads : pc'[u] \in Reacting <=> u = t
    BY <1>4, <1>5 DEF Reacting
  <2>2. \A u \in Threads : ~In(private'[u], Task) /\ ~In(private'[u], Descriptor)
    BY <1>1, <1>4 DEF Placed, TaskOnce, Reacting
  <2> QED
    BY <1>1, <1>3, <1>4, <2>1, <2>2 DEF TaskOnce
<1>7. ASSUME NEW h \in Handlers PROVE InOnePlace(h)' /\ (Exists(h)' <=> Exists(h))
  <2>1. h # Task /\ h \in Ops
    BY Lists
  <2>2. Listed(h)' <=> Listed(h)
    BY <1>1, <1>2, <2>1 DEF Listed
  <2>3. Handled(h)
    BY <1>0, <2>2 DEF Handled
  <2> QED
    BY <1>0, <2>3, HandledStays DEF Placed
<1> QED
  BY <1>1, <1>6, <1>7 DEF Placed, HandlerOnce, NoneEnds

\* Another operation is taken.
LEMMA TakeOpPlaced ==
  ASSUME TypeOK, Control, Placed, NEW t \in Threads, TakeOp(t)
  PROVE  Placed' /\ NoneEnds
<1> DEFINE k == Head(Pushed(t))
<1>0. /\ DOMAIN pc = Actors /\ t \in Actors /\ pc[t] \in {"loop", "reap"}
      /\ cur \in [Threads -> Handlers \cup {Descriptor, NoOp}]
      /\ Pushed(t) # <<>> /\ k # Task /\ CleanUp(t, Tail(Pushed(t)))
      /\ pc' = [pc EXCEPT ![t] = "op"]
      /\ cur' = [cur EXCEPT ![t] = k]
      /\ UNCHANGED <<pushing, io, hasTask, handlers>>
  BY Lists DEF TypeOK, TakeOp, Deciding, At, Goto, thread
<1>1. /\ ListedOnce' /\ Once(queue', Task) /\ Before(queue')
      /\ k \in Ops /\ In(Pushed(t), k)
      /\ \A x \in Ops : In(queue', x) <=> In(Pushed(t), x) /\ x # k
      /\ \A u \in Threads : \A x : In(private'[u], x) <=> u # t /\ In(private[u], x)
  BY <1>0, TakesFirst
<1>2. \A x : In(Pushed(t), x) <=>
             In(queue, x) \/ In(private[t], x) \/ (pc[t] = "reap" /\ x = Task)
  BY PushedIs
<1> HIDE DEF k
<1>5. /\ pc'[t] = "op" /\ \A u \in Threads : u # t => pc'[u] = pc[u]
  BY <1>0, Lists
<1>6. TaskOnce'
  <2>1. \A u \in Threads : pc'[u] \in Reacting <=> u # t /\ pc[u] \in Reacting
    BY <1>5 DEF Reacting
  <2>2. \A u \in Threads : ~In(private'[u], Task)
    BY <1>1 DEF Placed, TaskOnce
  <2>3. \A u \in Threads : In(private'[u], Descriptor) => pc'[u] = "reap"
    BY <1>1, <1>5 DEF Placed, TaskOnce
  <2>4. In(private[t], Descriptor) => pc[t] = "reap"
    BY DEF Placed, TaskOnce
  <2>5. In(queue', Task) <=> In(queue, Task) \/ pc[t] = "reap"
    BY <1>0, <1>1, <1>2, Lists DEF Placed, TaskOnce
  <2>6. \A u \in Threads : pc'[u] \in Reacting =>
          hasTask' /\ ~In(queue', Task) /\ ~In(queue', Descriptor)
    BY <1>0, <1>1, <1>2, <2>1, <2>4, <2>5, Lists DEF Placed, TaskOnce, Reacting
  <2>7. In(queue', Task) => hasTask'
    BY <1>0, <2>5 DEF Placed, TaskOnce, Reacting
  <2>8. hasTask' => In(queue', Task) \/ \E u \in Threads : pc'[u] \in Reacting
    BY <1>0, <2>1, <2>5 DEF Placed, TaskOnce, Reacting
  <2>9. \A u, v \in Threads : pc'[u] \in Reacting /\ pc'[v] \in Reacting => u = v
    BY <2>1 DEF Placed, TaskOnce
  <2> QED
    BY <1>1, <2>2, <2>3, <2>6, <2>7, <2>8, <2>9 DEF TaskOnce
<1>7. ASSUME NEW h \in Handlers PROVE InOnePlace(h)' /\ (Exists(h)' <=> Exists(h))
  <2>1. h # Task /\ h \in Ops /\ h # NoOp
    BY Lists
  <2>2. InOnePlace(h)
    BY DEF Placed, HandlerOnce
  <2>3. cur[t] = NoOp
    BY <1>0 DEF Control, Working
  <2>4. \A u \in Threads : cur'[u] = h <=> cur[u] = h \/ (u = t /\ h = k)
    BY <1>0, <2>1, <2>3
  <2>5. Executed(h)' <=> Executed(h) \/ h = k
    BY <2>4 DEF Executed
  <2>6. BeingPushed(h)' <=> BeingPushed(h)
    BY <1>0 DEF BeingPushed
  <2>7. h = k => Listed(h)
    BY <1>1, <1>2, <2>1 DEF Listed
  <2>8. Listed(h)' <=> Listed(h) /\ h # k
    <3>1. h = k => ~Listed(h)'
      <4>1. ASSUME h = k, NEW u \in Threads, In(private'[u], h) PROVE FALSE
        <5>1. u # t /\ In(private[u], h) /\ (In(queue, h) \/ In(private[t], h))
          BY <1>1, <1>2, <2>1, <4>1
        <5> QED
          BY <5>1 DEF Placed, ListedOnce
      <4> QED
        BY <1>1, <2>1, <4>1 DEF Listed
    <3>2. h # k => (Listed(h)' <=> Listed(h))
      BY <1>1, <1>2, <2>1 DEF Listed
    <3> QED
      BY <3>1, <3>2
  <2>9. h = k => \A u \in Threads : cur[u] # h
    BY <2>2, <2>7 DEF InOnePlace, Executed
  <2> QED
    BY <1>0, <2>2, <2>4, <2>5, <2>6, <2>7, <2>8, <2>9 DEF InOnePlace, Exists
<1> QED
  BY <1>1, <1>6, <1>7 DEF Placed, HandlerOnce, NoneEnds

\* Every step keeps every operation in one place.
LEMMA PlacedKept ==
  ASSUME TypeOK, Control, Placed, [Next]_vars
  PROVE  Placed'
<1>1. ASSUME NEW t \in Threads, LeaveStopped(t) \/ PollNothing(t) PROVE Placed'
  <2>1. /\ CleanUp(t, Pushed(t)) /\ pc[t] # "task" /\ pc' = [pc EXCEPT ![t] = "out"]
        /\ UNCHANGED <<io, cur, pushing, handlers, hasTask>>
    BY <1>1 DEF LeaveStopped, PollNothing, Deciding, At, Return
  <2> QED
    BY <2>1, GivesBack
<1>2. ASSUME NEW t \in Threads, Leave(t) PROVE Placed'
  <2>1. /\ CleanUp(t, queue \o private[t]) /\ pc[t] = "leave" /\ pc' = [pc EXCEPT ![t] = "out"]
        /\ UNCHANGED <<io, cur, pushing, handlers, hasTask>>
    BY <1>2 DEF Leave, At, Return
  <2>2. CleanUp(t, Pushed(t))
    BY <2>1, PushedIs
  <2> QED
    BY <2>1, <2>2, GivesBack
<1> QED
  BY NextCases, QuietSteps, PushPlaced, PostPlaced, StartIoPlaced, CancelPlaced, InitTaskPlaced,
     <1>1, <1>2, TakeTaskPlaced, TakeOpPlaced, PerformIoPlaced, WorkCleanupPlaced,
     ContinuePlaced, TaskEventPlaced, ShutdownPlaced, Zenon

-----------------------------------------------------------------------------
(* Control *)

\* Waking threads changes who sleeps, never who waits.
LEMMA EventControl ==
  ASSUME Control, NEW a \in Actors,
         \/ SignalOne(a) \/ UNCHANGED event \/ StopAllThreads \/ \E b : WakeOne(a, b)
         \/ \E ops, c : Submit(a, ops, c)
  PROVE  asleep' \subseteq asleep /\ signalling' \subseteq signalling \cup {a}
BY DEF SignalOne, event, StopAllThreads, WakeOne, Submit

\* Actor a goes to l; everybody else stays where it is, and nobody falls asleep but
\* the actor that goes to wait.
Moved(a, l) ==
  /\ ~shutdown /\ shutdown' = shutdown
  /\ pc' = [pc EXCEPT ![a] = l]
  /\ \A u \in Threads : u # a => cur'[u] = cur[u]
  /\ \A b \in Actors : b # a => pushing'[b] = pushing[b]
  /\ asleep' \subseteq asleep \cup {a}
  /\ l # "wait" => a \notin asleep'

\* What the new place of the one actor that moves has to go with.
LEMMA MovedControl ==
  ASSUME TypeOK, Control, NEW a \in Actors, NEW l, Moved(a, l),
         pushing'[a] # NoOp <=> l = "push",
         \/ a \in Clients /\ l \in {"out", "push", "stop"}
         \/ /\ a \in Threads /\ a \notin Clients
            /\ cur'[a] # NoOp <=> l \in Working
            /\ cur'[a] = Descriptor => l # "push"
  PROVE  Control'
<1>1. /\ pc'[a] = l /\ \A b \in Actors : b # a => pc'[b] = pc[b]
      /\ Threads \subseteq Actors /\ Clients \subseteq Actors
      /\ asleep \subseteq Threads /\ Threads \cap Clients = {}
  BY SchedulerAssumption DEF Moved, TypeOK, Actors
<1>2. \A u \in Threads : /\ cur'[u] # NoOp <=> pc'[u] \in Working
                         /\ cur'[u] = Descriptor => pc'[u] # "push"
  <2> SUFFICES ASSUME NEW u \in Threads
               PROVE  /\ cur'[u] # NoOp <=> pc'[u] \in Working
                      /\ cur'[u] = Descriptor => pc'[u] # "push"
    OBVIOUS
  <2>1. CASE u = a
    BY <1>1, <2>1
  <2>2. CASE u # a
    BY <1>1, <2>2 DEF Moved, Control
  <2> QED
    BY <2>1, <2>2
<1>3. \A b \in Actors : pushing'[b] # NoOp <=> pc'[b] = "push"
  BY <1>1 DEF Moved, Control
<1>4. \A b \in Clients : pc'[b] \in {"out", "push", "stop"}
  BY <1>1 DEF Moved, Control
<1>5. ASSUME NEW u \in asleep' PROVE u \in Waiters'
  <2>1. CASE u = a
    <3>1. l = "wait"
      BY <1>5, <2>1 DEF Moved
    <3> QED
      BY <1>1, <2>1, <3>1 DEF Waiters
  <2>2. CASE u # a
    BY <1>1, <1>5, <2>2 DEF Moved, Control, Waiters
  <2> QED
    BY <2>1, <2>2
<1> QED
  BY <1>2, <1>3, <1>4, <1>5 DEF Moved, Control

\* A call returns: it was not executing anything.
LEMMA ReturnControl ==
  ASSUME TypeOK, Control, NEW t \in Threads, pc[t] \in {"loop", "reap", "leave"},
         pc' = [pc EXCEPT ![t] = "out"], asleep' \subseteq asleep,
         UNCHANGED <<cur, pushing, shutdown>>
  PROVE  Control'
<1>1. t \in Actors /\ t \notin Clients
  BY SchedulerAssumption DEF Actors
<1>2. /\ ~shutdown /\ cur[t] = NoOp /\ pushing[t] = NoOp /\ t \notin asleep
  BY <1>1 DEF Control, Working, Waiters
<1>3. Moved(t, "out")
  BY <1>2 DEF Moved
<1> QED
  BY <1>1, <1>2, <1>3, MovedControl DEF Working

\* Every step keeps threads and what they execute together.
LEMMA ControlKept ==
  ASSUME TypeOK, Control, [Next]_vars
  PROVE  Control'
<1> USE DEF Control, Goto, At, Working, Waiters
<1>0. /\ DOMAIN pc = Actors /\ DOMAIN cur = Threads /\ DOMAIN pushing = Actors
      /\ Threads \subseteq Actors /\ Clients \subseteq Actors
      /\ Threads \cap Clients = {} /\ Actors = Threads \cup Clients
      /\ pc = [a \in Actors |-> pc[a]] /\ asleep \subseteq Threads
      /\ cur = [t \in Threads |-> cur[t]] /\ pushing = [a \in Actors |-> pushing[a]]
      /\ NoOp \notin Ops /\ Handlers \subseteq Ops /\ Descriptor \in Ops /\ Descriptor \notin Handlers
  BY SchedulerAssumption, Lists DEF TypeOK, Actors
<1>1. CASE UNCHANGED vars
  BY <1>1 DEF vars, event, fixed
<1>2. ASSUME NEW a \in Actors, Signal(a) PROVE Control'
  BY <1>0, <1>2 DEF Signal, fixed
<1>3. ASSUME NEW a \in Actors, Push(a) PROVE Control'
  <2>1. asleep' \subseteq asleep /\ signalling' \subseteq signalling \cup {a}
    BY <1>3, EventControl DEF Push
  <2>2. /\ pc[a] = "push" /\ ~shutdown /\ shutdown' = shutdown /\ cur' = cur
        /\ pushing' = [pushing EXCEPT ![a] = NoOp]
        /\ pc' = [pc EXCEPT ![a] = IF a \in Threads THEN "op" ELSE "out"]
    BY <1>3 DEF Push, fixed
  <2>3. a \notin asleep'
    BY <2>1, <2>2
  <2>4. pushing'[a] = NoOp /\ \A b \in Actors : b # a => pushing'[b] = pushing[b]
    BY <1>0, <2>2
  <2>5. CASE a \in Threads
    <3>1. Moved(a, "op")
      BY <2>1, <2>2, <2>3, <2>4, <2>5 DEF Moved
    <3>2. cur'[a] # NoOp
      BY <2>2, <2>5
    <3> QED
      BY <1>0, <2>4, <2>5, <3>1, <3>2, MovedControl
  <2>6. CASE a \in Clients
    <3>1. Moved(a, "out")
      BY <1>0, <2>1, <2>2, <2>3, <2>4, <2>6 DEF Moved
    <3> QED
      BY <2>4, <2>6, <3>1, MovedControl
  <2> QED
    BY <1>0, <2>5, <2>6
<1>4. ASSUME NEW a \in Actors, StopIdle(a) PROVE Control'
  <2>1. asleep' \subseteq asleep /\ signalling' \subseteq signalling \cup {a}
    BY <1>4, EventControl DEF StopIdle
  <2>2. /\ pc[a] \in {"stop", "quit"} /\ ~shutdown
        /\ UNCHANGED <<shutdown, cur, pushing, signalling>>
        /\ \E l \in {"out", "loop", "leave"} :
             pc' = [pc EXCEPT ![a] = l] /\ (a \in Clients => l = "out")
    <3>1. a \in Clients => pc[a] # "quit"
      OBVIOUS
    <3> QED
      BY <1>4, <3>1 DEF StopIdle, fixed, Return, AfterOp, StopAllThreads
  <2>3. PICK l \in {"out", "loop", "leave"} :
          pc' = [pc EXCEPT ![a] = l] /\ (a \in Clients => l = "out")
    BY <2>2
  <2>4. a \notin asleep' /\ pushing'[a] = NoOp /\ (a \in Threads => cur'[a] = NoOp)
    BY <1>0, <2>1, <2>2
  <2>5. Moved(a, l)
    BY <2>1, <2>2, <2>3, <2>4 DEF Moved
  <2> QED
    BY <1>0, <2>3, <2>4, <2>5, MovedControl
<1>6. ASSUME NEW a \in Actors, StartIo(a) PROVE Control'
  BY <1>0, <1>6 DEF StartIo, fixed, event
<1>8. ASSUME NEW a \in Actors, Stop(a) PROVE Control'
  <2>1. asleep' \subseteq asleep /\ signalling' \subseteq signalling \cup {a}
    BY <1>8, EventControl DEF Stop
  <2> QED
    BY <1>0, <1>8, <2>1 DEF Stop, fixed, Free
<1>10. ASSUME NEW a \in Actors, Hold(a) PROVE Control'
  BY <1>0, <1>10 DEF Hold, fixed, event
<1>11. ASSUME NEW a \in Actors, Release(a) PROVE Control'
  <2>1. /\ a \in Clients /\ pc[a] = "out" /\ ~shutdown
        /\ UNCHANGED <<cur, pushing, asleep, shutdown>>
        /\ pc' = [pc EXCEPT ![a] = IF work = 1 THEN "stop" ELSE "out"]
    BY <1>0, <1>11 DEF Release, Free, fixed, event, TypeOK
  <2>2. PICK l \in {"stop", "out"} : pc' = [pc EXCEPT ![a] = l]
    BY <2>1
  <2>3. a \notin asleep' /\ pushing'[a] = NoOp
    BY <1>0, <2>1
  <2>4. Moved(a, l)
    BY <2>1, <2>2, <2>3 DEF Moved
  <2> QED
    BY <2>1, <2>2, <2>3, <2>4, MovedControl
<1>12. ASSUME NEW a \in Actors, Restart(a) PROVE Control'
  BY <1>12 DEF Restart, fixed, event
<1>13. ASSUME NEW t \in Threads, Woken(t) PROVE Control'
  <2>1. pc[t] = "wait" /\ t \notin asleep /\ UNCHANGED <<cur, pushing, signalling, shutdown>> /\ ~shutdown
    BY <1>0, <1>13 DEF Woken, fixed
  <2>2. CASE bit
    <3>1. pc' = [pc EXCEPT ![t] = "loop"] /\ asleep' = asleep
      BY <1>13, <2>2 DEF Woken
    <3>2. Moved(t, "loop")
      BY <2>1, <3>1 DEF Moved
    <3> QED
      BY <1>0, <2>1, <3>2, MovedControl
  <2>3. CASE ~bit
    <3>1. pc' = pc /\ asleep' = asleep \cup {t}
      BY <1>13, <2>3 DEF Woken
    <3> QED
      BY <1>0, <2>1, <3>1
  <2> QED
    BY <2>2, <2>3
<1>14. ASSUME NEW t \in Threads, LeaveStopped(t) PROVE Control'
  <2>1. /\ pc[t] \in {"loop", "reap"} /\ pc' = [pc EXCEPT ![t] = "out"]
        /\ UNCHANGED <<cur, pushing, asleep, shutdown>>
    BY <1>14 DEF LeaveStopped, Deciding, Return, fixed, event
  <2> QED
    BY <1>0, <2>1, ReturnControl
<1>15. ASSUME NEW t \in Threads, TakeTask(t) PROVE Control'
  <2>1. asleep' \subseteq asleep /\ signalling' \subseteq signalling \cup {t}
    BY <1>0, <1>15, EventControl DEF TakeTask
  <2> QED
    BY <1>0, <1>15, <2>1 DEF TakeTask, Deciding, fixed
<1>16. ASSUME NEW t \in Threads, PollNothing(t) PROVE Control'
  <2>1. asleep' \subseteq asleep /\ signalling' \subseteq signalling \cup {t}
    BY <1>0, <1>16, EventControl DEF PollNothing
  <2>2. /\ pc[t] = "reap" /\ pc' = [pc EXCEPT ![t] = "out"]
        /\ UNCHANGED <<cur, pushing, shutdown>>
    BY <1>16 DEF PollNothing, Return, fixed
  <2> QED
    BY <1>0, <2>1, <2>2, ReturnControl
<1>17. ASSUME NEW t \in Threads, TakeOp(t) PROVE Control'
  <2>1. asleep' \subseteq asleep /\ signalling' \subseteq signalling \cup {t}
    BY <1>0, <1>17, EventControl DEF TakeOp
  <2>2. Head(Pushed(t)) \in Ops
    BY <1>17, PushedIs, HeadTailProperties DEF TakeOp
  <2>3. /\ pc[t] \in {"loop", "reap"} /\ pc' = [pc EXCEPT ![t] = "op"]
        /\ cur' = [cur EXCEPT ![t] = Head(Pushed(t))] /\ UNCHANGED <<pushing, shutdown>>
    BY <1>17 DEF TakeOp, Deciding, fixed
  <2>4. ~shutdown /\ t \notin asleep' /\ pushing'[t] = NoOp /\ cur'[t] # NoOp
    BY <1>0, <2>1, <2>2, <2>3
  <2>5. \A u \in Threads : u # t => cur'[u] = cur[u]
    BY <1>0, <2>3
  <2>6. Moved(t, "op")
    BY <2>1, <2>3, <2>4, <2>5 DEF Moved
  <2> QED
    BY <1>0, <2>4, <2>6, MovedControl
<1>18. ASSUME NEW t \in Threads, FindEmpty(t) PROVE Control'
  <2>1. pc[t] = "loop" /\ UNCHANGED <<cur, pushing, signalling, shutdown>> /\ ~shutdown
    BY <1>0, <1>18 DEF FindEmpty, fixed, event
  <2>2. CASE Polling(t)
    <3>1. pc' = [pc EXCEPT ![t] = "out"] /\ asleep' = asleep
      BY <1>18, <2>2 DEF FindEmpty, Return, event
    <3>2. Moved(t, "out")
      BY <2>1, <3>1 DEF Moved
    <3> QED
      BY <1>0, <2>1, <3>2, MovedControl
  <2>3. CASE ~Polling(t)
    <3>1. pc' = [pc EXCEPT ![t] = "wait"] /\ asleep' = asleep \cup {t}
      BY <1>18, <2>3 DEF FindEmpty
    <3>2. Moved(t, "wait")
      BY <2>1, <3>1 DEF Moved
    <3> QED
      BY <1>0, <2>1, <3>2, MovedControl
  <2> QED
    BY <2>2, <2>3
<1>19. ASSUME NEW t \in Threads, TaskReturn(t) PROVE Control'
  BY <1>0, <1>19 DEF TaskReturn, fixed, event
<1>20. ASSUME NEW t \in Threads, PerformIo(t) PROVE Control'
  <2>1. asleep' \subseteq asleep /\ signalling' \subseteq signalling \cup {t}
    BY <1>0, <1>20, EventControl DEF PerformIo, event
  <2>2. io \subseteq Handlers
    BY DEF TypeOK
  <2>3. /\ pc[t] = "op" /\ cur[t] = Descriptor /\ ~shutdown /\ UNCHANGED <<pushing, shutdown>>
        /\ \/ pc' = pc /\ \E h \in io : cur' = [cur EXCEPT ![t] = h]
           \/ pc' = [pc EXCEPT ![t] = "clean"] /\ cur' = cur
    BY <1>0, <1>20 DEF PerformIo, fixed
  <2>4. CASE pc' = pc /\ \E h \in io : cur' = [cur EXCEPT ![t] = h]
    <3>1. PICK h \in io : cur' = [cur EXCEPT ![t] = h]
      BY <2>4
    <3>2. h # NoOp /\ h # Descriptor
      BY <1>0, <2>2
    <3>3. cur'[t] = h /\ \A u \in Threads : u # t => cur'[u] = cur[u]
      BY <1>0, <3>1
    <3>4. \A u \in Threads : /\ cur'[u] # NoOp <=> pc'[u] \in Working
                             /\ cur'[u] = Descriptor => pc'[u] # "push"
      BY <2>3, <2>4, <3>2, <3>3
    <3>5. asleep' \subseteq Waiters'
      BY <2>1, <2>4
    <3> QED
      BY <2>3, <2>4, <3>4, <3>5
  <2>5. CASE pc' = [pc EXCEPT ![t] = "clean"] /\ cur' = cur
    BY <1>0, <2>1, <2>3, <2>5
  <2> QED
    BY <2>3, <2>4, <2>5
<1>21. ASSUME NEW t \in Threads, HandlerEnds(t) PROVE Control'
  BY <1>0, <1>21 DEF HandlerEnds, Free, fixed, event
<1>22. ASSUME NEW t \in Threads, WorkCleanup(t) PROVE Control'
  <2>1. /\ pc[t] = "clean" /\ cur' = [cur EXCEPT ![t] = NoOp]
        /\ \E l \in {"stop", "loop", "leave"} : pc' = [pc EXCEPT ![t] = l]
        /\ UNCHANGED <<pushing, asleep, shutdown>>
    BY <1>22 DEF WorkCleanup, AfterOp, fixed, event
  <2>2. PICK l \in {"stop", "loop", "leave"} : pc' = [pc EXCEPT ![t] = l]
    BY <2>1
  <2>3. ~shutdown /\ t \notin asleep' /\ pushing'[t] = NoOp /\ cur'[t] = NoOp
    BY <1>0, <2>1
  <2>4. \A u \in Threads : u # t => cur'[u] = cur[u]
    BY <1>0, <2>1
  <2>5. Moved(t, l)
    BY <2>1, <2>2, <2>3, <2>4 DEF Moved
  <2> QED
    BY <1>0, <2>2, <2>3, <2>5, MovedControl
<1>23. ASSUME NEW t \in Threads, Leave(t) PROVE Control'
  <2>1. /\ pc[t] = "leave" /\ pc' = [pc EXCEPT ![t] = "out"]
        /\ UNCHANGED <<cur, pushing, asleep, shutdown>>
    BY <1>23 DEF Leave, Return, fixed, event
  <2> QED
    BY <1>0, <2>1, ReturnControl
<1>25. ASSUME NEW t \in Threads, Spurious(t) PROVE Control'
  BY <1>0, <1>25 DEF Spurious, fixed
<1>26. ASSUME NEW t \in Threads, TaskEvent(t) PROVE Control'
  BY <1>0, <1>26 DEF TaskEvent, fixed, event
<1>27. ASSUME NEW t \in Threads, NEW c \in CallsOf[t], Enter(t, c) PROVE Control'
  BY ZenonT(40), <1>0, <1>27 DEF Enter, fixed, event
<1>28. CASE ShutdownService
  BY <1>0, <1>28 DEF ShutdownService, event
<1>5. ASSUME NEW a \in Actors, Post(a) PROVE Control'
  <2>0. handlers + 1 # NoOp
    BY SchedulerAssumption DEF TypeOK
  <2>1. CASE a \in Threads /\ oneThread
    <3>1. asleep' \subseteq asleep /\ signalling' \subseteq signalling \cup {a}
      BY <1>5, <2>1, EventControl DEF Post
    <3> QED
      BY <1>0, <1>5, <2>1, <3>1 DEF Post, Free, fixed
  <2>2. CASE ~(a \in Threads /\ oneThread)
    <3>1. /\ ~shutdown /\ UNCHANGED <<cur, asleep, signalling, shutdown>>
          /\ pushing' = [pushing EXCEPT ![a] = handlers + 1]
          /\ pc' = [pc EXCEPT ![a] = "push"]
          /\ \/ a \in Clients
             \/ a \in Threads /\ pc[a] = "op" /\ cur[a] # Descriptor
      BY <1>5, <2>2 DEF Post, Free, fixed, event
    <3>2. /\ pushing'[a] # NoOp /\ pc'[a] = "push"
          /\ \A b \in Actors : b # a => pushing'[b] = pushing[b] /\ pc'[b] = pc[b]
      BY <1>0, <2>0, <3>1
    <3>3. a \notin asleep
      BY <1>0, <3>1
    <3>4. \A u \in Threads : /\ cur'[u] # NoOp <=> pc'[u] \in Working
                             /\ cur'[u] = Descriptor => pc'[u] # "push"
      BY <1>0, <3>1, <3>2
    <3>5. asleep' \subseteq Waiters'
      <4>1. \A u \in asleep : u \in Threads /\ u # a /\ pc[u] = "wait"
        BY <3>3
      <4> QED
        BY <1>0, <3>1, <3>2, <4>1
    <3>6. \A b \in Actors : pushing'[b] # NoOp <=> pc'[b] = "push"
      BY <3>1, <3>2
    <3>7. \A b \in Clients : pc'[b] \in {"out", "push", "stop"}
      BY <1>0, <3>2
    <3> QED
      BY <3>1, <3>4, <3>5, <3>6, <3>7
  <2> QED
    BY <2>1, <2>2
<1>7. ASSUME NEW a \in Actors, Cancel(a) PROVE Control'
  <2>1. asleep' \subseteq asleep /\ signalling' \subseteq signalling \cup {a}
    BY <1>7, EventControl DEF Cancel
  <2> QED
    BY <1>0, <1>7, <2>1 DEF Cancel, Free, fixed
<1>9. ASSUME NEW a \in Actors, InitTask(a) PROVE Control'
  <2>1. asleep' \subseteq asleep /\ signalling' \subseteq signalling \cup {a}
    BY <1>9, EventControl DEF InitTask
  <2> QED
    BY <1>0, <1>9, <2>1 DEF InitTask, Free, fixed
<1>24. ASSUME NEW t \in Threads, Continue(t) PROVE Control'
  <2>1. asleep' \subseteq asleep /\ signalling' \subseteq signalling \cup {t}
    BY <1>0, <1>24, EventControl DEF Continue
  <2> QED
    BY <1>0, <1>24, <2>1 DEF Continue, Free, fixed
<1> QED
  BY NextCases, Zenon, <1>1, <1>2, <1>3, <1>4, <1>5, <1>6, <1>7, <1>8, <1>9, <1>10, <1>11,
     <1>12, <1>13, <1>14, <1>15, <1>16, <1>17, <1>18, <1>19, <1>20, <1>21, <1>22, <1>23,
     <1>24, <1>25, <1>26, <1>27, <1>28

\* A step that counts nothing in private takes nothing from a private queue that counts.
LEMMA PrivateStays ==
  ASSUME TypeOK, PrivateCount, handlers' = handlers \/ handlers' = handlers + 1,
         \A t \in Threads :
           \/ privateWork'[t] = 0 /\ Len(private'[t]) \in Nat
           \/ /\ privateWork'[t] = privateWork[t]
              /\ privateWork[t] # 0 => pc'[t] \in Working
              /\ Len(private'[t]) \in Nat /\ Len(private[t]) <= Len(private'[t])
  PROVE  PrivateCount'
<1>1. handlers \in Nat /\ \A t \in Threads : privateWork[t] \in Nat /\ Len(private[t]) \in Nat
  BY Lists DEF TypeOK
<1> SUFFICES ASSUME NEW t \in Threads
             PROVE  /\ privateWork'[t] # 0 => pc'[t] \in Working
                    /\ privateWork'[t] <= handlers'
                    /\ privateWork'[t] <= Len(private'[t])
  BY DEF PrivateCount
<1>2. /\ privateWork[t] <= handlers
      /\ privateWork[t] <= Len(private[t])
  BY DEF PrivateCount
<1>3. CASE privateWork'[t] = 0 /\ Len(private'[t]) \in Nat
  BY <1>1, <1>3
<1>4. CASE /\ privateWork'[t] = privateWork[t]
           /\ privateWork[t] # 0 => pc'[t] \in Working
           /\ Len(private'[t]) \in Nat /\ Len(private[t]) <= Len(private'[t])
  BY <1>1, <1>2, <1>4
<1> QED
  BY <1>3, <1>4

\* Private queues grow.
LEMMA SubmitLength ==
  ASSUME TypeOK, NEW a \in Actors, NEW ops \in Seq(Ops), NEW c, Submit(a, ops, c)
  PROVE  \A t \in Threads : /\ Len(private[t]) \in Nat /\ Len(private'[t]) \in Nat
                            /\ Len(private[t]) <= Len(private'[t])
                            /\ t = a /\ (oneThread \/ c) =>
                                 Len(private'[t]) = Len(private[t]) + Len(ops)
<1> SUFFICES ASSUME NEW t \in Threads
             PROVE  /\ Len(private[t]) \in Nat /\ Len(private'[t]) \in Nat
                    /\ Len(private[t]) <= Len(private'[t])
                    /\ t = a /\ (oneThread \/ c) =>
                         Len(private'[t]) = Len(private[t]) + Len(ops)
  OBVIOUS
<1>1. private[t] \in Seq(Ops) /\ Len(private[t]) \in Nat /\ Len(ops) \in Nat
  BY Lists
<1>2. Len(private[t] \o ops) = Len(private[t]) + Len(ops)
  BY <1>1, ConcatProperties
<1>3. private \in [Threads -> Seq(Ops)]
  BY DEF TypeOK
<1>4. CASE t = a /\ (oneThread \/ c)
  <2>1. private'[t] = private[t] \o ops
    BY <1>3, <1>4 DEF Submit
  <2> QED
    BY <1>1, <1>2, <2>1
<1>5. CASE ~(t = a /\ (oneThread \/ c))
  <2>1. private'[t] = private[t]
    BY <1>3, <1>5 DEF Submit
  <2> QED
    BY <1>1, <1>5, <2>1
<1> QED
  BY <1>4, <1>5

\* What a thread has started stays counted until work_cleanup.
LEMMA PrivateCountKept ==
  ASSUME TypeOK, Control, PrivateCount, [Next]_vars
  PROVE  PrivateCount'
<1> USE DEF Goto, At, Working
<1>0. /\ DOMAIN pc = Actors /\ pc = [a \in Actors |-> pc[a]]
      /\ Threads \subseteq Actors /\ Threads \cap Clients = {}
      /\ privateWork \in [Threads -> Nat] /\ private \in [Threads -> Seq(Ops)]
      /\ \A t \in Threads : Len(private[t]) \in Nat
      /\ handlers \in Nat
  BY SchedulerAssumption, Lists DEF TypeOK, Actors
<1>1. CASE UNCHANGED <<privateWork, private, handlers>> /\ \A t \in Threads : pc[t] \in Working => pc'[t] \in Working
  <2>1. \A t \in Threads : privateWork[t] # 0 => pc'[t] \in Working
    BY <1>1 DEF PrivateCount
  <2> QED
    BY <1>0, <1>1, <2>1, PrivateStays
<1>2. CASE \/ UNCHANGED vars
           \/ \E a \in Actors : Signal(a) \/ StopIdle(a) \/ Stop(a) \/ Hold(a) \/ Release(a) \/ Restart(a)
           \/ \E t \in Threads : \/ Woken(t) \/ FindEmpty(t) \/ TaskReturn(t) \/ HandlerEnds(t)
                                 \/ Spurious(t) \/ \E c \in CallsOf[t] : Enter(t, c)
  <2>1. UNCHANGED <<privateWork, private, handlers>>
    BY <1>2 DEF vars, Signal, StopIdle, Stop, Hold, Release, Restart, Woken, FindEmpty,
                TaskReturn, HandlerEnds, Spurious, Enter
  <2>2. ASSUME NEW u \in Threads, pc[u] \in Working PROVE pc'[u] \in Working
    <3>1. ASSUME NEW a \in Actors, StopIdle(a) PROVE pc'[u] \in Working
      BY <1>0, <2>2, <3>1 DEF StopIdle, Return, AfterOp
    <3>2. ASSUME NEW a \in Actors, Release(a) PROVE pc'[u] \in Working
      BY <1>0, <2>2, <3>2 DEF Release, TypeOK
    <3>3. ASSUME NEW a \in Actors, Signal(a) \/ Stop(a) \/ Hold(a) \/ Restart(a)
          PROVE pc'[u] \in Working
      BY <2>2, <3>3 DEF Signal, Stop, Hold, Restart
    <3>4. ASSUME NEW t \in Threads, Woken(t) \/ FindEmpty(t) \/ TaskReturn(t) \/ Spurious(t)
          PROVE pc'[u] \in Working
      BY <1>0, <2>2, <3>4 DEF Woken, FindEmpty, TaskReturn, Spurious, Return
    <3>5. ASSUME NEW t \in Threads, HandlerEnds(t) PROVE pc'[u] \in Working
      BY <1>0, <2>2, <3>5 DEF HandlerEnds
    <3>6. ASSUME NEW t \in Threads, NEW c \in CallsOf[t], Enter(t, c) PROVE pc'[u] \in Working
      BY <1>0, <2>2, <3>6 DEF Enter
    <3> QED
      BY <1>2, <2>2, <3>1, <3>2, <3>3, <3>4, <3>5, <3>6 DEF vars
  <2> QED
    BY <1>1, <2>1, <2>2
<1>3. ASSUME NEW t \in Threads, NEW q, CleanUp(t, q), handlers' = handlers,
             \A u \in Threads : u # t => pc'[u] = pc[u]
      PROVE  PrivateCount'
  <2>1. /\ privateWork'[t] = 0 /\ private'[t] = <<>>
        /\ \A u \in Threads : u # t => privateWork'[u] = privateWork[u] /\ private'[u] = private[u]
    BY <1>0, <1>3 DEF CleanUp
  <2>2. Len(<<>>) \in Nat
    OBVIOUS
  <2>3. \A u \in Threads : privateWork[u] # 0 => pc[u] \in Working
    BY DEF PrivateCount
  <2>4. ASSUME NEW u \in Threads
        PROVE  \/ privateWork'[u] = 0 /\ Len(private'[u]) \in Nat
               \/ /\ privateWork'[u] = privateWork[u]
                  /\ privateWork[u] # 0 => pc'[u] \in Working
                  /\ Len(private'[u]) \in Nat /\ Len(private[u]) <= Len(private'[u])
    <3>1. CASE u = t
      BY <2>1, <2>2, <3>1
    <3>2. CASE u # t
      <4>1. Len(private[u]) \in Nat
        BY <1>0
      <4> QED
        BY <1>3, <2>1, <2>3, <3>2, <4>1
    <3> QED
      BY <3>1, <3>2
  <2> QED
    BY <1>3, <2>4, PrivateStays
<1>4. ASSUME NEW t \in Threads, \/ LeaveStopped(t) \/ TakeTask(t) \/ PollNothing(t) \/ TakeOp(t) \/ Leave(t)
      PROVE  PrivateCount'
  <2>1. handlers' = handlers /\ \E q : CleanUp(t, q)
    BY <1>4 DEF LeaveStopped, TakeTask, PollNothing, TakeOp, Leave
  <2>2. \A u \in Threads : u # t => pc'[u] = pc[u]
    BY <1>0, <1>4 DEF LeaveStopped, TakeTask, PollNothing, TakeOp, Leave, Return
  <2> QED
    BY <1>3, <2>1, <2>2
<1>5. ASSUME NEW a \in Actors, StartIo(a) \/ InitTask(a) PROVE PrivateCount'
  <2>1. /\ UNCHANGED <<pc, privateWork, private>>
        /\ handlers' = handlers \/ handlers' = handlers + 1
    BY <1>5 DEF StartIo, InitTask
  <2>2. \A u \in Threads : privateWork[u] # 0 => pc[u] \in Working
    BY DEF PrivateCount
  <2>3. ASSUME NEW u \in Threads
        PROVE  \/ privateWork'[u] = 0 /\ Len(private'[u]) \in Nat
               \/ /\ privateWork'[u] = privateWork[u]
                  /\ privateWork[u] # 0 => pc'[u] \in Working
                  /\ Len(private'[u]) \in Nat /\ Len(private[u]) <= Len(private'[u])
    <3>1. Len(private[u]) \in Nat
      BY <1>0
    <3> QED
      BY <2>1, <2>2, <3>1
  <2> QED
    BY <2>1, <2>3, PrivateStays
<1>6. ASSUME NEW t \in Threads, WorkCleanup(t) PROVE PrivateCount'
  <2>1. /\ UNCHANGED <<private, handlers>> /\ privateWork'[t] = 0
        /\ \A u \in Threads : u # t => privateWork'[u] = privateWork[u] /\ pc'[u] = pc[u]
    BY <1>0, <1>6 DEF WorkCleanup
  <2>2. \A u \in Threads : privateWork[u] # 0 => pc[u] \in Working
    BY DEF PrivateCount
  <2>3. ASSUME NEW u \in Threads
        PROVE  \/ privateWork'[u] = 0 /\ Len(private'[u]) \in Nat
               \/ /\ privateWork'[u] = privateWork[u]
                  /\ privateWork[u] # 0 => pc'[u] \in Working
                  /\ Len(private'[u]) \in Nat /\ Len(private[u]) <= Len(private'[u])
    <3>1. Len(private[u]) \in Nat
      BY <1>0
    <3> QED
      BY <2>1, <2>2, <3>1
  <2> QED
    BY <2>1, <2>3, PrivateStays
<1>7. CASE ShutdownService
  <2>1. UNCHANGED <<pc, privateWork, private, handlers>>
    BY <1>7 DEF ShutdownService
  <2> QED
    BY <1>1, <2>1
<1>8. ASSUME NEW t \in Threads, TaskEvent(t) PROVE PrivateCount'
  <2>0. PICK timers \in SUBSET io : \E found \in Found(timers) :
          private' = [private EXCEPT ![t] = private[t] \o found]
    BY <1>8 DEF TaskEvent
  <2>1. PICK found \in Found(timers) :
          private' = [private EXCEPT ![t] = private[t] \o found]
    BY <2>0
  <2>2. found \in Seq(Ops)
    BY FoundLists DEF TypeOK
  <2>3. private[t] \in Seq(Ops)
    BY <1>0
  <2>4. Len(private[t] \o found) = Len(private[t]) + Len(found) /\ Len(found) \in Nat
    BY <2>2, <2>3, ConcatProperties
  <2>5. \A u \in Threads : Len(private'[u]) \in Nat /\ Len(private[u]) <= Len(private'[u])
    BY <1>0, <2>1, <2>4
  <2>6. /\ UNCHANGED <<privateWork, handlers>> /\ pc[t] = "task"
        /\ \A u \in Threads : u # t => pc'[u] = pc[u]
    BY <1>0, <1>8 DEF TaskEvent
  <2>7. \A u \in Threads : privateWork[u] # 0 => pc'[u] \in Working
    BY <2>6 DEF PrivateCount
  <2> QED
    BY <2>5, <2>6, <2>7, PrivateStays
<1>9. ASSUME NEW a \in Actors, NEW ops \in Seq(Ops), Submit(a, ops, FALSE) \/ private' = private,
             UNCHANGED privateWork, handlers' = handlers,
             \A u \in Threads : pc[u] \in Working => pc'[u] \in Working
      PROVE  PrivateCount'
  <2>1. \A u \in Threads : Len(private'[u]) \in Nat /\ Len(private[u]) <= Len(private'[u])
    <3>1. CASE Submit(a, ops, FALSE)
      BY <3>1, SubmitLength
    <3>2. CASE private' = private
      BY <1>0, <3>2
    <3> QED
      BY <1>9, <3>1, <3>2
  <2>2. \A u \in Threads : privateWork[u] # 0 => pc'[u] \in Working
    BY <1>9 DEF PrivateCount
  <2> QED
    BY <1>9, <2>1, <2>2, PrivateStays
<1>16. ASSUME NEW S \in SUBSET io PROVE SetToSeq(S) \in Seq(Ops)
  <2>1. IsFiniteSet(S) /\ S \subseteq Ops
    <3>1. io \subseteq Handlers /\ IsFiniteSet(Handlers)
      BY SchedulerAssumption, FS_Interval DEF TypeOK, Handlers
    <3> QED
      BY <3>1, FS_Subset, Lists
  <2>2. SetToSeq(S) \in Seq(S)
    BY <2>1, InSetToSeq
  <2> QED
    BY <2>1, <2>2
<1>10. ASSUME NEW a \in Actors, Cancel(a) PROVE PrivateCount'
  <2>1. Submit(a, SetToSeq(io), FALSE) /\ UNCHANGED <<pc, privateWork, handlers>>
    BY <1>10 DEF Cancel
  <2> QED
    BY <1>9, <1>16, <2>1
<1>11. ASSUME NEW t \in Threads, PerformIo(t) PROVE PrivateCount'
  <2>1. /\ UNCHANGED <<privateWork, handlers>> /\ pc[t] = "op"
        /\ \/ \E S \in SUBSET io : \/ private' = private
                                   \/ Submit(t, SetToSeq(S), FALSE)
           \/ private' = private
        /\ \A u \in Threads : pc[u] \in Working => pc'[u] \in Working
    BY <1>0, <1>11 DEF PerformIo
  <2>2. <<>> \in Seq(Ops)
    BY EmptySeq
  <2> QED
    BY <1>0, <1>9, <1>16, <2>1, <2>2
<1>12. ASSUME NEW a \in Actors, Push(a) PROVE PrivateCount'
  <2>1. pushing[a] \in Handlers
    BY <1>12 DEF Push, Control, TypeOK
  <2>2. <<pushing[a]>> \in Seq(Ops)
    BY <2>1, Lists
  <2>3. /\ Submit(a, <<pushing[a]>>, FALSE) /\ UNCHANGED <<privateWork, handlers>>
        /\ \A u \in Threads : pc[u] \in Working => pc'[u] \in Working
    BY <1>0, <1>12 DEF Push
  <2> QED
    BY <1>9, <2>2, <2>3
<1>13. ASSUME NEW t \in Threads, NEW c, oneThread \/ c, Submit(t, <<handlers + 1>>, c),
              privateWork' = [privateWork EXCEPT ![t] = @ + 1],
              handlers < MaxHandlers, handlers' = handlers + 1, pc[t] \in Working, pc' = pc
       PROVE  PrivateCount'
  <2>1. handlers + 1 \in Handlers
    BY <1>0, <1>13, SchedulerAssumption DEF Handlers
  <2> DEFINE ops == <<handlers + 1>>
  <2>2. ops \in Seq(Ops) /\ Len(ops) = 1
    BY <2>1, Lists
  <2>3. Submit(t, ops, c) /\ t \in Actors
    BY <1>0, <1>13
  <2> HIDE DEF ops
  <2>4. /\ Len(private'[t]) = Len(private[t]) + 1
        /\ \A u \in Threads : Len(private'[u]) \in Nat /\ Len(private[u]) <= Len(private'[u])
    BY <1>13, <2>2, <2>3, SubmitLength
  <2>5. /\ privateWork'[t] = privateWork[t] + 1
        /\ \A u \in Threads : u # t => privateWork'[u] = privateWork[u]
    BY <1>0, <1>13
  <2> SUFFICES ASSUME NEW u \in Threads
               PROVE  /\ privateWork'[u] # 0 => pc'[u] \in Working
                      /\ privateWork'[u] <= handlers'
                      /\ privateWork'[u] <= Len(private'[u])
    BY DEF PrivateCount
  <2>6. /\ privateWork[u] # 0 => pc[u] \in Working
        /\ privateWork[u] <= handlers /\ privateWork[u] <= Len(private[u])
        /\ privateWork[u] \in Nat /\ Len(private[u]) \in Nat
    BY <1>0 DEF PrivateCount
  <2>7. CASE u = t
    BY <1>0, <1>13, <2>4, <2>5, <2>6, <2>7
  <2>8. CASE u # t
    BY <1>0, <1>13, <2>4, <2>5, <2>6, <2>8
  <2> QED
    BY <2>7, <2>8
<1>14. ASSUME NEW t \in Threads, Continue(t) PROVE PrivateCount'
  <2>1. /\ Submit(t, <<handlers + 1>>, TRUE) /\ pc' = pc /\ pc[t] = "op"
        /\ privateWork' = [privateWork EXCEPT ![t] = @ + 1]
        /\ handlers < MaxHandlers /\ handlers' = handlers + 1
    BY <1>0, <1>14 DEF Continue, Free
  <2> QED
    BY <1>13, <2>1
<1>15. ASSUME NEW a \in Actors, Post(a) PROVE PrivateCount'
  <2>1. CASE a \in Threads /\ oneThread
    <3>1. /\ Submit(a, <<handlers + 1>>, FALSE) /\ pc' = pc /\ pc[a] = "op"
          /\ privateWork' = [privateWork EXCEPT ![a] = @ + 1]
          /\ handlers < MaxHandlers /\ handlers' = handlers + 1
      BY <1>0, <1>15, <2>1 DEF Post, Free
    <3> QED
      BY <1>13, <2>1, <3>1
  <2>2. CASE ~(a \in Threads /\ oneThread)
    <3>1. /\ UNCHANGED <<privateWork, private>> /\ handlers' = handlers + 1
          /\ \A u \in Threads : pc[u] \in Working => pc'[u] \in Working
      BY <1>0, <1>15, <2>2 DEF Post
    <3>2. \A u \in Threads : privateWork[u] # 0 => pc'[u] \in Working
      BY <3>1 DEF PrivateCount
    <3> QED
      BY <1>0, <3>1, <3>2, PrivateStays
  <2> QED
    BY <2>1, <2>2
<1> QED
  BY NextCases, <1>2, <1>4, <1>5, <1>6, <1>7, <1>8, <1>10, <1>11, <1>12, <1>14, <1>15, Zenon

-----------------------------------------------------------------------------
(* No wake-up is lost *)

\* No thread sleeps that should not.
Awake == Interruptible /\ NoLostWakeup

\* wake_one_thread_and_unlock reaches a thread that waits or, if none does, the one in
\* the reactor.
LEMMA WakeReaches ==
  ASSUME TypeOK, TaskOnce, Interruptible, NEW a \in Actors, NEW b \in BOOLEAN, WakeOne(a, b),
         b => taskInterrupted \/ \A u \in Threads : pc[u] # "task",
         \A u \in Threads : u # a => pc'[u] = pc[u],
         a \in Threads => pc[a] # "wait" /\ pc'[a] \notin {"wait", "task"},
         block' = block
  PROVE  Awake'
<1>1. /\ bit' /\ (Waiters # {} => a \in signalling')
      /\ Waiters # {} => (taskInterrupted' => b) /\ interrupt' = interrupt
      /\ Waiters = {} => InterruptTask(b)
  BY DEF WakeOne, SignalOne
<1>2. \A u \in Threads : pc[u] = "task" => hasTask
  BY DEF TaskOnce, Reacting
<1>3. \A u \in Threads : pc[u] = "task" /\ block[u] /\ b => interrupt
  BY DEF Interruptible
<1>4. \A u \in Threads : pc'[u] = "task" /\ block'[u] => pc[u] = "task" /\ block[u]
  OBVIOUS
<1>5. Waiters = {} => \A u \in Threads : pc[u] = "task" /\ block[u] => interrupt'
  BY <1>1, <1>2, <1>3 DEF InterruptTask
<1>6. Interruptible'
  <2> SUFFICES ASSUME NEW u \in Threads, pc'[u] = "task", block'[u], taskInterrupted'
               PROVE  interrupt'
    BY DEF Interruptible
  <2>1. pc[u] = "task" /\ block[u]
    BY <1>4
  <2> QED
    BY <1>1, <1>3, <1>5, <2>1
<1>7. ASSUME NEW u \in Blocked' PROVE \E t \in Threads : Attentive(t)'
  <2>1. CASE Waiters # {}
    <3>1. PICK w \in Threads : pc[w] = "wait"
      BY <2>1 DEF Waiters
    <3>2. pc'[w] = "wait" /\ bit' /\ signalling' # {}
      BY <1>1, <2>1, <3>1
    <3> QED
      BY <3>2 DEF Attentive
  <2>2. CASE Waiters = {}
    <3>1. u \in Threads /\ (pc'[u] = "wait" \/ (pc'[u] = "task" /\ block'[u]))
      BY <1>7 DEF Blocked
    <3>2. pc'[u] = "task" /\ interrupt'
      BY <1>4, <1>5, <2>2, <3>1 DEF Waiters
    <3> QED
      BY <3>1, <3>2 DEF Attentive
  <2> QED
    BY <2>1, <2>2
<1>8. NoLostWakeup'
  BY <1>7 DEF NoLostWakeup
<1> QED
  BY <1>6, <1>8 DEF Awake

\* A step that changes neither the queue nor who sleeps, and keeps every attentive thread
\* so.
LEMMA NobodyDozes ==
  ASSUME Awake,
         \A u \in Threads : pc'[u] = "task" /\ block'[u] => pc[u] = "task" /\ block[u],
         \A u \in Threads : pc'[u] = "wait" => pc[u] = "wait",
         UNCHANGED <<taskInterrupted, interrupt, stopped, oneThread, shutdown>>,
         queue' # <<>> /\ ~leftBehind' => queue # <<>> /\ ~leftBehind,
         (\E u \in Threads : Attentive(u)) => \E u \in Threads : Attentive(u)'
  PROVE  Awake'
<1>1. Interruptible'
  BY DEF Awake, Interruptible
<1>2. Blocked' \subseteq Blocked
  BY DEF Blocked
<1>3. NoLostWakeup'
  BY <1>2 DEF Awake, NoLostWakeup
<1> QED
  BY <1>1, <1>3 DEF Awake

\* As long as nobody is to be woken, the reactor's part is all there is.
LEMMA NobodyNeeded ==
  ASSUME Interruptible',
         queue' = <<>> \/ stopped' \/ shutdown' \/ oneThread' \/ Blocked' = {}
           \/ \E u \in Threads : Attentive(u)'
  PROVE  Awake'
BY DEF Awake, NoLostWakeup

\* Every step keeps threads awake as long as operations are queued.
LEMMA AwakeKept ==
  ASSUME TypeOK, Control, TaskOnce, TaskOnce', Awake, [Next]_vars
  PROVE  Awake'
<1> USE DEF Goto, At
<1>0. /\ DOMAIN pc = Actors /\ pc = [a \in Actors |-> pc[a]]
      /\ Threads \subseteq Actors /\ Threads \cap Clients = {} /\ Actors = Threads \cup Clients
      /\ block = [t \in Threads |-> block[t]]
      /\ taskInterrupted \in BOOLEAN
  BY SchedulerAssumption, Lists DEF TypeOK, Actors
<1>1. CASE UNCHANGED vars
  <2>1. UNCHANGED <<pc, block, taskInterrupted, interrupt, stopped, oneThread, shutdown, queue,
                    leftBehind, bit, asleep, signalling, call, throwing>>
    BY <1>1 DEF vars, task, fixed, event, thread
  <2> QED
    BY <2>1, NobodyDozes DEF Attentive, Looping
<1>2. ASSUME NEW a \in Actors, Signal(a) PROVE Awake'
  <2>1. /\ UNCHANGED <<pc, block, taskInterrupted, interrupt, stopped, oneThread, shutdown, queue,
                       leftBehind, bit, call, throwing>>
        /\ signalling' = signalling \ {a}
        /\ \/ asleep = {} /\ asleep' = asleep
           \/ \E t \in asleep : asleep' = asleep \ {t}
    BY <1>2 DEF Signal, task, fixed, thread
  <2>2. ASSUME NEW u \in Threads, Attentive(u) PROVE \E v \in Threads : Attentive(v)'
    <3>1. CASE asleep = {} /\ asleep' = asleep
      BY <2>1, <2>2, <3>1 DEF Attentive, Looping
    <3>2. ASSUME NEW t \in asleep, asleep' = asleep \ {t} PROVE \E v \in Threads : Attentive(v)'
      <4>1. t \in Threads /\ pc[t] = "wait"
        BY DEF Control, Waiters
      <4>2. CASE pc[u] = "wait" /\ bit
        BY <2>1, <3>2, <4>1, <4>2 DEF Attentive
      <4>3. CASE ~(pc[u] = "wait" /\ bit)
        BY <2>1, <2>2, <3>2, <4>3 DEF Attentive, Looping
      <4> QED
        BY <4>2, <4>3
    <3> QED
      BY <2>1, <3>1, <3>2
  <2> QED
    BY <2>1, <2>2, NobodyDozes
<1>3. ASSUME NEW t \in Threads, Spurious(t) PROVE Awake'
  <2>1. /\ UNCHANGED <<pc, block, taskInterrupted, interrupt, stopped, oneThread, shutdown, queue,
                       leftBehind, bit, signalling, call, throwing>>
        /\ asleep' = asleep \ {t}
    BY <1>3 DEF Spurious, task, fixed, thread
  <2> QED
    BY <2>1, NobodyDozes DEF Attentive, Looping
<1>4. ASSUME NEW t \in Threads, Woken(t) PROVE Awake'
  <2>1. /\ UNCHANGED <<block, taskInterrupted, interrupt, stopped, oneThread, shutdown, queue,
                       leftBehind, bit, signalling, call, throwing>>
        /\ pc[t] = "wait"
    BY <1>4 DEF Woken, task, fixed, thread
  <2>2. CASE bit
    <3>1. pc' = [pc EXCEPT ![t] = "loop"]
      BY <1>4, <2>2 DEF Woken
    <3>2. pc'[t] = "loop" /\ \A u \in Threads : u # t => pc'[u] = pc[u]
      BY <1>0, <3>1
    <3>3. Attentive(t)'
      BY <3>2 DEF Attentive
    <3> QED
      BY <2>1, <3>2, <3>3, NobodyDozes
  <2>3. CASE ~bit
    <3>1. pc' = pc
      BY <1>4, <2>3 DEF Woken
    <3> QED
      BY <2>1, <2>3, <3>1, NobodyDozes DEF Attentive, Looping
  <2> QED
    BY <2>2, <2>3
<1>5. ASSUME NEW a \in Actors, StartIo(a) \/ Hold(a) PROVE Awake'
  <2>1. UNCHANGED <<pc, block, taskInterrupted, interrupt, stopped, oneThread, shutdown, queue,
                    leftBehind, bit, asleep, signalling, call, throwing>>
    BY <1>5 DEF StartIo, Hold, task, fixed, event, thread
  <2> QED
    BY <2>1, NobodyDozes DEF Attentive, Looping
<1>6. ASSUME NEW a \in Actors, Release(a) PROVE Awake'
  <2>1. /\ UNCHANGED <<block, taskInterrupted, interrupt, stopped, oneThread, shutdown, queue,
                       leftBehind, bit, asleep, signalling, call, throwing>>
        /\ \A u \in Threads : pc'[u] = pc[u]
    BY <1>0, <1>6 DEF Release, task, fixed, event, thread, TypeOK
  <2> QED
    BY <2>1, NobodyDozes DEF Attentive, Looping
<1>7. ASSUME StopAllThreads, block' = block, \E a \in Actors : \E l \in {"out", "loop", "leave", pc[a]} :
               pc' = [pc EXCEPT ![a] = l]
      PROVE  Awake'
  <2>1. \A u \in Threads : pc'[u] = "task" /\ block'[u] => pc[u] = "task" /\ block[u]
    BY <1>0, <1>7
  <2>2. \A u \in Threads : pc[u] = "task" => hasTask
    BY DEF TaskOnce, Reacting
  <2>3. Interruptible'
    BY <1>7, <2>1, <2>2 DEF Interruptible, Awake, StopAllThreads, InterruptTask
  <2>4. stopped'
    BY <1>7 DEF StopAllThreads
  <2> QED
    BY <2>3, <2>4, NobodyNeeded
<1>8. ASSUME NEW a \in Actors, Stop(a) PROVE Awake'
  <2>1. StopAllThreads /\ block' = block /\ pc' = [pc EXCEPT ![a] = pc[a]]
    BY <1>0, <1>8 DEF Stop, thread
  <2> QED
    BY <1>7, <2>1
<1>9. ASSUME NEW a \in Actors, StopIdle(a) PROVE Awake'
  <2>1. StopAllThreads /\ block' = block /\ \E l \in {"out", "loop", "leave"} : pc' = [pc EXCEPT ![a] = l]
    BY <1>9 DEF StopIdle, Return, AfterOp
  <2> QED
    BY <1>7, <2>1
<1>10. ASSUME NEW a \in Actors, Restart(a) PROVE Awake'
  <2>1. UNCHANGED <<pc, block, taskInterrupted, interrupt>> /\ Inside = {}
    BY <1>10 DEF Restart, thread, task
  <2>2. Interruptible'
    BY <2>1 DEF Interruptible, Awake
  <2>3. Blocked' = {}
    BY <2>1 DEF Blocked, Inside
  <2> QED
    BY <2>2, <2>3, NobodyNeeded
<1>11. ASSUME NEW a \in Actors, NEW ops, NEW c, Submit(a, ops, c), a \in Threads => pc[a] # "wait",
              \A u \in Threads : u # a => pc'[u] = pc[u],
              a \in Threads => pc[a] \in {"op", "push"} /\ pc'[a] \in {"op", "clean"},
              UNCHANGED <<block, stopped, oneThread, shutdown, leftBehind, call, throwing>>
       PROVE  Awake'
  <2>1. CASE a \in Threads /\ (oneThread \/ c)
    <3>1. UNCHANGED <<queue, bit, asleep, signalling, taskInterrupted, interrupt>>
      BY <1>11, <2>1 DEF Submit, event, task
    <3>2. \A u \in Threads : Attentive(u) => Attentive(u)'
      BY <1>11, <3>1 DEF Attentive, Looping
    <3> QED
      BY <1>11, <3>1, <3>2, NobodyDozes
  <2>2. CASE ~(a \in Threads /\ (oneThread \/ c))
    <3>1. WakeOne(a, taskInterrupted)
      BY <1>11, <2>2 DEF Submit
    <3> QED
      BY <1>0, <1>11, <3>1, WakeReaches DEF Awake
  <2> QED
    BY <2>1, <2>2
<1>12. ASSUME NEW a \in Actors, Push(a) PROVE Awake'
  <2>1. /\ pc[a] = "push" /\ Submit(a, <<pushing[a]>>, FALSE)
        /\ pc' = [pc EXCEPT ![a] = IF a \in Threads THEN "op" ELSE "out"]
        /\ UNCHANGED <<block, stopped, oneThread, shutdown, leftBehind, call, throwing>>
    BY <1>12 DEF Push, thread, fixed
  <2> QED
    BY <1>0, <1>11, <2>1
<1>13. ASSUME NEW a \in Actors, Post(a) PROVE Awake'
  <2>1. /\ a \in Threads => pc[a] = "op"
        /\ UNCHANGED <<block, stopped, oneThread, shutdown, leftBehind, call, throwing>>
    BY <1>0, <1>13 DEF Post, Free, thread, fixed
  <2>2. CASE a \in Threads /\ oneThread
    <3>1. Submit(a, <<handlers + 1>>, FALSE) /\ pc' = pc
      BY <1>13, <2>2 DEF Post
    <3> QED
      BY <1>11, <2>1, <3>1
  <2>3. CASE ~(a \in Threads /\ oneThread)
    <3>1. /\ pc' = [pc EXCEPT ![a] = "push"]
          /\ UNCHANGED <<queue, bit, asleep, signalling, taskInterrupted, interrupt>>
      BY <1>13, <2>3 DEF Post, event, task
    <3>2. \A u \in Threads : pc'[u] = pc[u] \/ (pc[u] = "op" /\ pc'[u] = "push")
      BY <1>0, <2>1, <3>1
    <3>3. \A u \in Threads : Attentive(u) => Attentive(u)'
      BY <2>1, <3>1, <3>2 DEF Attentive, Looping
    <3> QED
      BY <2>1, <3>1, <3>2, <3>3, NobodyDozes
  <2> QED
    BY <2>2, <2>3
<1>14. ASSUME NEW a \in Actors, Cancel(a) PROVE Awake'
  <2>1. /\ a \in Threads => pc[a] = "op"
        /\ UNCHANGED <<pc, block, stopped, oneThread, shutdown, leftBehind, call, throwing>>
        /\ Submit(a, SetToSeq(io), FALSE)
    BY <1>0, <1>14 DEF Cancel, Free, thread, fixed
  <2> QED
    BY <1>11, <2>1
<1>15. ASSUME NEW t \in Threads, Continue(t) PROVE Awake'
  <2>1. /\ pc[t] = "op" /\ t \in Actors
        /\ UNCHANGED <<pc, block, stopped, oneThread, shutdown, leftBehind, call, throwing>>
        /\ Submit(t, <<handlers + 1>>, TRUE)
    BY <1>0, <1>15 DEF Continue, Free, thread, fixed
  <2> QED
    BY <1>11, <2>1
<1>16. ASSUME NEW t \in Threads, pc[t] = "op", pc' = pc \/ pc' = [pc EXCEPT ![t] = "clean"],
              UNCHANGED <<queue, bit, asleep, signalling, taskInterrupted, interrupt,
                          block, stopped, oneThread, shutdown, leftBehind, call>>,
              \A u \in Threads : u # t => throwing'[u] = throwing[u]
       PROVE  Awake'
  <2>1. \A u \in Threads : pc'[u] = pc[u] \/ (pc[u] = "op" /\ pc'[u] = "clean")
    BY <1>0, <1>16
  <2>2. \A u \in Threads : Attentive(u) => Attentive(u)'
    BY <1>16, <2>1 DEF Attentive, Looping
  <2> QED
    BY <1>16, <2>1, <2>2, NobodyDozes
<1>17. ASSUME NEW t \in Threads, PerformIo(t) PROVE Awake'
  <2>1. /\ pc[t] = "op" /\ t \in Actors
        /\ UNCHANGED <<block, stopped, oneThread, shutdown, leftBehind, call, throwing>>
        /\ \/ /\ pc' = pc \/ pc' = [pc EXCEPT ![t] = "clean"]
              /\ UNCHANGED <<queue, bit, asleep, signalling, taskInterrupted, interrupt>>
           \/ pc' = pc /\ \E S : Submit(t, SetToSeq(S), FALSE)
    BY <1>0, <1>17 DEF PerformIo, thread, fixed, event, task
  <2>2. CASE /\ pc' = pc \/ pc' = [pc EXCEPT ![t] = "clean"]
             /\ UNCHANGED <<queue, bit, asleep, signalling, taskInterrupted, interrupt>>
    BY <1>16, <2>1, <2>2
  <2>3. CASE pc' = pc /\ \E S : Submit(t, SetToSeq(S), FALSE)
    BY <1>11, <2>1, <2>3
  <2> QED
    BY <2>1, <2>2, <2>3
<1>18. ASSUME NEW t \in Threads, HandlerEnds(t) PROVE Awake'
  <2>1. /\ pc[t] = "op" /\ pc' = [pc EXCEPT ![t] = "clean"]
        /\ UNCHANGED <<queue, bit, asleep, signalling, taskInterrupted, interrupt,
                       block, stopped, oneThread, shutdown, leftBehind, call>>
        /\ \A u \in Threads : u # t => throwing'[u] = throwing[u]
    BY <1>0, <1>18 DEF HandlerEnds, Free, fixed, event, task, TypeOK
  <2> QED
    BY <1>16, <2>1
<1>19. ASSUME NEW a \in Actors, InitTask(a) PROVE Awake'
  <2>1. /\ WakeOne(a, taskInterrupted) /\ pc' = pc /\ block' = block
        /\ a \in Threads => pc[a] = "op"
    BY <1>0, <1>19 DEF InitTask, Free, thread
  <2> QED
    BY <1>0, <2>1, WakeReaches DEF Awake
<1>20. ASSUME NEW t \in Threads, WorkCleanup(t) PROVE Awake'
  <2>1. /\ pc[t] = "clean"
        /\ \E l \in {"stop", AfterOp(t)} : pc' = [pc EXCEPT ![t] = l]
        /\ UNCHANGED <<queue, bit, asleep, signalling, taskInterrupted, interrupt,
                       block, stopped, oneThread, shutdown, leftBehind, call, throwing>>
    BY <1>0, <1>20 DEF WorkCleanup, thread, fixed, event, task
  <2>2. /\ pc'[t] \in {"stop", "loop", "leave"} /\ pc'[t] \in {"stop", AfterOp(t)}
        /\ \A u \in Threads : u # t => pc'[u] = pc[u]
    BY <1>0, <2>1 DEF AfterOp
  <2>3. \A u \in Threads : Attentive(u) => Attentive(u)'
    BY <2>1, <2>2 DEF Attentive, Looping, AfterOp
  <2> QED
    BY <2>1, <2>2, <2>3, NobodyDozes
<1>21. ASSUME NEW t \in Threads, Leave(t) PROVE Awake'
  <2>1. /\ pc[t] = "leave" /\ pc' = [pc EXCEPT ![t] = "out"]
        /\ queue' = queue \o private[t] /\ call' = [call EXCEPT ![t] = NoOp]
        /\ throwing' = [throwing EXCEPT ![t] = FALSE]
        /\ leftBehind' = (leftBehind \/ private[t] # <<>>)
        /\ UNCHANGED <<bit, asleep, signalling, taskInterrupted, interrupt,
                       block, stopped, oneThread, shutdown>>
    BY <1>21 DEF Leave, CleanUp, Return, fixed, event, task
  <2>2. /\ pc'[t] = "out"
        /\ \A u \in Threads : u # t => pc'[u] = pc[u] /\ call'[u] = call[u] /\ throwing'[u] = throwing[u]
    BY <1>0, <2>1 DEF TypeOK
  <2>3. queue' # <<>> /\ ~leftBehind' => queue # <<>> /\ ~leftBehind
    BY <2>1, Lists, ConcatEmptySeq
  <2>4. \A u \in Threads : Attentive(u) => Attentive(u)'
    BY <2>1, <2>2 DEF Attentive, Looping
  <2> QED
    BY <2>1, <2>2, <2>3, <2>4, NobodyDozes
<1>22. ASSUME NEW t \in Threads, NEW c \in CallsOf[t], Enter(t, c) PROVE Awake'
  <2>1. /\ pc[t] = "out" /\ \E l \in {"quit", "loop"} : pc' = [pc EXCEPT ![t] = l]
        /\ call' = [call EXCEPT ![t] = c]
        /\ UNCHANGED <<queue, bit, asleep, signalling, taskInterrupted, interrupt,
                       block, stopped, oneThread, shutdown, leftBehind, throwing>>
    BY <1>22 DEF Enter, fixed, event, task
  <2>2. /\ pc'[t] \in {"quit", "loop"}
        /\ \A u \in Threads : u # t => pc'[u] = pc[u] /\ call'[u] = call[u]
    BY <1>0, <2>1 DEF TypeOK
  <2>3. \A u \in Threads : Attentive(u) => Attentive(u)'
    BY <2>1, <2>2 DEF Attentive, Looping
  <2> QED
    BY <2>1, <2>2, <2>3, NobodyDozes
<1>23. CASE ShutdownService
  <2>1. UNCHANGED <<pc, block, taskInterrupted, interrupt>> /\ shutdown'
    BY <1>23 DEF ShutdownService, thread, task
  <2>2. Interruptible'
    BY <2>1 DEF Interruptible, Awake
  <2> QED
    BY <2>1, <2>2, NobodyNeeded
<1>24. ASSUME NEW t \in Threads, TaskReturn(t) \/ TaskEvent(t) PROVE Awake'
  <2>1. pc[t] = "task" /\ pc' = [pc EXCEPT ![t] = "reap"]
    BY <1>24 DEF TaskReturn, TaskEvent
  <2>2. pc'[t] = "reap" /\ \A u \in Threads : u # t => pc'[u] = pc[u]
    BY <1>0, <2>1
  <2>3. \A u \in Threads : pc'[u] # "task"
    BY <2>1, <2>2 DEF TaskOnce, Reacting
  <2>4. Interruptible' /\ Attentive(t)'
    BY <2>2, <2>3 DEF Interruptible, Attentive
  <2> QED
    BY <2>4, NobodyNeeded
<1>25. ASSUME NEW t \in Threads, LeaveStopped(t) PROVE Awake'
  <2>1. /\ pc[t] \in {"loop", "reap"} /\ pc' = [pc EXCEPT ![t] = "out"]
        /\ stopped' /\ block' = block /\ interrupt' = interrupt
        /\ pc[t] = "loop" => (taskInterrupted' => taskInterrupted)
    BY <1>25 DEF LeaveStopped, Deciding, MayGoOn, Return, Interrupted
  <2>2. pc'[t] = "out" /\ \A u \in Threads : u # t => pc'[u] = pc[u]
    BY <1>0, <2>1
  <2>3. pc[t] = "reap" => \A u \in Threads : pc'[u] # "task"
    BY <2>2 DEF TaskOnce, Reacting
  <2>4. Interruptible'
    BY <2>1, <2>2, <2>3 DEF Interruptible, Awake
  <2> QED
    BY <2>1, <2>4, NobodyNeeded
<1>26. ASSUME NEW t \in Threads, TakeTask(t) PROVE Awake'
  <2>1. /\ pc' = [pc EXCEPT ![t] = "task"]
        /\ queue' = Tail(Pushed(t))
        /\ \/ block' = [block EXCEPT ![t] = FALSE]
           \/ /\ block' = [block EXCEPT ![t] = ~(Tail(Pushed(t)) # <<>>)]
              /\ taskInterrupted' = (Tail(Pushed(t)) # <<>>)
    BY <1>26 DEF TakeTask, CleanUp
  <2>2. /\ pc'[t] = "task" /\ \A u \in Threads : u # t => pc'[u] = pc[u]
        /\ \/ block'[t] = FALSE
           \/ queue' = <<>> /\ ~taskInterrupted'
    BY <1>0, <2>1
  <2>3. \A u \in Threads : pc'[u] = "task" => u = t
    BY <2>2 DEF TaskOnce, Reacting
  <2>4. Interruptible'
    BY <2>2, <2>3 DEF Interruptible
  <2>5. queue' = <<>> \/ Attentive(t)'
    BY <2>2 DEF Attentive
  <2> QED
    BY <2>4, <2>5, NobodyNeeded
<1>27. ASSUME NEW t \in Threads, PollNothing(t) PROVE Awake'
  <2>1. /\ pc[t] = "reap" /\ pc' = [pc EXCEPT ![t] = "out"] /\ SignalOne(t)
    BY <1>27 DEF PollNothing, Return
  <2>2. pc'[t] = "out" /\ \A u \in Threads : u # t => pc'[u] = pc[u]
    BY <1>0, <2>1
  <2>3. \A u \in Threads : pc'[u] # "task"
    BY <2>1, <2>2 DEF TaskOnce, Reacting
  <2>4. Interruptible'
    BY <2>3 DEF Interruptible
  <2>5. ASSUME NEW u \in Blocked' PROVE Attentive(u)'
    <3>1. u \in Threads /\ pc'[u] = "wait" /\ pc[u] = "wait"
      BY <2>2, <2>3, <2>5 DEF Blocked
    <3>2. bit' /\ signalling' # {}
      BY <2>1, <3>1 DEF SignalOne, Waiters
    <3> QED
      BY <3>1, <3>2 DEF Attentive
  <2>6. Blocked' \subseteq Threads
    BY DEF Blocked
  <2> QED
    BY <2>4, <2>5, <2>6, NobodyNeeded
<1>28. ASSUME NEW t \in Threads, TakeOp(t) PROVE Awake'
  <2>1. /\ pc[t] \in {"loop", "reap"} /\ pc' = [pc EXCEPT ![t] = "op"] /\ t \in Actors
        /\ queue' = Tail(Pushed(t)) /\ block' = block
    BY <1>0, <1>28 DEF TakeOp, Deciding, CleanUp, thread
  <2>2. pc'[t] = "op" /\ \A u \in Threads : u # t => pc'[u] = pc[u]
    BY <1>0, <2>1
  <2>3. pc[t] = "reap" => \A u \in Threads : pc[u] # "task"
    BY DEF TaskOnce, Reacting
  <2>4. Interrupted(t) \in BOOLEAN /\ (Interrupted(t) => taskInterrupted \/ \A u \in Threads : pc[u] # "task")
    BY <2>3 DEF Interrupted
  <2>5. CASE Tail(Pushed(t)) # <<>> /\ ~oneThread
    <3>1. WakeOne(t, Interrupted(t))
      BY <1>28, <2>5 DEF TakeOp
    <3>2. pc[t] # "wait" /\ pc'[t] \notin {"wait", "task"}
      BY <2>1, <2>2
    <3> QED
      BY <2>1, <2>2, <2>4, <3>1, <3>2, WakeReaches DEF Awake
  <2>6. CASE ~(Tail(Pushed(t)) # <<>> /\ ~oneThread)
    <3>1. /\ taskInterrupted' = Interrupted(t) /\ interrupt' = interrupt
          /\ queue' = <<>> \/ oneThread'
      BY <1>28, <2>1, <2>6 DEF TakeOp, fixed
    <3>2. Interruptible'
      BY <2>1, <2>2, <2>4, <3>1 DEF Interruptible, Awake
    <3> QED
      BY <3>1, <3>2, NobodyNeeded
  <2> QED
    BY <2>5, <2>6
<1>29. ASSUME NEW t \in Threads, FindEmpty(t) PROVE Awake'
  <2>1. /\ pc[t] = "loop" /\ UNCHANGED <<queue, block, taskInterrupted, interrupt>>
        /\ Pushed(t) = <<>>
        /\ \E l \in {"out", "wait"} : pc' = [pc EXCEPT ![t] = l]
    BY <1>29 DEF FindEmpty, Return, task
  <2>2. queue' = <<>>
    <3>1. queue \o private[t] = <<>> /\ queue \in Seq(Ops) /\ private[t] \in Seq(Ops)
      BY <2>1, PushedIs, Lists
    <3>2. Len(queue) + Len(private[t]) = 0 /\ Len(queue) \in Nat /\ Len(private[t]) \in Nat
      BY <3>1, ConcatProperties
    <3>3. Len(queue) = 0
      BY <3>2
    <3> QED
      BY <2>1, <3>1, <3>3, EmptySeq
  <2>3. \A u \in Threads : pc'[u] = "task" => pc[u] = "task"
    BY <1>0, <2>1
  <2>4. Interruptible'
    BY <2>1, <2>3 DEF Interruptible, Awake
  <2> QED
    BY <2>2, <2>4, NobodyNeeded
<1> QED
  BY NextCases, <1>1, <1>2, <1>3, <1>4, <1>5, <1>6, <1>8, <1>9, <1>10, <1>12, <1>13, <1>14,
     <1>15, <1>17, <1>18, <1>19, <1>20, <1>21, <1>22, <1>23, <1>24, <1>25, <1>26, <1>27,
     <1>28, <1>29, Zenon

-----------------------------------------------------------------------------
(* The count of outstanding work *)

\* What threads count in private: all of it, and that of all threads but one.
Counts(S, m, f) == {p \in S \X (1 .. m) : p[2] <= f[p[1]]}
Others(S, m, f, t) == {p \in Counts(S, m, f) : p[1] # t}

\* One thread has its column of the private counts.
LEMMA Column ==
  ASSUME NEW S, IsFiniteSet(S), NEW t \in S, NEW m \in Nat, NEW f, f[t] \in 0 .. m
  PROVE  /\ IsFiniteSet(Others(S, m, f, t))
         /\ Cardinality(Counts(S, m, f)) = Cardinality(Others(S, m, f, t)) + f[t]
<1> DEFINE All == Counts(S, m, f)
           Rest == Others(S, m, f, t)
           Col == {p \in S \X (1 .. m) : p[1] = t /\ p[2] <= f[t]}
           k == f[t]
           g == [n \in 1 .. k |-> <<t, n>>]
<1>0. k \in Nat /\ k <= m
  OBVIOUS
<1>1. IsFiniteSet(S \X (1 .. m))
  <2> DEFINE r == 1 .. m
  <2>1. IsFiniteSet(r)
    <3>1. 1 \in Int /\ m \in Int
      OBVIOUS
    <3> QED
      BY <3>1, FS_Interval
  <2> HIDE DEF r
  <2>2. IsFiniteSet(S \X r)
    BY <2>1, FS_Product, Zenon
  <2> QED
    BY <2>2 DEF r
<1>2. IsFiniteSet(All) /\ IsFiniteSet(Rest) /\ IsFiniteSet(Col)
  <2>1. All \subseteq S \X (1 .. m) /\ Rest \subseteq S \X (1 .. m) /\ Col \subseteq S \X (1 .. m)
    BY DEF Counts, Others
  <2> HIDE DEF All, Rest, Col
  <2> QED
    BY <1>1, <2>1, FS_Subset
<1>3. IsFiniteSet(1 .. k) /\ Cardinality(1 .. k) = k
  <2> HIDE DEF k
  <2>1. k \in Int /\ 1 \in Int /\ (IF 1 > k THEN 0 ELSE k - 1 + 1) = k
    BY <1>0
  <2> QED
    BY <2>1, FS_Interval
<1>4. g \in Bijection(1 .. k, Col)
  <2>1. \A n \in 1 .. k : <<t, n>> \in Col
    BY <1>0
  <2>2. \A p \in Col : p[2] \in 1 .. k /\ p = <<t, p[2]>>
    BY <1>0
  <2> HIDE DEF Col, k
  <2>3. g \in [1 .. k -> Col] /\ \A a, b \in 1 .. k : g[a] = g[b] => a = b
    BY <2>1
  <2>4. \A p \in Col : \E n \in 1 .. k : g[n] = p
    BY <2>2
  <2> HIDE DEF g
  <2> QED
    BY <2>3, <2>4 DEF Bijection, Injection, Surjection, IsInjective
<1>5. Cardinality(Col) = k
  <2> HIDE DEF g, Col, k
  <2> QED
    BY <1>3, <1>4, FS_Bijection DEF ExistsBijection
<1>6. All = Rest \cup Col /\ Rest \cap Col = {}
  BY DEF Counts, Others
<1> HIDE DEF All, Rest, Col, k
<1>7. Cardinality(All) = Cardinality(Rest) + Cardinality(Col) - 0
  BY <1>2, <1>6, FS_Union, FS_EmptySet
<1>8. Cardinality(Rest) \in Nat
  BY <1>2, FS_CardinalityType
<1> QED
  BY <1>0, <1>2, <1>5, <1>7, <1>8 DEF All, Rest, Col, k

\* A thread changes what it counts in private.
LEMMA PrivateDelta ==
  ASSUME TypeOK, PrivateCount, NEW t \in Threads, NEW k \in 0 .. MaxHandlers,
         privateWork' = [privateWork EXCEPT ![t] = k]
  PROVE  Cardinality(PrivatelyCounted') = Cardinality(PrivatelyCounted) + k - privateWork[t]
<1> DEFINE m == MaxHandlers
           w == privateWork
           v == privateWork'
<1>1. w \in [Threads -> Nat] /\ m \in Nat /\ w[t] \in 0 .. m /\ IsFiniteSet(Threads)
  BY SchedulerAssumption DEF TypeOK, PrivateCount
<1>2. v[t] = k /\ \A u \in Threads : u # t => v[u] = w[u]
  BY <1>1
<1>3. Others(Threads, m, v, t) = Others(Threads, m, w, t)
  BY <1>2 DEF Others, Counts
<1> HIDE DEF w, v, m
<1>4. /\ Cardinality(Counts(Threads, m, w)) = Cardinality(Others(Threads, m, w, t)) + w[t]
      /\ IsFiniteSet(Others(Threads, m, w, t))
  BY <1>1, Column
<1>5. Cardinality(Counts(Threads, m, v)) = Cardinality(Others(Threads, m, v, t)) + v[t]
  <2>1. v[t] \in 0 .. m
    BY <1>2 DEF m
  <2> QED
    BY <1>1, <2>1, Column
<1>6. Cardinality(Others(Threads, m, w, t)) \in Nat
  BY <1>4, FS_CardinalityType
<1>7. /\ Cardinality(PrivatelyCounted) = Cardinality(Others(Threads, m, w, t)) + w[t]
      /\ Cardinality(PrivatelyCounted') = Cardinality(Others(Threads, m, w, t)) + k
  <2>1. PrivatelyCounted = Counts(Threads, m, w) /\ PrivatelyCounted' = Counts(Threads, m, v)
    BY DEF PrivatelyCounted, Counts, w, v, m
  <2> QED
    BY <1>2, <1>3, <1>4, <1>5, <2>1
<1> QED
  BY <1>1, <1>6, <1>7 DEF w, m

\* The handlers that have not ended are in one of these places.
LEMMA UnfinishedIs ==
  /\ Unfinished = {h \in Handlers : Exists(h)}
  /\ Unfinished' = {h \in Handlers : Exists(h)'}
<1>1. \A h : (\E q \in Queues : \E i \in DOMAIN q : q[i] = h) <=> Listed(h)
  BY DEF Queues, Listed, In
<1>2. \A h : (\E q \in Queues' : \E i \in DOMAIN q : q[i] = h) <=> Listed(h)'
  BY DEF Queues, Listed, In
<1> QED
  BY <1>1, <1>2 DEF Unfinished, Exists, Executed, BeingPushed

\* There are finitely many places in the private counts.
LEMMA FiniteProduct == IsFiniteSet(Handlers) /\ IsFiniteSet(Threads \X Handlers)
<1>1. 1 \in Int /\ MaxHandlers \in Int /\ IsFiniteSet(Threads)
  BY SchedulerAssumption
<1>2. IsFiniteSet(Handlers)
  BY <1>1, FS_Interval DEF Handlers
<1> QED
  BY <1>1, <1>2, FS_Product, Zenon

\* The sets that are counted are finite.
LEMMA FiniteCounts ==
  ASSUME TypeOK
  PROVE  /\ IsFiniteSet(Unfinished) /\ Cardinality(Unfinished) \in Nat
         /\ IsFiniteSet(holding) /\ Cardinality(holding) \in Nat
         /\ IsFiniteSet(Compensated) /\ Cardinality(Compensated) \in Nat
         /\ IsFiniteSet(PrivatelyCounted) /\ Cardinality(PrivatelyCounted) \in Nat
<1>1. /\ IsFiniteSet(Handlers) /\ IsFiniteSet(Threads \X Handlers)
      /\ IsFiniteSet(Threads) /\ IsFiniteSet(Clients)
  BY SchedulerAssumption, FiniteProduct
<1>2. /\ Unfinished \subseteq Handlers /\ holding \subseteq Clients /\ Compensated \subseteq Threads
      /\ PrivatelyCounted \subseteq Threads \X Handlers
  BY DEF TypeOK, Unfinished, Compensated, PrivatelyCounted, Handlers
<1>3. /\ IsFiniteSet(Unfinished) /\ IsFiniteSet(holding) /\ IsFiniteSet(Compensated)
      /\ IsFiniteSet(PrivatelyCounted)
  BY <1>1, <1>2, FS_Subset
<1> QED
  BY <1>3, FS_CardinalityType

\* No handler begins or ends, or the next one begins.
LEMMA UnfinishedDelta ==
  ASSUME TypeOK, Placed
  PROVE  /\ NoneEnds => Unfinished' = Unfinished
         /\ handlers < MaxHandlers /\ OneBegins =>
              Cardinality(Unfinished') = Cardinality(Unfinished) + 1
<1>1. NoneEnds => Unfinished' = Unfinished
  BY UnfinishedIs DEF NoneEnds
<1>2. ASSUME handlers < MaxHandlers, OneBegins
      PROVE  Cardinality(Unfinished') = Cardinality(Unfinished) + 1
  <2>1. handlers + 1 \in Handlers /\ ~Exists(handlers + 1)
    BY <1>2, Fresh DEF Placed, Exists
  <2>2. Unfinished' = Unfinished \cup {handlers + 1} /\ handlers + 1 \notin Unfinished
    BY <1>2, <2>1, UnfinishedIs DEF OneBegins
  <2> QED
    BY <2>2, FiniteCounts, FS_AddElement
<1> QED
  BY <1>1, <1>2

\* The balance after a step, from what it adds.
LEMMA Balanced ==
  ASSUME TypeOK, WorkCounted, shutdown' = shutdown,
         NEW p \in Int, NEW u \in Int, NEW h \in Int, NEW c \in Int,
         Cardinality(PrivatelyCounted') = Cardinality(PrivatelyCounted) + p,
         Cardinality(Unfinished') = Cardinality(Unfinished) + u,
         Cardinality(holding') = Cardinality(holding) + h,
         Cardinality(Compensated') = Cardinality(Compensated) + c,
         work' = work + (u + h + c - p)
  PROVE  WorkCounted'
<1> SUFFICES ASSUME ~shutdown'
             PROVE  work' + Cardinality(PrivatelyCounted')
                      = Cardinality(Unfinished') + Cardinality(holding') + Cardinality(Compensated')
  BY DEF WorkCounted
<1>1. work + Cardinality(PrivatelyCounted)
        = Cardinality(Unfinished) + Cardinality(holding) + Cardinality(Compensated)
  BY DEF WorkCounted
<1>2. work \in Int
  BY DEF TypeOK
<1> DEFINE cp == Cardinality(PrivatelyCounted)
           cu == Cardinality(Unfinished)
           ch == Cardinality(holding)
           cc == Cardinality(Compensated)
<1>3. cp \in Int /\ cu \in Int /\ ch \in Int /\ cc \in Int
  BY FiniteCounts
<1>4. work + cp = cu + ch + cc
  BY <1>1
<1> HIDE DEF cp, cu, ch, cc
<1>5. (work + (u + h + c - p)) + (cp + p) = (cu + u) + (ch + h) + (cc + c)
  BY <1>2, <1>3, <1>4
<1> QED
  BY <1>5 DEF cp, cu, ch, cc

\* Steps that move what is counted from one place to another.
LEMMA StaysBalanced ==
  ASSUME TypeOK, Placed, WorkCounted, NoneEnds, Compensated' = Compensated,
         UNCHANGED <<work, privateWork, holding>>, shutdown' = shutdown
  PROVE  WorkCounted'
<1>1. Unfinished' = Unfinished /\ PrivatelyCounted' = PrivatelyCounted
  BY UnfinishedDelta DEF PrivatelyCounted
<1> QED
  BY <1>1 DEF WorkCounted

\* A new handler is counted, at once or in private.
LEMMA OneMoreBalanced ==
  ASSUME TypeOK, Placed, PrivateCount, WorkCounted, OneBegins, Compensated' = Compensated,
         handlers < MaxHandlers, holding' = holding, shutdown' = shutdown,
         \/ work' = work + 1 /\ privateWork' = privateWork
         \/ /\ work' = work
            /\ \E t \in Threads : privateWork' = [privateWork EXCEPT ![t] = @ + 1]
  PROVE  WorkCounted'
<1>1. Cardinality(Unfinished') = Cardinality(Unfinished) + 1
  BY UnfinishedDelta
<1>2. CASE work' = work + 1 /\ privateWork' = privateWork
  <2>1. PrivatelyCounted' = PrivatelyCounted
    BY <1>2 DEF PrivatelyCounted
  <2>2. /\ Cardinality(PrivatelyCounted') = Cardinality(PrivatelyCounted) + 0
        /\ Cardinality(holding') = Cardinality(holding) + 0
        /\ Cardinality(Compensated') = Cardinality(Compensated) + 0
    BY <2>1, FiniteCounts
  <2>8. work' = work + (1 + 0 + 0 - 0)
    BY <1>2 DEF TypeOK
  <2>9. 0 \in Int /\ 1 \in Int
    BY <1>2
  <2> QED
    BY <1>1, <2>2, <2>8, <2>9, Balanced
<1>3. ASSUME work' = work, NEW t \in Threads, privateWork' = [privateWork EXCEPT ![t] = @ + 1]
      PROVE  WorkCounted'
  <2> DEFINE k == privateWork[t] + 1
  <2>1. k \in 0 .. MaxHandlers /\ privateWork[t] \in Nat
    BY SchedulerAssumption DEF TypeOK, PrivateCount
  <2>2. privateWork' = [privateWork EXCEPT ![t] = k]
    BY <1>3
  <2> HIDE DEF k
  <2>3. Cardinality(PrivatelyCounted') = Cardinality(PrivatelyCounted) + k - privateWork[t]
    BY <2>1, <2>2, PrivateDelta
  <2>4. Cardinality(PrivatelyCounted') = Cardinality(PrivatelyCounted) + 1
    BY <2>1, <2>3, FiniteCounts DEF k
  <2>5. /\ Cardinality(holding') = Cardinality(holding) + 0
        /\ Cardinality(Compensated') = Cardinality(Compensated) + 0
    BY <1>3, FiniteCounts DEF TypeOK
  <2>8. work' = work + (1 + 0 + 0 - 1)
    BY <1>3 DEF TypeOK
  <2>9. 1 \in Int /\ 0 \in Int
    BY <1>3
  <2> QED
    BY <1>1, <2>4, <2>5, <2>8, <2>9, Balanced
<1> QED
  BY <1>2, <1>3

\* A thread whose private count is empty puts its private queue on the shared one.
LEMMA NothingPrivate ==
  ASSUME TypeOK, PrivateCount, NEW t \in Threads, NEW q, pc[t] \notin Working, CleanUp(t, q)
  PROVE  work' = work /\ privateWork' = privateWork
<1>1. privateWork[t] = 0 /\ work \in Nat /\ privateWork \in [Threads -> Nat]
  BY DEF PrivateCount, TypeOK
<1> QED
  BY <1>1 DEF CleanUp

\* Steps of the event, of requests and of control.
LEMMA QuietBalanced ==
  ASSUME TypeOK, Control, PrivateCount, Placed, WorkCounted,
         \/ UNCHANGED vars
         \/ \E a \in Actors : Signal(a) \/ StopIdle(a) \/ Stop(a) \/ Restart(a)
         \/ \E t \in Threads : \/ Woken(t) \/ FindEmpty(t) \/ TaskReturn(t) \/ HandlerEnds(t)
                               \/ Spurious(t) \/ \E c \in CallsOf[t] : Enter(t, c)
  PROVE  WorkCounted'
<1> USE DEF Goto, thread, event, task, fixed, vars, At, Return
<1> DEFINE Stays == /\ UNCHANGED <<queue, private, io, cur, pushing, work, privateWork, holding>>
                    /\ shutdown' = shutdown
           Cleaning == \A t \in Threads : cur[t] = Descriptor =>
                         (pc[t] = "clean" <=> pc'[t] = "clean")
<1>0. /\ DOMAIN pc = Actors /\ Threads \subseteq Actors
      /\ \A t \in Threads : cur[t] = Descriptor => pc[t] \in Working
  <2>1. Descriptor # NoOp
    BY Lists
  <2> QED
    BY <2>1 DEF TypeOK, Actors, Control
<1>q. ASSUME Stays, Cleaning PROVE WorkCounted'
  <2>1. Compensated' = Compensated
    BY <1>q DEF Compensated
  <2>2. NoneEnds
    BY <1>q DEF NoneEnds, Exists, Listed, Executed, BeingPushed
  <2> QED
    BY <1>q, <2>1, <2>2, StaysBalanced
<1>1. CASE UNCHANGED vars
  BY <1>1, <1>q
<1>2. ASSUME NEW a \in Actors, Signal(a) \/ Stop(a) \/ Restart(a) PROVE WorkCounted'
  BY <1>2, <1>q DEF Signal, Stop, Restart
<1>3. ASSUME NEW a \in Actors, StopIdle(a) PROVE WorkCounted'
  <2>1. Stays /\ pc[a] \in {"stop", "quit"} /\ \E l : pc' = [pc EXCEPT ![a] = l]
    BY <1>3 DEF StopIdle
  <2>2. Cleaning
    BY <1>0, <2>1 DEF Working
  <2> QED
    BY <1>q, <2>1, <2>2
<1>4. ASSUME NEW t \in Threads, Woken(t) \/ Spurious(t) \/ TaskReturn(t) PROVE WorkCounted'
  <2>1. Stays /\ (pc' = pc \/ (pc[t] \in {"wait", "task"} /\ \E l : pc' = [pc EXCEPT ![t] = l]))
    BY <1>4 DEF Woken, Spurious, TaskReturn
  <2>2. Cleaning
    BY <1>0, <2>1 DEF Working
  <2> QED
    BY <1>q, <2>1, <2>2
<1>5. ASSUME NEW t \in Threads, FindEmpty(t) PROVE WorkCounted'
  <2>1. Stays /\ pc[t] = "loop" /\ \E l : pc' = [pc EXCEPT ![t] = l]
    BY <1>5 DEF FindEmpty
  <2>2. Cleaning
    BY <1>0, <2>1 DEF Working
  <2> QED
    BY <1>q, <2>1, <2>2
<1>6. ASSUME NEW t \in Threads, HandlerEnds(t) PROVE WorkCounted'
  <2>1. Stays /\ cur[t] # Descriptor /\ pc' = [pc EXCEPT ![t] = "clean"]
    <3>1. t \notin Clients
      BY SchedulerAssumption
    <3> QED
      BY <1>6, <3>1 DEF HandlerEnds, Free
  <2>2. Cleaning
    BY <1>0, <2>1
  <2> QED
    BY <1>q, <2>1, <2>2
<1>7. ASSUME NEW t \in Threads, NEW c \in CallsOf[t], Enter(t, c) PROVE WorkCounted'
  <2>1. Stays /\ pc[t] = "out" /\ \E l : pc' = [pc EXCEPT ![t] = l]
    BY <1>7 DEF Enter
  <2>2. Cleaning
    BY <1>0, <2>1 DEF Working
  <2> QED
    BY <1>q, <2>1, <2>2
<1> QED
  BY <1>1, <1>2, <1>3, <1>4, <1>5, <1>6, <1>7

\* Operations change places.
LEMMA MovesBalanced ==
  ASSUME TypeOK, Control, PrivateCount, Placed, WorkCounted,
         \/ \E a \in Actors : Push(a) \/ Cancel(a) \/ InitTask(a)
         \/ \E t \in Threads : \/ LeaveStopped(t) \/ TakeTask(t) \/ PollNothing(t) \/ TakeOp(t)
                               \/ Leave(t) \/ TaskEvent(t)
  PROVE  WorkCounted'
<1> USE DEF Goto, thread, event, task, fixed, At, Return
<1>0. /\ DOMAIN pc = Actors /\ DOMAIN cur = Threads /\ Threads \subseteq Actors
      /\ \A t \in Threads : cur[t] = Descriptor => pc[t] \in {"op", "clean"}
  <2>1. Descriptor # NoOp
    BY Lists
  <2> QED
    BY <2>1 DEF TypeOK, Actors, Control, Working
<1>1. ASSUME NEW a \in Actors, Push(a) PROVE WorkCounted'
  <2>1. pc[a] = "push" /\ cur' = cur /\ \E l \in {"op", "out"} : pc' = [pc EXCEPT ![a] = l]
    BY <1>1 DEF Push
  <2>2. Compensated' = Compensated
    BY <1>0, <2>1 DEF Compensated
  <2>3. UNCHANGED <<work, privateWork, holding>> /\ shutdown' = shutdown
    BY <1>1 DEF Push
  <2> QED
    BY <1>1, <2>2, <2>3, PushPlaced, StaysBalanced
<1>2. ASSUME NEW a \in Actors, Cancel(a) \/ InitTask(a) PROVE WorkCounted'
  <2>1. UNCHANGED <<work, privateWork, holding>> /\ shutdown' = shutdown /\ pc' = pc /\ cur' = cur
    BY <1>2 DEF Cancel, InitTask
  <2>2. Compensated' = Compensated
    BY <2>1 DEF Compensated
  <2> QED
    BY <1>2, <2>1, <2>2, CancelPlaced, InitTaskPlaced, StaysBalanced
<1>3. ASSUME NEW t \in Threads, TaskEvent(t) PROVE WorkCounted'
  <2>1. /\ UNCHANGED <<work, privateWork, holding>> /\ shutdown' = shutdown
        /\ pc[t] = "task" /\ pc' = [pc EXCEPT ![t] = "reap"] /\ cur' = cur
    BY <1>3 DEF TaskEvent
  <2>2. Compensated' = Compensated
    BY <1>0, <2>1 DEF Compensated
  <2> QED
    BY <1>3, <2>1, <2>2, TaskEventPlaced, StaysBalanced
<1>4. ASSUME NEW t \in Threads, NEW q, CleanUp(t, q), pc[t] \in {"loop", "reap", "leave"},
             NEW l \in {"out", "task", "op"}, pc' = [pc EXCEPT ![t] = l],
             NoneEnds, UNCHANGED <<holding, shutdown>>,
             cur' = cur \/ \E k : cur' = [cur EXCEPT ![t] = k]
      PROVE  WorkCounted'
  <2>1. UNCHANGED <<work, privateWork>>
    BY <1>4, NothingPrivate DEF Working
  <2>2. Compensated' = Compensated
    BY <1>0, <1>4 DEF Compensated
  <2> QED
    BY <1>4, <2>1, <2>2, StaysBalanced
<1>5. ASSUME NEW t \in Threads, LeaveStopped(t) \/ PollNothing(t) PROVE WorkCounted'
  <2>1. /\ CleanUp(t, Pushed(t)) /\ pc[t] \in {"loop", "reap"} /\ pc' = [pc EXCEPT ![t] = "out"]
        /\ UNCHANGED <<holding, shutdown, cur, io, pushing, handlers, hasTask>>
    BY <1>5 DEF LeaveStopped, PollNothing, Deciding
  <2>2. NoneEnds
    BY <2>1, GivesBack
  <2> QED
    BY <1>4, <2>1, <2>2
<1>6. ASSUME NEW t \in Threads, Leave(t) PROVE WorkCounted'
  <2>1. /\ CleanUp(t, queue \o private[t]) /\ pc[t] = "leave" /\ pc' = [pc EXCEPT ![t] = "out"]
        /\ UNCHANGED <<holding, shutdown, cur, io, pushing, handlers, hasTask>>
    BY <1>6 DEF Leave
  <2>2. CleanUp(t, Pushed(t))
    BY <2>1, PushedIs
  <2>3. NoneEnds
    BY <2>1, <2>2, GivesBack
  <2> QED
    BY <1>4, <2>1, <2>3
<1>7. ASSUME NEW t \in Threads, TakeTask(t) PROVE WorkCounted'
  <2>1. /\ CleanUp(t, Tail(Pushed(t))) /\ pc[t] \in {"loop", "reap"} /\ pc' = [pc EXCEPT ![t] = "task"]
        /\ UNCHANGED <<holding, shutdown, cur>>
    BY <1>7 DEF TakeTask, Deciding
  <2> QED
    BY <1>4, <1>7, <2>1, TakeTaskPlaced
<1>8. ASSUME NEW t \in Threads, TakeOp(t) PROVE WorkCounted'
  <2>1. /\ CleanUp(t, Tail(Pushed(t))) /\ pc[t] \in {"loop", "reap"} /\ pc' = [pc EXCEPT ![t] = "op"]
        /\ UNCHANGED <<holding, shutdown>>
        /\ cur' = [cur EXCEPT ![t] = Head(Pushed(t))]
    BY <1>8 DEF TakeOp, Deciding
  <2> QED
    BY <1>4, <1>8, <2>1, TakeOpPlaced
<1> QED
  BY <1>1, <1>2, <1>3, <1>5, <1>6, <1>7, <1>8

\* A handler comes into being.
LEMMA BeginsBalanced ==
  ASSUME TypeOK, Control, PrivateCount, Placed, WorkCounted,
         \/ \E a \in Actors : Post(a) \/ StartIo(a)
         \/ \E t \in Threads : Continue(t)
  PROVE  WorkCounted'
<1> USE DEF Goto, thread, event, task, fixed, At
<1>0. DOMAIN pc = Actors /\ Threads \subseteq Actors
  BY DEF TypeOK, Actors
<1>1. ASSUME NEW a \in Actors, StartIo(a) PROVE WorkCounted'
  <2>1. /\ handlers < MaxHandlers /\ UNCHANGED <<privateWork, holding, pc, cur>> /\ shutdown' = shutdown
        /\ work' = work + 1
    BY <1>1 DEF StartIo
  <2>2. Compensated' = Compensated
    BY <2>1 DEF Compensated
  <2> QED
    BY <1>1, <2>1, <2>2, StartIoPlaced, OneMoreBalanced
<1>2. ASSUME NEW t \in Threads, Continue(t) PROVE WorkCounted'
  <2>1. /\ handlers < MaxHandlers /\ UNCHANGED <<work, holding, pc, cur>> /\ shutdown' = shutdown
        /\ privateWork' = [privateWork EXCEPT ![t] = @ + 1]
    BY <1>2 DEF Continue
  <2>2. Compensated' = Compensated
    BY <2>1 DEF Compensated
  <2> QED
    BY <1>2, <2>1, <2>2, ContinuePlaced, OneMoreBalanced
<1>3. ASSUME NEW a \in Actors, Post(a) PROVE WorkCounted'
  <2>1. handlers < MaxHandlers /\ UNCHANGED <<holding, cur>> /\ shutdown' = shutdown /\ Free(a)
    BY <1>3 DEF Post
  <2>2. CASE a \in Threads /\ oneThread
    <3>1. /\ work' = work /\ pc' = pc
          /\ privateWork' = [privateWork EXCEPT ![a] = @ + 1]
      BY <1>3, <2>2 DEF Post
    <3>2. Compensated' = Compensated
      BY <2>1, <3>1 DEF Compensated
    <3> QED
      BY <1>3, <2>1, <2>2, <3>1, <3>2, PostPlaced, OneMoreBalanced
  <2>3. CASE ~(a \in Threads /\ oneThread)
    <3>1. work' = work + 1 /\ privateWork' = privateWork /\ pc' = [pc EXCEPT ![a] = "push"]
      BY <1>3, <2>3 DEF Post
    <3>2. pc[a] \in {"out", "op"}
      BY <2>1 DEF Free
    <3>3. Compensated' = Compensated
      BY <1>0, <2>1, <3>1, <3>2 DEF Compensated
    <3> QED
      BY <1>3, <2>1, <3>1, <3>3, PostPlaced, OneMoreBalanced
  <2> QED
    BY <2>2, <2>3
<1> QED
  BY <1>1, <1>2, <1>3

\* A descriptor_state completes operations, or is compensated for.
LEMMA PerformIoBalanced ==
  ASSUME TypeOK, Control, PrivateCount, Placed, WorkCounted, NEW t \in Threads, PerformIo(t)
  PROVE  WorkCounted'
<1>0. /\ pc[t] = "op" /\ cur[t] = Descriptor /\ DOMAIN pc = Actors /\ DOMAIN cur = Threads
      /\ t \in Actors /\ Threads \subseteq Actors /\ Descriptor \notin Handlers /\ io \subseteq Handlers
      /\ UNCHANGED <<privateWork, holding>> /\ shutdown' = shutdown
  BY Lists DEF PerformIo, At, TypeOK, fixed
<1>1. NoneEnds
  BY PerformIoPlaced
<1>2. CASE work' = work + 1 /\ Goto(t, "clean") /\ cur' = cur
  <2>1. Compensated' = Compensated \cup {t} /\ t \notin Compensated
    BY <1>0, <1>2 DEF Compensated, Goto
  <2>2. Cardinality(Compensated') = Cardinality(Compensated) + 1
    BY <2>1, FiniteCounts, FS_AddElement
  <2>3. /\ Cardinality(PrivatelyCounted') = Cardinality(PrivatelyCounted) + 0
        /\ Cardinality(Unfinished') = Cardinality(Unfinished) + 0
        /\ Cardinality(holding') = Cardinality(holding) + 0
    <3>1. PrivatelyCounted' = PrivatelyCounted /\ Unfinished' = Unfinished
      BY <1>0, <1>1, UnfinishedDelta DEF PrivatelyCounted
    <3> QED
      BY <1>0, <3>1, FiniteCounts
  <2>8. work' = work + (0 + 0 + 1 - 0)
    BY <1>2 DEF TypeOK
  <2>9. 0 \in Int /\ 1 \in Int
    BY <1>2
  <2> QED
    BY <1>0, <2>2, <2>3, <2>8, <2>9, Balanced
<1>3. CASE UNCHANGED <<pc, work>> /\ \E h \in io : cur' = [cur EXCEPT ![t] = h]
  <2>1. Compensated' = Compensated
    BY <1>0, <1>3 DEF Compensated
  <2> QED
    BY <1>0, <1>1, <1>3, <2>1, StaysBalanced
<1> QED
  BY <1>2, <1>3 DEF PerformIo

\* A handler ends, or the operation that stood in for one.
LEMMA WorkCleanupBalanced ==
  ASSUME TypeOK, Control, PrivateCount, Placed, WorkCounted, NEW t \in Threads, WorkCleanup(t)
  PROVE  WorkCounted'
<1>0. /\ pc[t] = "clean" /\ DOMAIN pc = Actors /\ cur \in [Threads -> Handlers \cup {Descriptor, NoOp}]
      /\ Threads \subseteq Actors /\ Descriptor \notin Handlers /\ Descriptor # NoOp
      /\ holding' = holding /\ shutdown' = shutdown /\ work' = work + privateWork[t] - 1
      /\ privateWork' = [privateWork EXCEPT ![t] = 0] /\ cur' = [cur EXCEPT ![t] = NoOp]
      /\ \E l \in {"stop", "loop", "leave"} : pc' = [pc EXCEPT ![t] = l]
      /\ privateWork[t] \in Nat /\ work \in Nat
  BY Lists DEF WorkCleanup, At, TypeOK, Goto, AfterOp, fixed
<1>1. \A h \in Handlers : Exists(h)' <=> Exists(h) /\ h # cur[t]
  BY WorkCleanupPlaced
<1>2. cur[t] \in Handlers \/ cur[t] = Descriptor
  BY <1>0 DEF Control, Working
<1> DEFINE w == privateWork[t] - 1
           p == 0 - privateWork[t]
<1>3. Cardinality(PrivatelyCounted') = Cardinality(PrivatelyCounted) + p
  <2>1. 0 \in 0 .. MaxHandlers
    BY SchedulerAssumption
  <2>2. Cardinality(PrivatelyCounted') = Cardinality(PrivatelyCounted) + 0 - privateWork[t]
    BY <1>0, <2>1, PrivateDelta
  <2> QED
    BY <1>0, <2>2, FiniteCounts
<1>4. Cardinality(holding') = Cardinality(holding) + 0
  BY <1>0, FiniteCounts
<1>5. w \in Int /\ p \in Int /\ work' = work + w /\ w + p = -1
  BY <1>0
<1> HIDE DEF w, p
<1>6. CASE cur[t] \in Handlers
  <2>1. Compensated' = Compensated
    BY <1>0, <1>6 DEF Compensated
  <2>2. Exists(cur[t])
    BY DEF Exists, Executed
  <2>3. Unfinished' = Unfinished \ {cur[t]} /\ cur[t] \in Unfinished
    BY <1>1, <1>6, <2>2, UnfinishedIs
  <2>4. Cardinality(Unfinished') = Cardinality(Unfinished) + (-1)
    BY <2>3, FiniteCounts, FS_RemoveElement
  <2>5. Cardinality(Compensated') = Cardinality(Compensated) + 0
    BY <2>1, FiniteCounts
  <2>8. work' = work + ((-1) + 0 + 0 - p)
    BY <1>5 DEF TypeOK
  <2>9. p \in Int /\ (-1) \in Int /\ 0 \in Int
    BY <1>5
  <2> QED
    BY <1>0, <1>3, <1>4, <2>4, <2>5, <2>8, <2>9, Balanced
<1>7. CASE cur[t] = Descriptor
  <2>1. Compensated' = Compensated \ {t} /\ t \in Compensated
    BY <1>0, <1>7 DEF Compensated
  <2>2. Unfinished' = Unfinished
    BY <1>0, <1>1, <1>7, UnfinishedIs
  <2>3. Cardinality(Compensated') = Cardinality(Compensated) + (-1)
    BY <2>1, FiniteCounts, FS_RemoveElement
  <2>4. Cardinality(Unfinished') = Cardinality(Unfinished) + 0
    BY <2>2, FiniteCounts
  <2>8. work' = work + (0 + 0 + (-1) - p)
    BY <1>5 DEF TypeOK
  <2>9. p \in Int /\ 0 \in Int /\ (-1) \in Int
    BY <1>5
  <2> QED
    BY <1>0, <1>3, <1>4, <2>3, <2>4, <2>8, <2>9, Balanced
<1> QED
  BY <1>2, <1>6, <1>7

\* A client creates or destroys a work object.
LEMMA WorkObjectsBalanced ==
  ASSUME TypeOK, Control, Placed, WorkCounted, NEW a \in Actors, Hold(a) \/ Release(a)
  PROVE  WorkCounted'
<1>0. /\ UNCHANGED <<queue, private, io, cur, pushing, privateWork>> /\ shutdown' = shutdown
      /\ DOMAIN pc = Actors /\ work \in Nat /\ a \in Clients /\ a \notin Threads
      /\ pc' = pc \/ \E l : pc' = [pc EXCEPT ![a] = l]
  BY SchedulerAssumption DEF Hold, Release, Goto, TypeOK, thread, event, task, fixed
<1>1. NoneEnds
  BY <1>0 DEF NoneEnds, Exists, Listed, Executed, BeingPushed
<1>2. Unfinished' = Unfinished /\ PrivatelyCounted' = PrivatelyCounted /\ Compensated' = Compensated
  <2>1. \A t \in Threads : pc'[t] = pc[t]
    BY <1>0, Lists
  <2> QED
    BY <1>0, <1>1, <2>1, UnfinishedDelta DEF PrivatelyCounted, Compensated
<1>3. /\ Cardinality(PrivatelyCounted') = Cardinality(PrivatelyCounted) + 0
      /\ Cardinality(Unfinished') = Cardinality(Unfinished) + 0
      /\ Cardinality(Compensated') = Cardinality(Compensated) + 0
  BY <1>2, FiniteCounts
<1>4. CASE Hold(a)
  <2>1. work' = work + 1 /\ holding' = holding \cup {a} /\ a \notin holding
    BY <1>4 DEF Hold
  <2>2. Cardinality(holding') = Cardinality(holding) + 1
    BY <2>1, FiniteCounts, FS_AddElement
  <2>8. work' = work + (0 + 1 + 0 - 0)
    BY <2>1 DEF TypeOK
  <2>9. 0 \in Int /\ 1 \in Int
    BY <2>1
  <2> QED
    BY <1>0, <1>3, <2>2, <2>8, <2>9, Balanced
<1>5. CASE Release(a)
  <2>1. work' = work + (-1) /\ holding' = holding \ {a} /\ a \in holding
    BY <1>0, <1>5 DEF Release
  <2>2. Cardinality(holding') = Cardinality(holding) + (-1)
    BY <2>1, FiniteCounts, FS_RemoveElement
  <2>8. work' = work + (0 + (-1) + 0 - 0)
    BY <2>1 DEF TypeOK
  <2>9. 0 \in Int /\ (-1) \in Int
    BY <2>1
  <2> QED
    BY <1>0, <1>3, <2>2, <2>8, <2>9, Balanced
<1> QED
  BY <1>4, <1>5

\* Every step keeps the balance.
LEMMA WorkCountedKept ==
  ASSUME TypeOK, Control, PrivateCount, Placed, WorkCounted, [Next]_vars
  PROVE  WorkCounted'
<1>1. ASSUME ShutdownService PROVE WorkCounted'
  BY <1>1 DEF ShutdownService, WorkCounted
<1> QED
  BY NextCases, QuietBalanced, MovesBalanced, BeginsBalanced, PerformIoBalanced,
     WorkCleanupBalanced, WorkObjectsBalanced, <1>1, Zenon

\* What is counted in private is a handler each in a private queue.
LEMMA PrivatelyListed ==
  ASSUME TypeOK, PrivateCount, Placed
  PROVE  Cardinality(PrivatelyCounted) <= Cardinality({h \in Handlers : Listed(h)})
<1> DEFINE P == PrivatelyCounted
           L == {h \in Handlers : Listed(h)}
           g == [p \in P |-> private[p[1]][p[2]]]
<1>1. ASSUME NEW p \in P
      PROVE  /\ p[1] \in Threads /\ p[2] \in DOMAIN private[p[1]] /\ p = <<p[1], p[2]>>
             /\ In(private[p[1]], g[p]) /\ g[p] \in L
  <2>1. /\ p[1] \in Threads /\ p[2] \in 1 .. MaxHandlers /\ p[2] <= privateWork[p[1]]
        /\ p = <<p[1], p[2]>>
    BY DEF PrivatelyCounted
  <2>2. /\ privateWork[p[1]] \in Nat /\ privateWork[p[1]] <= Len(private[p[1]])
        /\ private[p[1]] \in Seq(Ops) /\ privateWork[p[1]] # 0
    BY <2>1, SchedulerAssumption DEF TypeOK, PrivateCount
  <2>3. p[2] \in DOMAIN private[p[1]]
    BY <2>1, <2>2, SchedulerAssumption
  <2>4. In(private[p[1]], g[p])
    BY <2>3 DEF In
  <2>5. g[p] \in Ops
    BY <2>2, <2>3
  <2>6. g[p] # Task /\ g[p] # Descriptor
    BY <2>1, <2>2, <2>4 DEF Placed, TaskOnce, PrivateCount, Working
  <2>7. g[p] \in L
    BY <2>1, <2>4, <2>5, <2>6 DEF Ops, Listed
  <2> QED
    BY <2>1, <2>3, <2>4, <2>7
<1>2. ASSUME NEW p \in P, NEW q \in P, g[p] = g[q] PROVE p = q
  <2>1. p[1] = q[1]
    BY <1>1, <1>2 DEF Placed, ListedOnce
  <2>2. Once(private[p[1]], g[p])
    BY <1>1 DEF Placed, ListedOnce
  <2>3. private[p[1]][p[2]] = g[p] /\ private[p[1]][q[2]] = g[p]
    BY <1>2, <2>1
  <2>4. p[2] = q[2]
    BY <1>1, <2>1, <2>2, <2>3 DEF Once
  <2> QED
    BY <1>1, <2>1, <2>4
<1>3. IsFiniteSet(L)
  BY FiniteProduct, FS_Subset
<1>4. g \in [P -> L]
  BY <1>1
<1> HIDE DEF P, L, g
<1>5. g \in Injection(P, L)
  BY <1>2, <1>4 DEF Injection, IsInjective
<1> QED
  BY <1>3, <1>5, FS_Injection DEF P, L

\* The count is at least one while a handler ends or a work object exists.
LEMMA WorkLeft ==
  ASSUME TypeOK, Control, PrivateCount, Placed, WorkCounted
  PROVE  Counted
<1> DEFINE L == {h \in Handlers : Listed(h)}
           cp == Cardinality(PrivatelyCounted)
           cu == Cardinality(Unfinished)
           ch == Cardinality(holding)
           cc == Cardinality(Compensated)
           cl == Cardinality(L)
<1>1. IsFiniteSet(L) /\ cl \in Nat
  <2>1. IsFiniteSet(L)
    BY FiniteProduct, FS_Subset
  <2> HIDE DEF L
  <2> QED
    BY <2>1, FS_CardinalityType
<1>2. cp \in Nat /\ cu \in Nat /\ ch \in Nat /\ cc \in Nat /\ work \in Nat
  BY FiniteCounts DEF TypeOK
<1>3. cp <= cl
  BY PrivatelyListed
<1>4. cl <= cu
  <2>1. L \subseteq Unfinished
    BY UnfinishedIs DEF Exists
  <2> HIDE DEF L
  <2> QED
    BY <2>1, FiniteCounts, FS_Subset
<1>5. ~shutdown => work + cp = cu + ch + cc
  BY DEF WorkCounted
<1>6. ASSUME NEW t \in Threads, pc[t] = "clean" PROVE work >= 1
  <2>1. ~shutdown
    BY <1>6, Lists DEF Control
  <2>2. cur[t] \in Handlers \/ cur[t] = Descriptor
    BY <1>6 DEF Control, Working, TypeOK
  <2>3. CASE cur[t] \in Handlers
    <3>1. Exists(cur[t]) /\ cur[t] \notin L
      BY <2>3 DEF Placed, HandlerOnce, InOnePlace, Executed, Exists
    <3>2. L \cup {cur[t]} \subseteq Unfinished
      BY <2>3, <3>1, UnfinishedIs DEF Exists
    <3> HIDE DEF L
    <3>3. Cardinality(L \cup {cur[t]}) = Cardinality(L) + 1
      BY <1>1, <3>1, FS_AddElement
    <3>4. Cardinality(L \cup {cur[t]}) <= Cardinality(Unfinished)
      BY <3>2, FiniteCounts, FS_Subset
    <3>5. cl + 1 <= cu
      BY <3>3, <3>4
    <3> HIDE DEF cl, cu, cp, ch, cc
    <3> QED
      BY <1>1, <1>2, <1>3, <1>5, <2>1, <3>5
  <2>4. CASE cur[t] = Descriptor
    <3>1. Compensated # {}
      BY <1>6, <2>4 DEF Compensated
    <3>2. cc # 0
      BY <3>1, FiniteCounts, FS_EmptySet
    <3> HIDE DEF cl, cu, cp, ch, cc
    <3> QED
      BY <1>1, <1>2, <1>3, <1>4, <1>5, <2>1, <3>2
  <2> QED
    BY <2>2, <2>3, <2>4
<1>7. ASSUME holding # {}, ~shutdown PROVE work >= 1
  <2>1. ch # 0
    BY <1>7, FiniteCounts, FS_EmptySet
  <2> HIDE DEF cl, cu, cp, ch, cc
  <2> QED
    BY <1>1, <1>2, <1>3, <1>4, <1>5, <1>7, <2>1
<1> QED
  BY <1>6, <1>7 DEF Counted

-----------------------------------------------------------------------------
(* The theorems *)

\* The invariant holds when the scheduler has been constructed.
LEMMA SchedulerInit ==
  ASSUME Init
  PROVE  SchedulerInv
<1> USE DEF Init
<1>1. \A x : ~In(<<>>, x) /\ Once(<<>>, x)
  BY InShort
<1>2. TypeOK
  <2>1. <<>> \in Seq(Ops)
    OBVIOUS
  <2>2. /\ pc \in [Actors -> {"out", "quit", "loop", "reap", "wait", "task", "op",
                              "push", "clean", "stop", "leave"}]
        /\ call \in [Threads -> Calls \cup {NoOp}] /\ throwing \in [Threads -> BOOLEAN]
        /\ block \in [Threads -> BOOLEAN] /\ pushing \in [Actors -> Handlers \cup {NoOp}]
        /\ cur \in [Threads -> Handlers \cup {Descriptor, NoOp}]
    OBVIOUS
  <2>3. /\ queue \in Seq(Ops) /\ private \in [Threads -> Seq(Ops)]
        /\ privateWork \in [Threads -> Nat] /\ work \in Nat /\ handlers \in 0 .. MaxHandlers
    BY <2>1, SchedulerAssumption
  <2>4. /\ bit \in BOOLEAN /\ asleep \subseteq Threads /\ signalling \subseteq Actors
        /\ <<taskInterrupted, interrupt, stopped>> \in BOOLEAN \X BOOLEAN \X BOOLEAN
        /\ holding \subseteq Clients /\ io \subseteq Handlers
        /\ <<hasTask, oneThread, leftBehind, shutdown>> \in BOOLEAN \X BOOLEAN \X BOOLEAN \X BOOLEAN
    OBVIOUS
  <2> QED
    BY <2>2, <2>3, <2>4 DEF TypeOK
<1>3. Control /\ PrivateCount
  BY SchedulerAssumption DEF Control, PrivateCount, Working, Actors
<1>4. \A h : ~Listed(h)
  BY <1>1 DEF Listed
<1>5. ListedOnce
  BY <1>1 DEF ListedOnce
<1>6. \A h \in Handlers : ~Executed(h) /\ ~BeingPushed(h) /\ h \notin io
  BY <1>2, Lists DEF Executed, BeingPushed
<1>7. HandlerOnce
  BY <1>4, <1>6 DEF HandlerOnce, InOnePlace, Executed, BeingPushed
<1>8. TaskOnce
  <2>1. Before(queue)
    BY DEF Before
  <2>2. \A t \in Threads : pc[t] = "out"
    BY DEF Actors
  <2> QED
    BY <1>1, <2>1, <2>2 DEF TaskOnce, Reacting
<1>9. Interruptible /\ NoLostWakeup
  BY DEF Interruptible, NoLostWakeup, Actors
<1>10. WorkCounted
  <2>1. Unfinished = {}
    BY <1>4, <1>6, UnfinishedIs DEF Exists
  <2>2. PrivatelyCounted = {}
    BY SchedulerAssumption DEF PrivatelyCounted
  <2>3. Compensated = {}
    BY Lists, <1>2 DEF Compensated
  <2> QED
    BY <2>1, <2>2, <2>3, FS_EmptySet DEF WorkCounted
<1> QED
  BY <1>2, <1>3, <1>5, <1>7, <1>8, <1>9, <1>10 DEF SchedulerInv

\* Every step keeps the invariant.
LEMMA SchedulerKept ==
  ASSUME SchedulerInv, [Next]_vars
  PROVE  SchedulerInv'
<1>1. TypeOK /\ Control /\ PrivateCount /\ Placed /\ Awake /\ TaskOnce /\ WorkCounted
  BY DEF SchedulerInv, Placed, Awake
<1>2. Counted
  BY <1>1, WorkLeft
<1>3. TypeOK' /\ Control' /\ PrivateCount' /\ Placed' /\ WorkCounted'
  BY <1>1, <1>2, TypeKept, ControlKept, PrivateCountKept, PlacedKept, WorkCountedKept
<1>4. Awake'
  BY <1>1, <1>3, AwakeKept DEF Placed
<1> QED
  BY <1>3, <1>4 DEF SchedulerInv, Placed, Awake

\* A set without two different elements.
LEMMA AtMostOne ==
  ASSUME NEW S, \A x, y \in S : x = y
  PROVE  Cardinality(S) = IF S = {} THEN 0 ELSE 1
<1>1. CASE S = {}
  BY <1>1, FS_EmptySet
<1>2. CASE S # {}
  <2>1. PICK x \in S : TRUE
    BY <1>2
  <2>2. S = {x}
    BY <2>1
  <2> QED
    BY <1>2, <2>2, FS_Singleton
<1> QED
  BY <1>1, <1>2

\* Operations in one place are queued once.
LEMMA QueuedInOnePlace ==
  ASSUME SchedulerInv
  PROVE  QueuedOnce
<1> DEFINE Places == UNION {{t} \X DOMAIN private[t] : t \in Threads}
           A(op) == {i \in DOMAIN queue : queue[i] = op}
           B(op) == {p \in Places : private[p[1]][p[2]] = op}
<1>0. TypeOK /\ ListedOnce /\ TaskOnce
  BY DEF SchedulerInv
<1>1. \A op : Occurrences(op) = Cardinality(A(op)) + Cardinality(B(op))
  BY DEF Occurrences
<1>2. \A op : A(op) # {} <=> In(queue, op)
  BY DEF In
<1>3. ASSUME NEW op, NEW p \in B(op)
      PROVE  /\ p[1] \in Threads /\ p[2] \in DOMAIN private[p[1]] /\ p = <<p[1], p[2]>>
             /\ private[p[1]][p[2]] = op /\ In(private[p[1]], op)
  <2>1. PICK t \in Threads : p \in {t} \X DOMAIN private[t]
    BY <1>3
  <2>2. p[1] = t /\ p[2] \in DOMAIN private[t] /\ p = <<p[1], p[2]>>
    BY <2>1
  <2>3. private[p[1]][p[2]] = op
    BY <1>3
  <2> QED
    BY <2>2, <2>3 DEF In
<1>4. ASSUME NEW op \in Handlers \cup {Descriptor}
      PROVE  Occurrences(op) <= 1
  <2>1. \A x, y \in A(op) : x = y
    BY <1>0 DEF ListedOnce, Once
  <2>2. ASSUME NEW p \in B(op), NEW q \in B(op) PROVE p = q
    <3>1. p[1] = q[1]
      BY <1>0, <1>3 DEF ListedOnce
    <3>2. p[2] = q[2]
      BY <1>0, <1>3, <3>1 DEF ListedOnce, Once
    <3> QED
      BY <1>3, <3>1, <3>2
  <2>3. A(op) = {} \/ B(op) = {}
    BY <1>0, <1>2, <1>3 DEF ListedOnce
  <2> HIDE DEF A, B
  <2>4. /\ Cardinality(A(op)) = IF A(op) = {} THEN 0 ELSE 1
        /\ Cardinality(B(op)) = IF B(op) = {} THEN 0 ELSE 1
    BY <2>1, <2>2, AtMostOne
  <2> QED
    BY <1>1, <2>3, <2>4
<1>5. ASSUME hasTask
      PROVE  Occurrences(Task) + Cardinality({t \in Threads : pc[t] \in {"task", "reap"}}) = 1
  <2> DEFINE R == {t \in Threads : pc[t] \in {"task", "reap"}}
  <2>1. \A x, y \in A(Task) : x = y
    BY <1>0 DEF TaskOnce, Once
  <2>2. B(Task) = {}
    BY <1>0, <1>3 DEF TaskOnce
  <2>3. \A x, y \in R : x = y
    BY <1>0 DEF TaskOnce, Reacting
  <2>4. A(Task) = {} <=> R # {}
    BY <1>0, <1>2, <1>5 DEF TaskOnce, Reacting
  <2> HIDE DEF A, B, R
  <2>5. /\ Cardinality(A(Task)) = IF A(Task) = {} THEN 0 ELSE 1
        /\ Cardinality(R) = IF R = {} THEN 0 ELSE 1
        /\ Cardinality(B(Task)) = 0
    BY <2>1, <2>2, <2>3, AtMostOne, FS_EmptySet
  <2>6. Occurrences(Task) + Cardinality(R) = 1
    BY <1>1, <2>4, <2>5
  <2> QED
    BY <2>6 DEF R
<1> QED
  BY <1>4, <1>5 DEF QueuedOnce

\* So it always holds.
LEMMA SchedulerAlways == Spec => []SchedulerInv
<1>1. Init => SchedulerInv
  BY SchedulerInit
<1>2. SchedulerInv /\ [Next]_vars => SchedulerInv'
  BY SchedulerKept
<1> QED
  BY <1>1, <1>2, PTL DEF Spec

\* Types: every field of the scheduler, of its threads and of the reactor stays
\* in its range; the count of outstanding work is never taken below zero
\* (scheduler::work_finished and ~work_cleanup).
THEOREM SchedulerTypes == Spec => []TypeOK
<1>1. SchedulerInv => TypeOK
  BY DEF SchedulerInv
<1> QED
  BY <1>1, SchedulerAlways, PTL

\* An operation is a link of one list, once: the reactor never reports a
\* descriptor_state that is still queued, since the task is queued behind it, and
\* there is one task, queued or run by one thread (~task_cleanup).
THEOREM OperationsQueuedOnce == Spec => []QueuedOnce
<1>1. SchedulerInv => QueuedOnce
  BY QueuedInOnePlace
<1> QED
  BY <1>1, SchedulerAlways, PTL

\* outstanding_work_ and the private counts add up to the handlers that have not
\* ended, the work objects and the operations that stand in for a handler.
THEOREM WorkIsCounted == Spec => []WorkCounted
<1>1. SchedulerInv => WorkCounted
  BY DEF SchedulerInv
<1> QED
  BY <1>1, SchedulerAlways, PTL

\* While operations are queued a thread that sleeps is not the last one who
\* could take them: wake_one_thread_and_unlock, the event and the interrupter
\* lose no wake-up.
THEOREM NoWakeupLost == Spec => []NoLostWakeup
<1>1. SchedulerInv => NoLostWakeup
  BY DEF SchedulerInv
<1> QED
  BY <1>1, SchedulerAlways, PTL
=============================================================================
