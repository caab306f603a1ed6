------------------------------- MODULE Strand -------------------------------
(***************************************************************************)
(* asio's strand_executor_service: strands over the thread pool of an      *)
(* execution context (asio/detail/impl/strand_executor_service.hpp, .ipp). *)
(*                                                                         *)
(* A strand has a flag locked_, a queue waiting_queue_ guarded by a mutex  *)
(* and a queue ready_queue_ that is used without one by whoever is         *)
(* responsible for the strand.  That responsibility starts when enqueue    *)
(* finds the strand unlocked, travels in an invoker through the executor   *)
(* to a pool thread, and ends in on_invoker_exit.                          *)
(*                                                                         *)
(* Every actor has a call stack.  Its frames are the submission of a       *)
(* function (dispatch, post, defer), an invoker, and a function in         *)
(* execution.  The executor under the strands is the scheduler of the      *)
(* module Scheduler; here it only runs each invoker it is given, once, on  *)
(* a pool thread.                                                          *)
(***************************************************************************)
EXTENDS Naturals, Sequences, FiniteSets, SequencesExt

CONSTANTS
  Threads,       \* the threads in the pool
  Clients,       \* the threads outside of it
  Strands,
  NoOne,         \* owner of an idle strand
  Quotas         \* bound: functions submitted to each strand, one of these

ASSUME StrandAssumption ==
  /\ Threads \cap Clients = {}
  /\ NoOne \notin Threads \cup Clients
  /\ Quotas \subseteq [Strands -> Nat]

VARIABLES
  locked,     \* strand_impl::locked_
  waiting,    \* strand_impl::waiting_queue_
  ready,      \* strand_impl::ready_queue_
  scheduled,  \* invokers of each strand that wait in the executor
  stack,      \* call stack of each actor, the innermost frame last
  throwing,   \* the actor unwinds its stack because of an exception
  submitted,  \* functions submitted to each strand so far
  accepted,   \* history: functions in the order enqueue accepted them
  started,    \* history: functions in the order the invokers started them
  destroyed   \* shutdown_service has run

queues == <<locked, waiting, ready>>
history == <<accepted, started>>
vars == <<queues, scheduled, stack, throwing, submitted, history, destroyed>>

Actors == Threads \cup Clients
\* The functions of a strand are numbered in the order of their submission.
Functions == UNION {1 .. q[s] : q \in Quotas, s \in Strands}

\* post and defer differ in the function of the executor they call only.
Kinds == {"dispatch", "post"}

SubmitFrames == [at : {"lock", "push", "schedule"}, s : Strands, f : Functions, how : Kinds]
InvokerFrames == [at : {"run", "exit", "repost"}, s : Strands]
FunctionFrames == [at : {"fn"}, s : Strands, f : Functions]

TypeOK ==
  /\ locked \in [Strands -> BOOLEAN]
  /\ waiting \in [Strands -> Seq(Functions)]
  /\ ready \in [Strands -> Seq(Functions)]
  /\ scheduled \in [Strands -> Nat]
  /\ stack \in [Actors -> Seq(SubmitFrames \cup InvokerFrames \cup FunctionFrames)]
  /\ throwing \in [Actors -> BOOLEAN]
  /\ submitted \in [Strands -> Nat]
  /\ accepted \in [Strands -> Seq(Functions)]
  /\ started \in [Strands -> Seq(Functions)]
  /\ destroyed \in BOOLEAN

Init ==
  /\ locked = [s \in Strands |-> FALSE]
  /\ waiting = [s \in Strands |-> <<>>]
  /\ ready = [s \in Strands |-> <<>>]
  /\ scheduled = [s \in Strands |-> 0]
  /\ stack = [a \in Actors |-> <<>>]
  /\ throwing = [a \in Actors |-> FALSE]
  /\ submitted = [s \in Strands |-> 0]
  /\ accepted = [s \in Strands |-> <<>>]
  /\ started = [s \in Strands |-> <<>>]
  /\ destroyed = FALSE

-----------------------------------------------------------------------------
(* Call stacks *)

Top(a) == stack[a][Len(stack[a])]
Busy(a) == stack[a] # <<>>
At(a, l) == Busy(a) /\ Top(a).at = l

Below(a) == SubSeq(stack[a], 1, Len(stack[a]) - 1)
Call(a, frame) == stack' = [stack EXCEPT ![a] = Append(@, frame)]
Return(a) == stack' = [stack EXCEPT ![a] = Below(a)]
Become(a, frame) == stack' = [stack EXCEPT ![a] = Append(Below(a), frame)]
Goto(a, l) == Become(a, [Top(a) EXCEPT !.at = l])

Frames(a) == {stack[a][i] : i \in DOMAIN stack[a]}

InvokerOf(s) == [at |-> "run", s |-> s]
FunctionOf(s, f) == [at |-> "fn", s |-> s, f |-> f]

\* call_stack<strand_impl>::contains: an invoker of s is on the stack of a.
RunningInThisThread(a, s) ==
  \E frame \in Frames(a) : frame.s = s /\ frame.at \in {"run", "exit", "repost"}

-----------------------------------------------------------------------------
(* Submission: dispatch, post and defer; post stands for both *)

\* Mutant: any thread of the pool counts as being inside the strand.
SubmitInline(a, s, how) ==
  /\ ~destroyed /\ ~throwing[a]
  /\ ~Busy(a) \/ At(a, "fn")
  /\ submitted' = [submitted EXCEPT ![s] = @ + 1]
  /\ \E q \in Quotas : \A x \in Strands : submitted'[x] <= q[x]
  /\ IF how = "dispatch" /\ a \in Threads
     THEN Call(a, FunctionOf(s, submitted[s] + 1))
     ELSE Call(a, [at |-> "lock", s |-> s, f |-> submitted[s] + 1, how |-> how])
  /\ UNCHANGED <<queues, scheduled, throwing, history, destroyed>>

\* A client, a handler of the pool or a function of some strand submits the
\* next function.  dispatch inside the strand runs it at once.
Submit(a, s, how) ==
  /\ ~destroyed /\ ~throwing[a]
  /\ ~Busy(a) \/ At(a, "fn")
  /\ submitted' = [submitted EXCEPT ![s] = @ + 1]
  /\ \E q \in Quotas : \A x \in Strands : submitted'[x] <= q[x]
  /\ IF how = "dispatch" /\ RunningInThisThread(a, s)
     THEN Call(a, FunctionOf(s, submitted[s] + 1))
     ELSE Call(a, [at |-> "lock", s |-> s, f |-> submitted[s] + 1, how |-> how])
  /\ UNCHANGED <<queues, scheduled, throwing, history, destroyed>>

\* enqueue, under the strand's mutex: wait for the holder of the strand, or
\* become it.
Enqueue(a) ==
  /\ At(a, "lock")
  /\ LET s == Top(a).s
         f == Top(a).f
     IN /\ accepted' = [accepted EXCEPT ![s] = Append(@, f)]
        /\ \/ /\ locked[s]
              /\ waiting' = [waiting EXCEPT ![s] = Append(@, f)]
              /\ Return(a)
              /\ UNCHANGED locked
           \/ /\ ~locked[s]
              /\ locked' = [locked EXCEPT ![s] = TRUE]
              /\ Goto(a, "push")
              /\ UNCHANGED waiting
  /\ UNCHANGED <<ready, scheduled, throwing, submitted, started, destroyed>>

\* enqueue, after unlocking: the ready queue belongs to this actor.
Push(a) ==
  /\ At(a, "push")
  /\ ready' = [ready EXCEPT ![Top(a).s] = Append(@, Top(a).f)]
  /\ Goto(a, "schedule")
  /\ UNCHANGED <<locked, waiting, scheduled, throwing, submitted, history, destroyed>>

\* ex.dispatch runs the invoker at once on a thread of the pool; from outside,
\* and for post, it goes through the executor's queue.
Schedule(a) ==
  /\ At(a, "schedule")
  /\ LET s == Top(a).s
     IN \/ /\ Top(a).how = "dispatch" /\ a \in Threads
           /\ Become(a, InvokerOf(s))
           /\ UNCHANGED scheduled
        \/ /\ Top(a).how # "dispatch" \/ a \in Clients
           /\ scheduled' = [scheduled EXCEPT ![s] = @ + 1]
           /\ Return(a)
  /\ UNCHANGED <<queues, throwing, submitted, history, destroyed>>

-----------------------------------------------------------------------------
(* The invoker *)

\* A free thread of the pool takes an invoker from the executor.
Invoke(a, s) ==
  /\ a \in Threads
  /\ ~Busy(a) /\ ~throwing[a]
  /\ scheduled[s] > 0
  /\ scheduled' = [scheduled EXCEPT ![s] = @ - 1]
  /\ Call(a, InvokerOf(s))
  /\ UNCHANGED <<queues, throwing, submitted, history, destroyed>>

\* The loop of operator(): run the ready functions, without a lock.
RunReady(a) ==
  /\ At(a, "run") /\ ~throwing[a]
  /\ LET s == Top(a).s
     IN \/ /\ ready[s] # <<>>
           /\ ready' = [ready EXCEPT ![s] = Tail(@)]
           /\ started' = [started EXCEPT ![s] = Append(@, Head(ready[s]))]
           /\ Call(a, FunctionOf(s, Head(ready[s])))
        \/ /\ ready[s] = <<>>
           /\ Goto(a, "exit")
           /\ UNCHANGED <<ready, started>>
  /\ UNCHANGED <<locked, waiting, scheduled, throwing, submitted, accepted, destroyed>>

\* Mutant: the functions that waited go in front of those left over.
ExitReordered(a) ==
  /\ At(a, "exit")
  /\ LET s == Top(a).s
         all == waiting[s] \o ready[s]
     IN /\ ready' = [ready EXCEPT ![s] = all]
        /\ waiting' = [waiting EXCEPT ![s] = <<>>]
        /\ locked' = [locked EXCEPT ![s] = all # <<>>]
        /\ IF all # <<>> THEN Goto(a, "repost") ELSE Return(a)
  /\ UNCHANGED <<scheduled, throwing, submitted, history, destroyed>>

\* Mutant: the strand is given up although functions are ready.
ExitUnlocking(a) ==
  /\ At(a, "exit")
  /\ LET s == Top(a).s
         all == ready[s] \o waiting[s]
     IN /\ ready' = [ready EXCEPT ![s] = all]
        /\ waiting' = [waiting EXCEPT ![s] = <<>>]
        /\ locked' = [locked EXCEPT ![s] = FALSE]
        /\ IF all # <<>> THEN Goto(a, "repost") ELSE Return(a)
  /\ UNCHANGED <<scheduled, throwing, submitted, history, destroyed>>

\* Mutant: only the functions that waited count as more work, so those left by
\* an exception stay behind.
ExitForgetful(a) ==
  /\ At(a, "exit")
  /\ LET s == Top(a).s
         all == ready[s] \o waiting[s]
     IN /\ ready' = [ready EXCEPT ![s] = all]
        /\ waiting' = [waiting EXCEPT ![s] = <<>>]
        /\ locked' = [locked EXCEPT ![s] = waiting[s] # <<>>]
        /\ IF waiting[s] # <<>> THEN Goto(a, "repost") ELSE Return(a)
  /\ UNCHANGED <<scheduled, throwing, submitted, history, destroyed>>

\* ~on_invoker_exit, under the strand's mutex.
Exit(a) ==
  /\ At(a, "exit")
  /\ LET s == Top(a).s
         all == ready[s] \o waiting[s]
     IN /\ ready' = [ready EXCEPT ![s] = all]
        /\ waiting' = [waiting EXCEPT ![s] = <<>>]
        /\ locked' = [locked EXCEPT ![s] = all # <<>>]
        /\ IF all # <<>> THEN Goto(a, "repost") ELSE Return(a)
  /\ UNCHANGED <<scheduled, throwing, submitted, history, destroyed>>

\* ~on_invoker_exit, after unlocking: ex.post(move(invoker)).
Repost(a) ==
  /\ At(a, "repost")
  /\ scheduled' = [scheduled EXCEPT ![Top(a).s] = @ + 1]
  /\ Return(a)
  /\ UNCHANGED <<queues, throwing, submitted, history, destroyed>>

-----------------------------------------------------------------------------
(* Functions, exceptions and the end of the execution context *)

\* A function returns to the invoker or to the dispatch that called it.
Complete(a) ==
  /\ At(a, "fn") /\ ~throwing[a]
  /\ Return(a)
  /\ UNCHANGED <<queues, scheduled, throwing, submitted, history, destroyed>>

\* A function throws.
Throw(a) ==
  /\ At(a, "fn") /\ ~throwing[a]
  /\ throwing' = [throwing EXCEPT ![a] = TRUE]
  /\ Return(a)
  /\ UNCHANGED <<queues, scheduled, submitted, history, destroyed>>

\* The exception passes a frame: the loop of the invoker ends in
\* ~on_invoker_exit, a function that called dispatch lets it pass or catches
\* it, and at the bottom run() is left and called again.
Unwind(a) ==
  /\ throwing[a]
  /\ \/ At(a, "run") /\ Goto(a, "exit") /\ UNCHANGED throwing
     \/ At(a, "fn") /\ Return(a) /\ UNCHANGED throwing
     \/ /\ At(a, "fn") \/ ~Busy(a)
        /\ throwing' = [throwing EXCEPT ![a] = FALSE]
        /\ UNCHANGED stack
  /\ UNCHANGED <<queues, scheduled, submitted, history, destroyed>>

\* The context is destroyed once nobody uses it: shutdown_service takes every
\* function that is left, the executor drops its invokers.
Shutdown ==
  /\ ~destroyed
  /\ \A a \in Actors : ~Busy(a) /\ ~throwing[a]
  /\ destroyed' = TRUE
  /\ waiting' = [s \in Strands |-> <<>>]
  /\ ready' = [s \in Strands |-> <<>>]
  /\ scheduled' = [s \in Strands |-> 0]
  /\ UNCHANGED <<locked, stack, throwing, submitted, history>>

Step(a) ==
  \/ Enqueue(a) \/ Push(a) \/ Schedule(a)
  \/ RunReady(a) \/ Exit(a) \/ Repost(a)
  \/ Complete(a) \/ Throw(a) \/ Unwind(a)
  \/ \E s \in Strands : Invoke(a, s)

Next ==
  \/ \E a \in Actors : Step(a) \/ \E s \in Strands, how \in Kinds : Submit(a, s, how)
  \/ Shutdown

Spec == Init /\ [][Next]_vars

\* Every thread of the pool keeps running, every call that was begun goes on,
\* and functions end.
FairSpec == Spec /\ \A a \in Actors : WF_vars(Step(a))

-----------------------------------------------------------------------------
(* Properties *)

\* Those responsible for s: the actor between locking the strand and
\* scheduling it, the invokers in the executor, and the invokers on a stack.
Responsible(s) ==
  {a \in Actors : \E frame \in Frames(a) :
     frame.s = s /\ frame.at \in {"push", "schedule", "run", "exit", "repost"}}

\* The right to use ready_queue_ without a lock is never duplicated and never
\* lost: a locked strand has exactly one holder, an unlocked one has none (and
\* nothing to do).
OneHolder ==
  ~destroyed =>
    \A s \in Strands :
      /\ Cardinality(Responsible(s)) + scheduled[s] = IF locked[s] THEN 1 ELSE 0
      /\ ~locked[s] => ready[s] = <<>> /\ waiting[s] = <<>>

\* Where the stack of a has functions of s.
Places(a, s) == {i \in DOMAIN stack[a] : stack[a][i].at = "fn" /\ stack[a][i].s = s}

Only(S) == CHOOSE x \in S : TRUE

\* The functions of s in execution on a, the innermost last.
FunctionsRunning(a, s) ==
  LET Nth(n) == {i \in Places(a, s) : Cardinality({j \in Places(a, s) : j <= i}) = n}
  IN [n \in 1 .. Cardinality(Places(a, s)) |-> Only({stack[a][i].f : i \in Nth(n)})]

Executing(s) == {a \in Actors : Places(a, s) # {}}
Owner(s) == IF Executing(s) = {} THEN NoOne ELSE Only(Executing(s))
Running(s) == IF Executing(s) = {} THEN <<>> ELSE FunctionsRunning(Owner(s), s)

\* A function that has taken the strand and is not yet in the ready queue.
Pushing(s) ==
  LET pushed == {frame \in UNION {Frames(a) : a \in Actors} :
                   frame.at = "push" /\ frame.s = s}
  IN SetToSeq({frame.f : frame \in pushed})

Pending(s) == Pushing(s) \o ready[s] \o waiting[s]

\* Functions reach the strand in one order and are started in that order,
\* whatever exceptions end the invokers early; none is lost, none runs twice.
InOrder ==
  ~destroyed => \A s \in Strands : accepted[s] = started[s] \o Pending(s)

\* The strands implement SerialExecutor.
Serial ==
  INSTANCE SerialExecutor WITH
    queue <- [s \in Strands |-> Pending(s)],
    running <- [s \in Strands |-> Running(s)],
    owner <- [s \in Strands |-> Owner(s)]

\* On each strand functions start in the order of their submission and never
\* run on two threads at once, from whichever thread and in whichever way they
\* are submitted.
IsSerial == Serial!Spec

\* What enqueue has accepted is started, or destroyed with the context: a
\* strand is never left with functions and nobody to run them.
EveryFunctionStarts ==
  \A s \in Strands : (Pending(s) # <<>>) ~> (Pending(s) = <<>>)
=============================================================================
