------------------------------ MODULE Scheduler ------------------------------
(***************************************************************************)
(* asio's scheduler: the thread pool behind io_service, its queue of       *)
(* operations, the event idle threads sleep on and the reactor, which one  *)
(* thread at a time runs as the task (asio/detail/impl/scheduler.ipp,      *)
(* posix_event.hpp, impl/epoll_reactor.ipp).                               *)
(*                                                                         *)
(* One step is one critical section of the scheduler's mutex, or one       *)
(* access to shared state outside of it: the count of outstanding work is  *)
(* an atomic, and pthread_cond_signal is called after the mutex has been   *)
(* released.  Where the code keeps the mutex from one function into the    *)
(* next (task_cleanup and work_cleanup lock it, do_run_one goes on with    *)
(* it) the two are one step.                                               *)
(*                                                                         *)
(* Handlers are numbered in the order in which they come into being.  The  *)
(* queue also holds the task and a descriptor_state, the operation through *)
(* which the reactor reports that a descriptor is ready.                   *)
(***************************************************************************)
EXTENDS Integers, Sequences, FiniteSets, SequencesExt

CONSTANTS
  Threads,      \* threads that call run, run_one, poll and poll_one
  Clients,      \* threads that only post, hold work and stop
  CallsOf,      \* the calls each thread makes
  IoActors,     \* actors that start I/O and timers
  NoOp,         \* nothing is being called, executed or pushed
  MaxHandlers   \* bound: handlers that come into being

Calls == {"run", "run_one", "poll", "poll_one"}

ASSUME SchedulerAssumption ==
  /\ Threads \cap Clients = {}
  /\ IsFiniteSet(Threads) /\ IsFiniteSet(Clients)
  /\ CallsOf \in [Threads -> SUBSET Calls]
  /\ MaxHandlers \in Nat
  /\ NoOp \notin Int

VARIABLES
  pc,               \* control state of every actor
  call,             \* the call a thread is in, NoOp outside
  queue,            \* op_queue_
  private,          \* thread_info::private_op_queue
  privateWork,      \* thread_info::private_outstanding_work
  cur,              \* the operation a thread executes
  pushing,          \* the handler an actor has counted and not pushed yet
  throwing,         \* the handler has thrown
  bit,              \* posix_event: bit 0 of state_
  asleep,           \* threads blocked in pthread_cond_wait
  signalling,       \* actors about to call pthread_cond_signal
  taskInterrupted,  \* task_interrupted_
  interrupt,        \* the reactor's interrupter has an event pending
  block,            \* argument of the running task_->run
  stopped,          \* stopped_
  work,             \* outstanding_work_
  holding,          \* clients that own an io_service::work
  io,               \* handlers whose I/O or timer has been started
  hasTask,          \* task_ is not 0
  oneThread,        \* one_thread_
  handlers,         \* handlers that exist so far
  leftBehind,       \* a call returned and left its private queue behind
  shutdown          \* shutdown_

thread == <<call, throwing, block>>
event == <<bit, asleep, signalling>>
task == <<taskInterrupted, interrupt>>
fixed == <<oneThread, shutdown>>
vars == <<pc, thread, queue, private, privateWork, cur, pushing, event, task,
          stopped, work, holding, io, hasTask, handlers, fixed, leftBehind>>

Actors == Threads \cup Clients
Handlers == 1 .. MaxHandlers
Task == 0
Descriptor == -1
Ops == Handlers \cup {Task, Descriptor}

TypeOK ==
  /\ pc \in [Actors -> {"out", "quit", "loop", "reap", "wait", "task", "op",
                        "push", "clean", "stop", "leave"}]
  /\ call \in [Threads -> Calls \cup {NoOp}]
  /\ queue \in Seq(Ops)
  /\ private \in [Threads -> Seq(Ops)]
  /\ privateWork \in [Threads -> Nat]
  /\ cur \in [Threads -> Handlers \cup {Descriptor, NoOp}]
  /\ pushing \in [Actors -> Handlers \cup {NoOp}]
  /\ throwing \in [Threads -> BOOLEAN]
  /\ bit \in BOOLEAN
  /\ asleep \subseteq Threads
  /\ signalling \subseteq Actors
  /\ <<taskInterrupted, interrupt, stopped>> \in BOOLEAN \X BOOLEAN \X BOOLEAN
  /\ block \in [Threads -> BOOLEAN]
  /\ work \in Nat
  /\ holding \subseteq Clients
  /\ io \subseteq Handlers
  /\ <<hasTask, oneThread, leftBehind, shutdown>> \in BOOLEAN \X BOOLEAN \X BOOLEAN \X BOOLEAN
  /\ handlers \in 0 .. MaxHandlers

Init ==
  /\ pc = [a \in Actors |-> "out"]
  /\ call = [t \in Threads |-> NoOp]
  /\ queue = <<>>
  /\ private = [t \in Threads |-> <<>>]
  /\ privateWork = [t \in Threads |-> 0]
  /\ cur = [t \in Threads |-> NoOp]
  /\ pushing = [a \in Actors |-> NoOp]
  /\ throwing = [t \in Threads |-> FALSE]
  /\ bit = FALSE
  /\ asleep = {}
  /\ signalling = {}
  /\ taskInterrupted = TRUE
  /\ interrupt = FALSE
  /\ block = [t \in Threads |-> FALSE]
  /\ stopped = FALSE
  /\ work = 0
  /\ holding = {}
  /\ io = {}
  /\ hasTask = FALSE
  /\ oneThread \in BOOLEAN
  /\ handlers = 0
  /\ leftBehind = FALSE
  /\ shutdown = FALSE

-----------------------------------------------------------------------------
(* posix_event and waking threads *)

Goto(a, l) == pc' = [pc EXCEPT ![a] = l]

\* An actor that owes pthread_cond_signal a call makes it before anything else.
At(a, l) == pc[a] = l /\ a \notin signalling

Waiters == {t \in Threads : pc[t] = "wait"}
Inside == {t \in Threads : pc[t] # "out"}

\* maybe_unlock_and_signal_one and unlock_and_signal_one set the bit and, when
\* somebody waits, signal after unlocking.
SignalOne(a) ==
  /\ bit' = TRUE
  /\ signalling' = IF Waiters # {} THEN signalling \cup {a} ELSE signalling
  /\ UNCHANGED asleep

\* task_->interrupt(), once, if the task runs and has not been interrupted.
InterruptTask(interrupted) ==
  /\ taskInterrupted' = (interrupted \/ hasTask)
  /\ interrupt' = (interrupt \/ (~interrupted /\ hasTask))

\* Mutant: a thread blocked in the reactor is not interrupted.
WakeSleeperOnly(a, interrupted) ==
  /\ SignalOne(a)
  /\ taskInterrupted' = interrupted
  /\ UNCHANGED interrupt

\* wake_one_thread_and_unlock; interrupted is task_interrupted_ on entry.
WakeOne(a, interrupted) ==
  /\ SignalOne(a)
  /\ IF Waiters # {}
     THEN taskInterrupted' = interrupted /\ UNCHANGED interrupt
     ELSE InterruptTask(interrupted)

\* Mutant: the threads are woken, the task is not interrupted.
StopSleepers ==
  /\ stopped' = TRUE
  /\ bit' = TRUE
  /\ asleep' = {}
  /\ UNCHANGED <<signalling, task>>

\* stop_all_threads: signal_all broadcasts.
StopAllThreads ==
  /\ stopped' = TRUE
  /\ bit' = TRUE
  /\ asleep' = {}
  /\ UNCHANGED signalling
  /\ InterruptTask(taskInterrupted)

\* pthread_cond_signal, after the mutex has been released.
Signal(a) ==
  /\ a \in signalling
  /\ signalling' = signalling \ {a}
  /\ \/ asleep = {} /\ UNCHANGED asleep
     \/ \E t \in asleep : asleep' = asleep \ {t}
  /\ UNCHANGED <<pc, thread, queue, private, privateWork, cur, pushing, bit, task,
                 stopped, work, holding, io, hasTask, handlers, fixed, leftBehind>>

\* pthread_cond_wait returns without a signal.
Spurious(t) ==
  /\ t \in asleep
  /\ asleep' = asleep \ {t}
  /\ UNCHANGED <<pc, thread, queue, private, privateWork, cur, pushing, bit, signalling,
                 task, stopped, work, holding, io, hasTask, handlers, fixed, leftBehind>>

\* The loop of posix_event::wait after pthread_cond_wait has returned.
Woken(t) ==
  /\ At(t, "wait")
  /\ t \notin asleep
  /\ IF bit
     THEN Goto(t, "loop") /\ UNCHANGED asleep
     ELSE asleep' = asleep \cup {t} /\ UNCHANGED pc
  /\ UNCHANGED <<thread, queue, private, privateWork, cur, pushing, bit, signalling,
                 task, stopped, work, holding, io, hasTask, handlers, fixed, leftBehind>>

-----------------------------------------------------------------------------
(* run, run_one, poll and poll_one *)

\* The call of t is over.
Return(t) ==
  /\ pc' = [pc EXCEPT ![t] = "out"]
  /\ call' = [call EXCEPT ![t] = NoOp]
  /\ throwing' = [throwing EXCEPT ![t] = FALSE]

Looping(t) == call[t] \in {"run", "poll"}
Polling(t) == call[t] \in {"poll", "poll_one"}

\* The check of outstanding_work_ at the start of the four calls.
Enter(t, c) ==
  /\ At(t, "out")
  /\ ~shutdown
  /\ oneThread => Inside = {}
  /\ call' = [call EXCEPT ![t] = c]
  /\ Goto(t, IF work = 0 THEN "quit" ELSE "loop")
  /\ UNCHANGED <<throwing, block, queue, private, privateWork, cur, pushing, event, task,
                 stopped, work, holding, io, hasTask, handlers, fixed, leftBehind>>

\* A thread has the mutex after "loop" (before do_run_one or do_poll_one) or
\* "reap" (in ~task_cleanup); what cleanup objects push is pushed first.
Deciding(t) == At(t, "loop") \/ At(t, "reap")

\* Mutant: the task goes in front of the operations it has found.
PushedTaskFirst(t) ==
  queue \o (IF pc[t] = "reap" THEN <<Task>> ELSE <<>>) \o private[t]

Pushed(t) ==
  queue \o private[t] \o (IF pc[t] = "reap" THEN <<Task>> ELSE <<>>)

Interrupted(t) == pc[t] = "reap" \/ taskInterrupted

\* do_poll_one does not test stopped_ again after the task.
MayGoOn(t) == ~stopped \/ (pc[t] = "reap" /\ Polling(t))

\* ~task_cleanup adds the private count; a cleaned-up thread has none.
CleanUp(t, q) ==
  /\ queue' = q
  /\ private' = [private EXCEPT ![t] = <<>>]
  /\ work' = work + privateWork[t]
  /\ privateWork' = [privateWork EXCEPT ![t] = 0]

\* stopped_: do_run_one and do_poll_one return 0.
LeaveStopped(t) ==
  /\ Deciding(t) /\ ~MayGoOn(t)
  /\ CleanUp(t, Pushed(t))
  /\ taskInterrupted' = Interrupted(t)
  /\ Return(t)
  /\ UNCHANGED <<block, cur, pushing, event, interrupt,
                 stopped, holding, io, hasTask, handlers, fixed, leftBehind>>

\* The front of the queue is the task.  do_run_one lets it block only when the
\* queue is empty, and hands the rest of the queue to another thread first.
TakeTask(t) ==
  /\ Deciding(t) /\ ~stopped
  /\ pc[t] = "reap" => ~Polling(t)
  /\ Pushed(t) # <<>> /\ Head(Pushed(t)) = Task
  /\ CleanUp(t, Tail(Pushed(t)))
  /\ LET more == Tail(Pushed(t)) # <<>>
     IN IF Polling(t)
        THEN /\ block' = [block EXCEPT ![t] = FALSE]
             /\ UNCHANGED <<taskInterrupted, event>>
        ELSE /\ block' = [block EXCEPT ![t] = ~more]
             /\ taskInterrupted' = more
             /\ IF more /\ ~oneThread THEN SignalOne(t) ELSE UNCHANGED event
  /\ Goto(t, "task")
  /\ UNCHANGED <<call, throwing, cur, pushing, interrupt,
                 stopped, holding, io, hasTask, handlers, fixed, leftBehind>>

\* do_poll_one, after the task: nothing but the task is queued.
PollNothing(t) ==
  /\ At(t, "reap") /\ Polling(t)
  /\ Head(Pushed(t)) = Task
  /\ CleanUp(t, Pushed(t))
  /\ taskInterrupted' = TRUE
  /\ SignalOne(t)
  /\ Return(t)
  /\ UNCHANGED <<block, cur, pushing, interrupt,
                 stopped, holding, io, hasTask, handlers, fixed, leftBehind>>

\* Mutant: no thread is woken for the operations behind the first.
TakeOpQuietly(t) ==
  /\ Deciding(t) /\ MayGoOn(t)
  /\ Pushed(t) # <<>> /\ Head(Pushed(t)) # Task
  /\ CleanUp(t, Tail(Pushed(t)))
  /\ cur' = [cur EXCEPT ![t] = Head(Pushed(t))]
  /\ taskInterrupted' = Interrupted(t)
  /\ leftBehind' = (leftBehind /\ Tail(Pushed(t)) # <<>>)
  /\ Goto(t, "op")
  /\ UNCHANGED <<thread, pushing, interrupt, event, stopped, holding, io, hasTask, handlers, fixed>>

\* The front of the queue is another operation: it is executed, and if more
\* are queued another thread is woken for them.
TakeOp(t) ==
  /\ Deciding(t) /\ MayGoOn(t)
  /\ Pushed(t) # <<>> /\ Head(Pushed(t)) # Task
  /\ CleanUp(t, Tail(Pushed(t)))
  /\ cur' = [cur EXCEPT ![t] = Head(Pushed(t))]
  /\ IF Tail(Pushed(t)) # <<>> /\ ~oneThread
     THEN WakeOne(t, Interrupted(t))
     ELSE taskInterrupted' = Interrupted(t) /\ UNCHANGED <<interrupt, event>>
  /\ leftBehind' = (leftBehind /\ Tail(Pushed(t)) # <<>>)
  /\ Goto(t, "op")
  /\ UNCHANGED <<thread, pushing, stopped, holding, io, hasTask, handlers, fixed>>

\* Nothing is queued: do_run_one clears the event and waits for it, do_poll_one
\* returns 0.
FindEmpty(t) ==
  /\ At(t, "loop") /\ ~stopped
  /\ Pushed(t) = <<>>
  /\ IF Polling(t)
     THEN Return(t) /\ UNCHANGED event
     ELSE /\ bit' = FALSE
          /\ asleep' = asleep \cup {t}
          /\ Goto(t, "wait")
          /\ UNCHANGED <<signalling, call, throwing>>
  /\ UNCHANGED <<block, queue, private, privateWork, cur, pushing, task,
                 stopped, work, holding, io, hasTask, handlers, fixed, leftBehind>>

-----------------------------------------------------------------------------
(* The task: epoll_reactor::run *)

\* epoll_wait returns without an event of the application: it did not block or
\* was interrupted.
TaskReturn(t) ==
  /\ At(t, "task")
  /\ ~block[t] \/ interrupt
  /\ interrupt' = FALSE
  /\ block' = [block EXCEPT ![t] = FALSE]
  /\ Goto(t, "reap")
  /\ UNCHANGED <<call, throwing, queue, private, privateWork, cur, pushing, event, taskInterrupted,
                 stopped, work, holding, io, hasTask, handlers, fixed, leftBehind>>

\* What one epoll_wait may find: a descriptor that has become ready, and after it
\* the handlers of the timers that have expired, in the order of their times.
Found(timers) ==
  {ready \o expired : ready \in {<<>>, <<Descriptor>>},
                      expired \in Bijection(1 .. Cardinality(timers), timers)}

\* epoll_wait returns with events; all of them go straight to the private queue.
TaskEvent(t) ==
  /\ At(t, "task")
  /\ interrupt' = FALSE
  /\ block' = [block EXCEPT ![t] = FALSE]
  /\ \E timers \in SUBSET io : \E found \in Found(timers) \ {<<>>} :
       /\ private' = [private EXCEPT ![t] = @ \o found]
       /\ io' = io \ timers
  /\ Goto(t, "reap")
  /\ UNCHANGED <<call, throwing, queue, privateWork, cur, pushing, event, taskInterrupted,
                 stopped, work, holding, hasTask, handlers, fixed, leftBehind>>

-----------------------------------------------------------------------------
(* Operations *)

\* Actors that may call into the scheduler: clients, and threads in a handler.
Free(a) ==
  /\ ~shutdown
  /\ \/ a \in Clients /\ At(a, "out")
     \/ a \in Threads /\ At(a, "op") /\ cur[a] # Descriptor

\* An operation put on the private queue of the thread, or on the queue with a
\* thread woken for it.
Submit(a, ops, continuation) ==
  IF a \in Threads /\ (oneThread \/ continuation)
  THEN /\ private' = [private EXCEPT ![a] = @ \o ops]
       /\ UNCHANGED <<queue, event, task>>
  ELSE /\ queue' = queue \o ops
       /\ WakeOne(a, taskInterrupted)
       /\ UNCHANGED private

\* Mutant: a descriptor_state without a completed operation is not compensated
\* for.
PerformIoUncompensated(t) ==
  /\ At(t, "op") /\ cur[t] = Descriptor
  /\ \/ \E h \in io :
          /\ io' = io \ {h}
          /\ cur' = [cur EXCEPT ![t] = h]
          /\ UNCHANGED pc
     \/ Goto(t, "clean") /\ UNCHANGED <<io, cur>>
  /\ UNCHANGED <<thread, queue, private, privateWork, pushing, event, task,
                 stopped, work, holding, hasTask, handlers, fixed, leftBehind>>

\* do_complete of a descriptor_state: the first operation that completes is
\* executed at once, the others are submitted; if there is none the count is
\* raised because work_cleanup is going to lower it.
PerformIo(t) ==
  /\ At(t, "op") /\ cur[t] = Descriptor
  /\ \/ \E h \in io, S \in SUBSET io :
          /\ h \notin S
          /\ io' = io \ (S \cup {h})
          /\ cur' = [cur EXCEPT ![t] = h]
          /\ IF S = {} THEN UNCHANGED <<queue, private, event, task>>
             ELSE Submit(t, SetToSeq(S), FALSE)
          /\ UNCHANGED <<pc, work>>
     \/ /\ work' = work + 1
        /\ Goto(t, "clean")
        /\ UNCHANGED <<queue, private, event, task, io, cur>>
  /\ UNCHANGED <<thread, privateWork, pushing,
                 stopped, holding, hasTask, handlers, fixed, leftBehind>>

\* post_immediate_completion and do_dispatch: count the work, then push.
Post(a) ==
  /\ Free(a)
  /\ handlers < MaxHandlers
  /\ handlers' = handlers + 1
  /\ IF a \in Threads /\ oneThread
     THEN /\ privateWork' = [privateWork EXCEPT ![a] = @ + 1]
          /\ Submit(a, <<handlers + 1>>, FALSE)
          /\ UNCHANGED <<pc, pushing, work>>
     ELSE /\ work' = work + 1
          /\ pushing' = [pushing EXCEPT ![a] = handlers + 1]
          /\ Goto(a, "push")
          /\ UNCHANGED <<queue, private, privateWork, event, task>>
  /\ UNCHANGED <<thread, cur, stopped, holding, io, hasTask, fixed, leftBehind>>

Push(a) ==
  /\ At(a, "push")
  /\ Submit(a, <<pushing[a]>>, FALSE)
  /\ pushing' = [pushing EXCEPT ![a] = NoOp]
  /\ Goto(a, IF a \in Threads THEN "op" ELSE "out")
  /\ UNCHANGED <<thread, privateWork, cur,
                 stopped, work, holding, io, hasTask, handlers, fixed, leftBehind>>

\* post_immediate_completion with is_continuation, inside a handler.
Continue(t) ==
  /\ t \in Threads /\ Free(t)
  /\ handlers < MaxHandlers
  /\ handlers' = handlers + 1
  /\ privateWork' = [privateWork EXCEPT ![t] = @ + 1]
  /\ Submit(t, <<handlers + 1>>, TRUE)
  /\ UNCHANGED <<pc, thread, cur, pushing,
                 stopped, work, holding, io, hasTask, fixed, leftBehind>>

\* start_op of the reactor, or a timer: work_started.
StartIo(a) ==
  /\ a \in IoActors /\ Free(a)
  /\ hasTask
  /\ handlers < MaxHandlers
  /\ handlers' = handlers + 1
  /\ work' = work + 1
  /\ io' = io \cup {handlers + 1}
  /\ UNCHANGED <<pc, thread, queue, private, privateWork, cur, pushing, event, task,
                 stopped, holding, hasTask, fixed, leftBehind>>

\* cancel_ops and the like: post_deferred_completions.
Cancel(a) ==
  /\ Free(a)
  /\ io # {}
  /\ io' = {}
  /\ Submit(a, SetToSeq(io), FALSE)
  /\ UNCHANGED <<pc, thread, privateWork, cur, pushing,
                 stopped, work, holding, hasTask, handlers, fixed, leftBehind>>

\* The handler returns or throws.
HandlerEnds(t) ==
  /\ Free(t)
  /\ \E thrown \in BOOLEAN : throwing' = [throwing EXCEPT ![t] = thrown]
  /\ Goto(t, "clean")
  /\ UNCHANGED <<call, block, queue, private, privateWork, cur, pushing, event, task,
                 stopped, work, holding, io, hasTask, handlers, fixed, leftBehind>>

AfterOp(t) == IF Looping(t) /\ ~throwing[t] THEN "loop" ELSE "leave"

\* Mutant: a handler that started one other is taken off the count.
WorkCleanupForgetful(t) ==
  /\ At(t, "clean")
  /\ work' = IF privateWork[t] > 1 THEN work + privateWork[t] - 1 ELSE work - 1
  /\ privateWork' = [privateWork EXCEPT ![t] = 0]
  /\ cur' = [cur EXCEPT ![t] = NoOp]
  /\ Goto(t, IF work' = 0 /\ privateWork[t] = 0 THEN "stop" ELSE AfterOp(t))
  /\ UNCHANGED <<thread, queue, private, pushing, event, task,
                 stopped, holding, io, hasTask, handlers, fixed, leftBehind>>

\* ~work_cleanup, up to the private queue: the count takes over what the
\* handler started, less one for the handler itself.
WorkCleanup(t) ==
  /\ At(t, "clean")
  /\ work' = work + privateWork[t] - 1
  /\ privateWork' = [privateWork EXCEPT ![t] = 0]
  /\ cur' = [cur EXCEPT ![t] = NoOp]
  /\ Goto(t, IF work' = 0 /\ privateWork[t] = 0 THEN "stop" ELSE AfterOp(t))
  /\ UNCHANGED <<thread, queue, private, pushing, event, task,
                 stopped, holding, io, hasTask, handlers, fixed, leftBehind>>

\* ~work_cleanup pushes the private queue, wakes nobody, and the call returns
\* (run_one, poll_one) or is left by an exception.
Leave(t) ==
  /\ At(t, "leave")
  /\ CleanUp(t, queue \o private[t])
  /\ leftBehind' = (leftBehind \/ private[t] # <<>>)
  /\ Return(t)
  /\ UNCHANGED <<block, cur, pushing, event, task,
                 stopped, holding, io, hasTask, handlers, fixed>>

-----------------------------------------------------------------------------
(* Stopping, work objects and the life of the scheduler *)

\* stop(), as the application calls it.
Stop(a) ==
  /\ Free(a)
  /\ StopAllThreads
  /\ UNCHANGED <<pc, thread, queue, private, privateWork, cur, pushing,
                 work, holding, io, hasTask, handlers, fixed, leftBehind>>

\* stop(), because the count of outstanding work is or has become zero.
StopIdle(a) ==
  /\ At(a, "stop") \/ At(a, "quit")
  /\ StopAllThreads
  /\ IF pc[a] = "quit"
     THEN Return(a)
     ELSE Goto(a, IF a \in Clients THEN "out" ELSE AfterOp(a)) /\ UNCHANGED <<call, throwing>>
  /\ UNCHANGED <<block, queue, private, privateWork, cur, pushing,
                 work, holding, io, hasTask, handlers, fixed, leftBehind>>

\* A client creates or destroys an io_service::work.
Hold(a) ==
  /\ a \in Clients \ holding /\ Free(a)
  /\ holding' = holding \cup {a}
  /\ work' = work + 1
  /\ UNCHANGED <<pc, thread, queue, private, privateWork, cur, pushing, event, task,
                 stopped, io, hasTask, handlers, fixed, leftBehind>>

Release(a) ==
  /\ a \in holding /\ Free(a)
  /\ holding' = holding \ {a}
  /\ work' = work - 1
  /\ Goto(a, IF work = 1 THEN "stop" ELSE "out")
  /\ UNCHANGED <<thread, queue, private, privateWork, cur, pushing, event, task,
                 stopped, io, hasTask, handlers, fixed, leftBehind>>

\* restart(), which must not be called while a thread is inside.
Restart(a) ==
  /\ a \in Clients /\ Free(a)
  /\ Inside = {}
  /\ stopped' = FALSE
  /\ UNCHANGED <<pc, thread, queue, private, privateWork, cur, pushing, event, task,
                 work, holding, io, hasTask, handlers, fixed, leftBehind>>

\* init_task, when the first I/O object is created.
InitTask(a) ==
  /\ Free(a)
  /\ ~hasTask
  /\ hasTask' = TRUE
  /\ queue' = Append(queue, Task)
  /\ WakeOne(a, taskInterrupted)
  /\ UNCHANGED <<pc, thread, private, privateWork, cur, pushing,
                 stopped, work, holding, io, handlers, fixed, leftBehind>>

\* shutdown_service, when the execution context is destroyed.
ShutdownService ==
  /\ ~shutdown
  /\ \A a \in Actors : pc[a] = "out" /\ a \notin signalling
  /\ shutdown' = TRUE
  /\ queue' = <<>>
  /\ hasTask' = FALSE
  /\ UNCHANGED <<pc, thread, private, privateWork, cur, pushing, event, task,
                 stopped, work, holding, io, handlers, oneThread, leftBehind>>

-----------------------------------------------------------------------------
(* The specification *)

\* The steps a thread inside, or an actor in the middle of a call, takes.
Step(a) ==
  \/ Signal(a) \/ Push(a) \/ StopIdle(a)
  \/ /\ a \in Threads
     /\ \/ Woken(a)
        \/ LeaveStopped(a) \/ TakeTask(a) \/ PollNothing(a) \/ TakeOp(a) \/ FindEmpty(a)
        \/ TaskReturn(a)
        \/ PerformIo(a) \/ HandlerEnds(a) \/ WorkCleanup(a) \/ Leave(a)

\* What the application decides.
Request(a) ==
  \/ Post(a) \/ StartIo(a) \/ Cancel(a) \/ Stop(a) \/ InitTask(a)
  \/ Hold(a) \/ Release(a) \/ Restart(a)
  \/ a \in Threads /\ Continue(a)

Next ==
  \/ \E a \in Actors : Step(a) \/ Request(a)
  \/ \E t \in Threads : Spurious(t) \/ TaskEvent(t) \/ \E c \in CallsOf[t] : Enter(t, c)
  \/ ShutdownService

Spec == Init /\ [][Next]_vars

\* Threads inside a call go on and handlers end.  Nothing obliges the
\* application to make a request or to call run again, nor the outside world to
\* send an event.
FairSpec == Spec /\ \A a \in Actors : WF_vars(Step(a))

-----------------------------------------------------------------------------
(* Properties *)

\* All places an operation may be in while it waits to be executed.
Queues == {queue} \cup {private[t] : t \in Threads}

Occurrences(op) ==
  LET places == UNION {{t} \X DOMAIN private[t] : t \in Threads}
  IN  Cardinality({i \in DOMAIN queue : queue[i] = op})
        + Cardinality({p \in places : private[p[1]][p[2]] = op})

\* An operation is a link of one list.  The reactor may report a descriptor_state
\* again only after it has been dequeued, which nobody checks: it is the order of
\* ~task_cleanup, the task behind the operations it found, that ensures it; and
\* there is one task, queued or run by one thread.
QueuedOnce ==
  /\ \A op \in Handlers \cup {Descriptor} : Occurrences(op) <= 1
  /\ hasTask =>
       Occurrences(Task) + Cardinality({t \in Threads : pc[t] \in {"task", "reap"}}) = 1

\* Handlers that exist and have not ended.
Unfinished ==
  {h \in Handlers :
     \/ \E q \in Queues : \E i \in DOMAIN q : q[i] = h
     \/ h \in io
     \/ \E t \in Threads : cur[t] = h
     \/ \E a \in Actors : pushing[a] = h}

\* What threads have counted in private so far.
PrivatelyCounted == {p \in Threads \X (1 .. MaxHandlers) : p[2] <= privateWork[p[1]]}

\* Threads that have raised the count for a descriptor_state without a handler.
Compensated == {t \in Threads : cur[t] = Descriptor /\ pc[t] = "clean"}

\* The count of outstanding work, with what threads count in private, is the
\* number of handlers that have not ended and of work objects: run() neither
\* returns early nor keeps waiting for work that is not there.
WorkCounted ==
  ~shutdown =>
    work + Cardinality(PrivatelyCounted)
      = Cardinality(Unfinished) + Cardinality(holding) + Cardinality(Compensated)

\* A thread that is going to look at the queue, or has been asked to.
Attentive(t) ==
  \/ pc[t] \in {"loop", "reap"}
  \/ pc[t] \in {"clean", "stop"} /\ Looping(t) /\ ~throwing[t]
  \/ pc[t] = "wait" /\ bit /\ (t \notin asleep \/ signalling # {})
  \/ pc[t] = "task" /\ (~block[t] \/ interrupt)

\* Threads that sleep in the event or in the reactor.
Blocked == {t \in Threads : pc[t] = "wait" \/ (pc[t] = "task" /\ block[t])}

\* While an operation is queued no thread sleeps, in the event or in the
\* reactor, without another one being on its way to the queue: signals sent
\* after the mutex is released, the cleared event and the interrupted task never
\* add up to a lost wake-up.  Only a call that returns with operations on its
\* private queue leaves some behind (work_cleanup wakes nobody).
NoLostWakeup ==
  (queue # <<>> /\ ~stopped /\ ~leftBehind /\ ~shutdown /\ ~oneThread
     /\ Blocked # {})
  => \E t \in Threads : Attentive(t)

Queued(h) == \E i \in DOMAIN queue : queue[i] = h

\* The queue of handlers is worked off as long as threads stay in run() and
\* nobody stops them.
HandlersRun ==
  (\E h \in Handlers : Queued(h))
    ~> (~(\E h \in Handlers : Queued(h)) \/ stopped \/ leftBehind \/ Inside = {})

\* stop() gets every thread out of its sleep, also the one in the reactor.
StopReturns == stopped ~> (Blocked = {} \/ ~stopped)
=============================================================================
