------------------------- MODULE ThreadInterruption -------------------------
(***************************************************************************)
(* The patched boost/thread/pthread/thread_data.hpp: thread_data_base and  *)
(* interruption_checker, the object condition_variable::wait builds around *)
(* pthread_cond_wait so that thread::interrupt can wake the waiter.        *)
(*                                                                         *)
(* Threads wait for a flag, ready, in the usual loop                       *)
(*     lock(user); while (!ready) cond.wait(user);                         *)
(* a notifier sets it and calls notify_all, and interrupters call          *)
(* interrupt().  Three kinds of mutex are involved: user, the internal     *)
(* mutex of the condition variable, and the data_mutex of each thread.     *)
(* The calling code (condition_variable, thread::interrupt and             *)
(* interruption_point of Boost.Thread 1.57) is not in the repository; its  *)
(* steps are modelled from the protocol the header implements.             *)
(***************************************************************************)
EXTENDS Naturals

CONSTANTS
  Threads,        \* the threads that wait
  Interrupters,   \* the threads that call interrupt()
  Notifier,       \* the thread that sets ready and calls notify_all
  NoOne,          \* owner of a free mutex
  MaxInterrupts,  \* bound: calls of interrupt()
  MaxSpurious     \* bound: spurious returns of pthread_cond_wait

ASSUME ThreadAssumption ==
  /\ Notifier \notin Threads \cup Interrupters
  /\ NoOne \notin Threads \cup Interrupters \cup {Notifier}
  /\ Threads \cap Interrupters = {}
  /\ MaxInterrupts \in Nat
  /\ MaxSpurious \in Nat

VARIABLES
  pc,         \* control state of the waiting threads
  set,        \* interruption_checker::set, interrupt_enabled at construction
  requested,  \* thread_data_base::interrupt_requested
  registered, \* thread_data_base::current_cond and cond_mutex are not NULL
  data,       \* owner of thread_data_base::data_mutex
  internal,   \* owner of the condition variable's internal mutex
  user,       \* owner of the mutex the caller passes to wait
  sleeping,   \* threads blocked in pthread_cond_wait
  ready,      \* the condition the threads wait for
  ipc,        \* control state of the interrupters
  target,     \* the thread an interrupter interrupts
  npc,        \* control state of the notifier
  interrupts, \* calls of interrupt() so far
  spurious    \* spurious wake-ups so far

locks == <<data, internal, user>>
info == <<set, requested, registered>>
others == <<ready, ipc, target, npc, interrupts, spurious>>
vars == <<pc, info, locks, sleeping, others>>

Actors == Threads \cup Interrupters \cup {Notifier}

PC == {"start", "test", "ctorData", "check", "ctorLock", "unlockUser", "block",
       "asleep", "dtorUnlock", "dtorData", "dtorClear", "relock", "point",
       "thrown", "leave", "done"}

Init ==
  /\ pc = [t \in Threads |-> "start"]
  /\ set = [t \in Threads |-> FALSE]
  /\ requested = [t \in Threads |-> FALSE]
  /\ registered = [t \in Threads |-> FALSE]
  /\ data = [t \in Threads |-> NoOne]
  /\ internal = NoOne
  /\ user = NoOne
  /\ sleeping = {}
  /\ ready = FALSE
  /\ ipc = [i \in Interrupters |-> "idle"]
  /\ target \in [Interrupters -> Threads]
  /\ npc = "idle"
  /\ interrupts = 0
  /\ spurious = 0

Goto(t, l) == pc' = [pc EXCEPT ![t] = l]

\* Taking and releasing the data_mutex of t.
LockData(t, who) == data[t] = NoOne /\ data' = [data EXCEPT ![t] = who]
UnlockData(t) == data' = [data EXCEPT ![t] = NoOne]

-----------------------------------------------------------------------------
(* A waiting thread *)

\* The caller locks its mutex.
LockUser(t) ==
  /\ pc[t] = "start"
  /\ user = NoOne
  /\ user' = t
  /\ Goto(t, "test")
  /\ UNCHANGED <<info, data, internal, sleeping, others>>

\* Either the wait is over or wait() builds an interruption_checker, whose set
\* is the thread's interrupt_enabled (disable_interruption may be in force).
Test(t) ==
  /\ pc[t] = "test"
  /\ \/ ready /\ Goto(t, "leave") /\ UNCHANGED set
     \/ /\ ~ready
        /\ \E enabled \in BOOLEAN :
             /\ set' = [set EXCEPT ![t] = enabled]
             /\ Goto(t, IF enabled THEN "ctorData" ELSE "ctorLock")
  /\ UNCHANGED <<requested, registered, locks, sleeping, others>>

\* lock_guard<mutex> guard(thread_info->data_mutex).
CtorData(t) ==
  /\ pc[t] = "ctorData"
  /\ LockData(t, t)
  /\ Goto(t, "check")
  /\ UNCHANGED <<info, internal, user, sleeping, others>>

\* Mutant: data_mutex is released before the internal mutex is taken.
CheckUnlocking(t) ==
  /\ pc[t] = "check"
  /\ IF requested[t]
     THEN /\ requested' = [requested EXCEPT ![t] = FALSE]
          /\ Goto(t, "thrown")
          /\ UNCHANGED registered
     ELSE /\ registered' = [registered EXCEPT ![t] = TRUE]
          /\ Goto(t, "ctorLock")
          /\ UNCHANGED requested
  /\ UnlockData(t)
  /\ UNCHANGED <<set, internal, user, sleeping, others>>

\* Mutant: current_cond and cond_mutex are not registered.
CheckUnregistered(t) ==
  /\ pc[t] = "check"
  /\ IF requested[t]
     THEN /\ requested' = [requested EXCEPT ![t] = FALSE]
          /\ UnlockData(t)
          /\ Goto(t, "thrown")
     ELSE /\ Goto(t, "ctorLock")
          /\ UNCHANGED <<requested, data>>
  /\ UNCHANGED <<registered, set, internal, user, sleeping, others>>

\* check_for_interruption() resets the request and throws out of the
\* constructor, or the condition variable is registered.
Check(t) ==
  /\ pc[t] = "check"
  /\ \/ /\ requested[t]
        /\ requested' = [requested EXCEPT ![t] = FALSE]
        /\ UnlockData(t)
        /\ Goto(t, "thrown")
        /\ UNCHANGED registered
     \/ /\ ~requested[t]
        /\ registered' = [registered EXCEPT ![t] = TRUE]
        /\ Goto(t, "ctorLock")
        /\ UNCHANGED <<requested, data>>
  /\ UNCHANGED <<set, internal, user, sleeping, others>>

\* Mutant: the branch without interruption forgets to lock m.
CtorLockMissing(t) ==
  /\ pc[t] = "ctorLock"
  /\ ~set[t]
  /\ Goto(t, "unlockUser")
  /\ UNCHANGED <<info, locks, sleeping, others>>

\* pthread_mutex_lock(m); then the guard releases data_mutex.
CtorLock(t) ==
  /\ pc[t] = "ctorLock"
  /\ internal = NoOne
  /\ internal' = t
  /\ IF set[t] THEN UnlockData(t) ELSE UNCHANGED data
  /\ Goto(t, "unlockUser")
  /\ UNCHANGED <<info, user, sleeping, others>>

\* wait() releases the caller's mutex: guard.activate(m).
UnlockUser(t) ==
  /\ pc[t] = "unlockUser"
  /\ user' = NoOne
  /\ Goto(t, "block")
  /\ UNCHANGED <<info, data, internal, sleeping, others>>

\* pthread_cond_wait: release the internal mutex and sleep in one step, and
\* take the mutex again when woken.
Block(t) ==
  /\ pc[t] = "block"
  /\ internal' = IF internal = t THEN NoOne ELSE internal
  /\ sleeping' = sleeping \cup {t}
  /\ Goto(t, "asleep")
  /\ UNCHANGED <<info, data, user, others>>

Awake(t) ==
  /\ pc[t] = "asleep"
  /\ t \notin sleeping
  /\ internal = NoOne
  /\ internal' = t
  /\ Goto(t, "dtorUnlock")
  /\ UNCHANGED <<info, data, user, sleeping, others>>

\* Mutant: the destructor takes data_mutex with the internal mutex held.
DtorUnlockLate(t) ==
  /\ pc[t] = "dtorUnlock"
  /\ \/ /\ set[t]
        /\ data[t] = NoOne
        /\ internal' = NoOne
        /\ registered' = [registered EXCEPT ![t] = FALSE]
     \/ ~set[t] /\ internal' = NoOne /\ UNCHANGED registered
  /\ Goto(t, "relock")
  /\ UNCHANGED <<set, requested, data, user, sleeping, others>>

\* ~interruption_checker(): pthread_mutex_unlock(m) comes first.
DtorUnlock(t) ==
  /\ pc[t] = "dtorUnlock"
  /\ internal' = NoOne
  /\ Goto(t, IF set[t] THEN "dtorData" ELSE "relock")
  /\ UNCHANGED <<info, data, user, sleeping, others>>

\* Mutant: the destructor clears the pointers without data_mutex.
DtorDataUnlocked(t) ==
  /\ pc[t] = "dtorData"
  /\ registered' = [registered EXCEPT ![t] = FALSE]
  /\ Goto(t, "relock")
  /\ UNCHANGED <<set, requested, locks, sleeping, others>>

DtorData(t) ==
  /\ pc[t] = "dtorData"
  /\ LockData(t, t)
  /\ Goto(t, "dtorClear")
  /\ UNCHANGED <<info, internal, user, sleeping, others>>

\* cond_mutex = NULL, current_cond = NULL, and the guard ends.
DtorClear(t) ==
  /\ pc[t] = "dtorClear"
  /\ registered' = [registered EXCEPT ![t] = FALSE]
  /\ UnlockData(t)
  /\ Goto(t, "relock")
  /\ UNCHANGED <<set, requested, internal, user, sleeping, others>>

\* wait() locks the caller's mutex again.
Relock(t) ==
  /\ pc[t] = "relock"
  /\ user = NoOne
  /\ user' = t
  /\ Goto(t, "point")
  /\ UNCHANGED <<info, data, internal, sleeping, others>>

\* interruption_point() at the end of wait().
InterruptionPoint(t) ==
  /\ pc[t] = "point"
  /\ set[t] => data[t] = NoOne
  /\ \/ /\ set[t] /\ requested[t]
        /\ requested' = [requested EXCEPT ![t] = FALSE]
        /\ Goto(t, "thrown")
     \/ /\ ~(set[t] /\ requested[t])
        /\ Goto(t, "test")
        /\ UNCHANGED requested
  /\ UNCHANGED <<set, registered, locks, sleeping, others>>

\* The caller's lock goes out of scope, by thread_interrupted or normally.
Leave(t) ==
  /\ pc[t] \in {"thrown", "leave"}
  /\ user' = NoOne
  /\ Goto(t, "done")
  /\ UNCHANGED <<info, data, internal, sleeping, others>>

Thread(t) ==
  \/ LockUser(t) \/ Test(t) \/ CtorData(t) \/ Check(t) \/ CtorLock(t)
  \/ UnlockUser(t) \/ Block(t) \/ Awake(t) \/ DtorUnlock(t) \/ DtorData(t)
  \/ DtorClear(t) \/ Relock(t) \/ InterruptionPoint(t) \/ Leave(t)

-----------------------------------------------------------------------------
(* thread::interrupt() *)

StartInterrupt(i, t) ==
  /\ ipc[i] = "idle"
  /\ interrupts < MaxInterrupts
  /\ LockData(t, i)
  /\ interrupts' = interrupts + 1
  /\ target' = [target EXCEPT ![i] = t]
  /\ ipc' = [ipc EXCEPT ![i] = "flag"]
  /\ UNCHANGED <<pc, info, internal, user, sleeping, ready, npc, spurious>>

\* interrupt_requested = true; return unless a condition is registered.
Flag(i) ==
  LET t == target[i] IN
  /\ ipc[i] = "flag"
  /\ requested' = [requested EXCEPT ![t] = TRUE]
  /\ IF registered[t]
     THEN ipc' = [ipc EXCEPT ![i] = "lock"] /\ UNCHANGED data
     ELSE ipc' = [ipc EXCEPT ![i] = "idle"] /\ UnlockData(t)
  /\ UNCHANGED <<pc, set, registered, internal, user, sleeping, ready, target,
                 npc, interrupts, spurious>>

LockCond(i) ==
  /\ ipc[i] = "lock"
  /\ internal = NoOne
  /\ internal' = i
  /\ ipc' = [ipc EXCEPT ![i] = "broadcast"]
  /\ UNCHANGED <<pc, info, data, user, sleeping, ready, target, npc,
                 interrupts, spurious>>

\* pthread_cond_broadcast(current_cond), then both locks are released.
Broadcast(i) ==
  /\ ipc[i] = "broadcast"
  /\ sleeping' = {}
  /\ internal' = NoOne
  /\ UnlockData(target[i])
  /\ ipc' = [ipc EXCEPT ![i] = "idle"]
  /\ UNCHANGED <<pc, info, user, ready, target, npc, interrupts, spurious>>

Interrupt(i) == Flag(i) \/ LockCond(i) \/ Broadcast(i)

-----------------------------------------------------------------------------
(* The notifier, and the system *)

Notify ==
  /\ \/ /\ npc = "idle" /\ user = NoOne
        /\ user' = Notifier
        /\ npc' = "set"
        /\ UNCHANGED <<internal, sleeping, ready>>
     \/ /\ npc = "set"
        /\ ready' = TRUE
        /\ user' = NoOne
        /\ npc' = "lock"
        /\ UNCHANGED <<internal, sleeping>>
     \/ /\ npc = "lock" /\ internal = NoOne
        /\ internal' = Notifier
        /\ npc' = "notify"
        /\ UNCHANGED <<user, sleeping, ready>>
     \/ /\ npc = "notify"
        /\ sleeping' = {}
        /\ internal' = NoOne
        /\ npc' = "done"
        /\ UNCHANGED <<user, ready>>
  /\ UNCHANGED <<pc, info, data, ipc, target, interrupts, spurious>>

\* pthread_cond_wait may return without reason.
Spurious(t) ==
  /\ t \in sleeping
  /\ spurious < MaxSpurious
  /\ spurious' = spurious + 1
  /\ sleeping' = sleeping \ {t}
  /\ UNCHANGED <<pc, info, locks, ready, ipc, target, npc, interrupts>>

Next ==
  \/ \E t \in Threads : Thread(t) \/ Spurious(t)
  \/ \E i \in Interrupters : Interrupt(i)
  \/ \E i \in Interrupters, t \in Threads : StartInterrupt(i, t)
  \/ Notify

Spec == Init /\ [][Next]_vars

\* Every thread keeps running; nobody need ever notify.
FairSpec ==
  /\ Spec
  /\ \A t \in Threads : WF_vars(Thread(t))
  /\ \A i \in Interrupters : WF_vars(Interrupt(i))
  /\ WF_vars(npc # "idle" /\ Notify)

-----------------------------------------------------------------------------
(* Properties *)

\* What the waiting threads, the interrupters and the notifier keep.
TypeOK ==
  /\ pc \in [Threads -> PC]
  /\ set \in [Threads -> BOOLEAN]
  /\ requested \in [Threads -> BOOLEAN]
  /\ registered \in [Threads -> BOOLEAN]
  /\ data \in [Threads -> Actors \cup {NoOne}]
  /\ internal \in Actors \cup {NoOne}
  /\ user \in Actors \cup {NoOne}
  /\ sleeping \subseteq Threads
  /\ ready \in BOOLEAN
  /\ ipc \in [Interrupters -> {"idle", "flag", "lock", "broadcast"}]
  /\ target \in [Interrupters -> Threads]
  /\ npc \in {"idle", "set", "lock", "notify", "done"}
  /\ interrupts \in 0 .. MaxInterrupts
  /\ spurious \in 0 .. MaxSpurious

\* A thread never sleeps through an interrupt: while it is blocked in
\* pthread_cond_wait with interruption on, a pending interrupt_requested means
\* that the interrupter is still on its way to the broadcast.
NoLostInterrupt ==
  \A t \in sleeping :
    set[t] /\ requested[t] =>
      \E i \in Interrupters : target[i] = t /\ ipc[i] \in {"lock", "broadcast"}

\* A thread never sleeps through a notification: the constructor locks the
\* internal mutex before wait() lets go of the caller's mutex.
NoLostWakeup ==
  sleeping # {} /\ ready => npc \in {"lock", "notify"}

\* The condition variable an interrupter locks and broadcasts stays registered
\* until it has finished: the destructor clears it under data_mutex only.
RegisteredWhileUsed ==
  \A i \in Interrupters :
    ipc[i] \in {"lock", "broadcast"} => registered[target[i]]

\* An interrupt of a sleeping thread reaches it as thread_interrupted, though
\* nobody notifies and whatever else wakes it first.
InterruptDelivered ==
  \A t \in Threads :
    (pc[t] = "asleep" /\ set[t] /\ requested[t]) ~> (pc[t] = "thrown")

\* The three kinds of mutex are taken in an order in which nobody waits for
\* ever: once somebody starts to notify, every thread returns from its wait.
EveryoneReturns ==
  (npc # "idle") ~> (\A t \in Threads : pc[t] = "done")

-----------------------------------------------------------------------------
(* Why they hold: who holds which mutex where, what is registered when, and *)
(* what a thread on its way to sleep may rely on.                           *)

\* data_mutex is held by its thread inside the guards of interruption_checker,
\* or by the one interrupter that works on the thread.
DataOwner ==
  \A t \in Threads :
    /\ data[t] \in Interrupters \cup {t, NoOne}
    /\ data[t] = t <=> \/ pc[t] \in {"check", "dtorClear"}
                       \/ pc[t] = "ctorLock" /\ set[t]
    /\ \A i \in Interrupters :
         data[t] = i <=> ipc[i] # "idle" /\ target[i] = t

InternalOwner ==
  /\ \A t \in Threads :
       internal = t <=> pc[t] \in {"unlockUser", "block", "dtorUnlock"}
  /\ \A i \in Interrupters : internal = i <=> ipc[i] = "broadcast"
  /\ internal = Notifier <=> npc = "notify"

UserOwner ==
  /\ \A t \in Threads :
       user = t <=> pc[t] \in {"test", "ctorData", "check", "ctorLock",
                               "unlockUser", "point", "thrown", "leave"}
  /\ user = Notifier <=> npc = "set"

\* current_cond is registered from the check to the end of the destructor.
Registration ==
  \A t \in Threads :
    /\ registered[t] <=>
         /\ set[t]
         /\ pc[t] \in {"ctorLock", "unlockUser", "block", "asleep", "dtorUnlock",
                       "dtorData", "dtorClear"}
    /\ pc[t] \in {"ctorData", "check", "dtorData", "dtorClear"} => set[t]
    /\ t \in sleeping => pc[t] = "asleep"

\* From the check to its sleep a thread with a pending request has an
\* interrupter on its way to the broadcast.
RequestSeen ==
  \A t \in Threads :
    /\ pc[t] = "ctorLock" /\ set[t] => ~requested[t]
    /\ set[t] /\ requested[t] /\ (pc[t] \in {"unlockUser", "block"} \/ t \in sleeping)
         => \E i \in Interrupters : target[i] = t /\ ipc[i] \in {"lock", "broadcast"}

\* From its test of ready to its sleep a thread keeps the notification off,
\* first with the caller's mutex and then with the internal one.
NotificationSeen ==
  /\ ready <=> npc \in {"lock", "notify", "done"}
  /\ \A t \in Threads :
       /\ pc[t] \in {"ctorData", "check", "ctorLock", "unlockUser"} => ~ready
       /\ pc[t] = "block" /\ ready => npc = "lock"
       /\ t \in sleeping /\ ready => npc \in {"lock", "notify"}

InterruptionInv ==
  /\ TypeOK
  /\ DataOwner
  /\ InternalOwner
  /\ UserOwner
  /\ Registration
  /\ RegisteredWhileUsed
  /\ RequestSeen
  /\ NotificationSeen

=============================================================================
