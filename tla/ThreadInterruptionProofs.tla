---------------------- MODULE ThreadInterruptionProofs ----------------------
(***************************************************************************)
(* InterruptionInv holds for any number of threads and interrupters and    *)
(* any number of interrupts: one lemma per action, and under it one step   *)
(* per conjunct.  The three properties of ThreadInterruption that speak of *)
(* states follow from it.                                                  *)
(***************************************************************************)
EXTENDS ThreadInterruption, TLAPS

\* A state in which nobody has started satisfies the invariant.
LEMMA InitInv == Init => InterruptionInv
<1> SUFFICES ASSUME Init PROVE InterruptionInv
  OBVIOUS
<1> USE ThreadAssumption DEF Init
<1>1. TypeOK
  <2>1. /\ pc \in [Threads -> PC]
        /\ data \in [Threads -> Actors \cup {NoOne}]
        /\ interrupts \in 0 .. MaxInterrupts /\ spurious \in 0 .. MaxSpurious
    BY DEF PC, Actors
  <2>2. set \in [Threads -> BOOLEAN] /\ requested \in [Threads -> BOOLEAN]
    OBVIOUS
  <2>3. registered \in [Threads -> BOOLEAN] /\ ready \in BOOLEAN
    OBVIOUS
  <2> QED
    BY <2>1, <2>2, <2>3 DEF TypeOK, Actors
<1>2. DataOwner
  BY DEF DataOwner
<1>3. InternalOwner /\ UserOwner
  BY DEF InternalOwner, UserOwner
<1>4. Registration /\ RegisteredWhileUsed
  BY DEF Registration, RegisteredWhileUsed
<1>5. RequestSeen /\ NotificationSeen
  BY DEF RequestSeen, NotificationSeen
<1> QED
  BY <1>1, <1>2, <1>3, <1>4, <1>5 DEF InterruptionInv

\* The caller locks its mutex.
LEMMA LockUserKeeps ==
  ASSUME NEW t \in Threads, InterruptionInv, LockUser(t)
  PROVE  InterruptionInv'
<1> USE ThreadAssumption DEF InterruptionInv, Goto, LockData, UnlockData, info,
    locks, others
<1>1. TypeOK'
  BY DEF LockUser, TypeOK, Actors, PC
<1>2. DataOwner'
  BY DEF LockUser, DataOwner
<1>3. InternalOwner'
  BY DEF LockUser, InternalOwner
<1>4. UserOwner'
  BY DEF LockUser, TypeOK, UserOwner
<1>5. Registration'
  BY DEF LockUser, Registration
<1>6. RegisteredWhileUsed'
  BY DEF LockUser, RegisteredWhileUsed
<1>7. RequestSeen'
  BY DEF LockUser, RequestSeen
<1>8. NotificationSeen'
  BY DEF LockUser, NotificationSeen
<1> QED
  BY <1>1, <1>2, <1>3, <1>4, <1>5, <1>6, <1>7, <1>8

\* The wait is over, or the constructor starts.
LEMMA TestKeeps ==
  ASSUME NEW t \in Threads, InterruptionInv, Test(t)
  PROVE  InterruptionInv'
<1> USE ThreadAssumption DEF InterruptionInv, Goto, LockData, UnlockData, info,
    locks, others
<1>1. TypeOK'
  BY DEF Test, TypeOK, PC
<1>2. DataOwner'
  BY DEF Test, TypeOK, DataOwner
<1>3. InternalOwner'
  BY DEF Test, TypeOK, InternalOwner
<1>4. UserOwner'
  BY DEF Test, TypeOK, UserOwner
<1>5. Registration'
  BY DEF Test, TypeOK, Registration
<1>6. RegisteredWhileUsed'
  BY DEF Test, RegisteredWhileUsed
<1>7. RequestSeen'
  BY DEF Test, TypeOK, RequestSeen, Registration
<1>8. NotificationSeen'
  BY DEF Test, TypeOK, NotificationSeen
<1> QED
  BY <1>1, <1>2, <1>3, <1>4, <1>5, <1>6, <1>7, <1>8

\* The constructor takes data_mutex.
LEMMA CtorDataKeeps ==
  ASSUME NEW t \in Threads, InterruptionInv, CtorData(t)
  PROVE  InterruptionInv'
<1> USE ThreadAssumption DEF InterruptionInv, Goto, LockData, UnlockData, info,
    locks, others
<1>1. TypeOK'
  BY DEF CtorData, TypeOK, Actors, PC
<1>2. DataOwner'
  BY DEF CtorData, TypeOK, DataOwner
<1>3. InternalOwner'
  BY DEF CtorData, InternalOwner
<1>4. UserOwner'
  BY DEF CtorData, UserOwner
<1>5. Registration'
  BY DEF CtorData, Registration
<1>6. RegisteredWhileUsed'
  BY DEF CtorData, RegisteredWhileUsed
<1>7. RequestSeen'
  BY DEF CtorData, RequestSeen
<1>8. NotificationSeen'
  BY DEF CtorData, NotificationSeen
<1> QED
  BY <1>1, <1>2, <1>3, <1>4, <1>5, <1>6, <1>7, <1>8

\* The constructor throws, or registers the condition variable.
LEMMA CheckKeeps ==
  ASSUME NEW t \in Threads, InterruptionInv, Check(t)
  PROVE  InterruptionInv'
<1> USE ThreadAssumption DEF InterruptionInv, Goto, LockData, UnlockData, info,
    locks, others
<1>1. TypeOK'
  BY ZenonT(40) DEF Check, TypeOK, PC
<1>2. DataOwner'
  BY DEF Check, TypeOK, DataOwner, Registration
<1>3. InternalOwner'
  BY DEF Check, TypeOK, InternalOwner
<1>4. UserOwner'
  BY DEF Check, TypeOK, UserOwner
<1>5. Registration'
  BY DEF Check, TypeOK, Registration
<1>6. RegisteredWhileUsed'
  BY DEF Check, TypeOK, RegisteredWhileUsed
<1>7. RequestSeen'
  BY DEF Check, TypeOK, RequestSeen
<1>8. NotificationSeen'
  BY DEF Check, NotificationSeen
<1> QED
  BY <1>1, <1>2, <1>3, <1>4, <1>5, <1>6, <1>7, <1>8

\* The constructor hands over from data_mutex to the internal mutex.
LEMMA CtorLockKeeps ==
  ASSUME NEW t \in Threads, InterruptionInv, CtorLock(t)
  PROVE  InterruptionInv'
<1> USE ThreadAssumption DEF InterruptionInv, Goto, LockData, UnlockData, info,
    locks, others
<1>1. TypeOK'
  BY DEF CtorLock, TypeOK, Actors, PC
<1>2. DataOwner'
  BY DEF CtorLock, TypeOK, DataOwner
<1>3. InternalOwner'
  BY DEF CtorLock, TypeOK, InternalOwner
<1>4. UserOwner'
  BY DEF CtorLock, UserOwner
<1>5. Registration'
  BY DEF CtorLock, Registration
<1>6. RegisteredWhileUsed'
  BY DEF CtorLock, RegisteredWhileUsed
<1>7. RequestSeen'
  BY DEF CtorLock, RequestSeen
<1>8. NotificationSeen'
  BY DEF CtorLock, NotificationSeen
<1> QED
  BY <1>1, <1>2, <1>3, <1>4, <1>5, <1>6, <1>7, <1>8

\* wait() lets go of the caller's mutex.
LEMMA UnlockUserKeeps ==
  ASSUME NEW t \in Threads, InterruptionInv, UnlockUser(t)
  PROVE  InterruptionInv'
<1> USE ThreadAssumption DEF InterruptionInv, Goto, LockData, UnlockData, info,
    locks, others
<1>1. TypeOK'
  BY DEF UnlockUser, TypeOK, PC
<1>2. DataOwner'
  BY DEF UnlockUser, DataOwner
<1>3. InternalOwner'
  BY DEF UnlockUser, InternalOwner
<1>4. UserOwner'
  BY DEF UnlockUser, TypeOK, UserOwner
<1>5. Registration'
  BY DEF UnlockUser, Registration
<1>6. RegisteredWhileUsed'
  BY DEF UnlockUser, RegisteredWhileUsed
<1>7. RequestSeen'
  BY DEF UnlockUser, RequestSeen
<1>8. NotificationSeen'
  BY DEF UnlockUser, NotificationSeen
<1> QED
  BY <1>1, <1>2, <1>3, <1>4, <1>5, <1>6, <1>7, <1>8

\* The thread goes to sleep.
LEMMA BlockKeeps ==
  ASSUME NEW t \in Threads, InterruptionInv, Block(t)
  PROVE  InterruptionInv'
<1> USE ThreadAssumption DEF InterruptionInv, Goto, LockData, UnlockData, info,
    locks, others
<1>1. TypeOK'
  BY DEF Block, TypeOK, PC
<1>2. DataOwner'
  BY DEF Block, DataOwner
<1>3. InternalOwner'
  BY DEF Block, TypeOK, InternalOwner
<1>4. UserOwner'
  BY DEF Block, UserOwner
<1>5. Registration'
  BY DEF Block, TypeOK, Registration
<1>6. RegisteredWhileUsed'
  BY DEF Block, RegisteredWhileUsed
<1>7. RequestSeen'
  BY DEF Block, RequestSeen
<1>8. NotificationSeen'
  BY DEF Block, NotificationSeen
<1> QED
  BY <1>1, <1>2, <1>3, <1>4, <1>5, <1>6, <1>7, <1>8

\* The thread wakes up with the internal mutex.
LEMMA AwakeKeeps ==
  ASSUME NEW t \in Threads, InterruptionInv, Awake(t)
  PROVE  InterruptionInv'
<1> USE ThreadAssumption DEF InterruptionInv, Goto, LockData, UnlockData, info,
    locks, others
<1>1. TypeOK'
  BY DEF Awake, TypeOK, Actors, PC
<1>2. DataOwner'
  BY DEF Awake, DataOwner
<1>3. InternalOwner'
  BY DEF Awake, TypeOK, InternalOwner
<1>4. UserOwner'
  BY DEF Awake, UserOwner
<1>5. Registration'
  BY DEF Awake, Registration
<1>6. RegisteredWhileUsed'
  BY DEF Awake, RegisteredWhileUsed
<1>7. RequestSeen'
  BY DEF Awake, RequestSeen
<1>8. NotificationSeen'
  BY DEF Awake, NotificationSeen
<1> QED
  BY <1>1, <1>2, <1>3, <1>4, <1>5, <1>6, <1>7, <1>8

\* The destructor releases the internal mutex.
LEMMA DtorUnlockKeeps ==
  ASSUME NEW t \in Threads, InterruptionInv, DtorUnlock(t)
  PROVE  InterruptionInv'
<1> USE ThreadAssumption DEF InterruptionInv, Goto, LockData, UnlockData, info,
    locks, others
<1>1. TypeOK'
  BY DEF DtorUnlock, TypeOK, PC
<1>2. DataOwner'
  BY DEF DtorUnlock, DataOwner
<1>3. InternalOwner'
  BY DEF DtorUnlock, TypeOK, InternalOwner
<1>4. UserOwner'
  BY DEF DtorUnlock, UserOwner
<1>5. Registration'
  BY DEF DtorUnlock, Registration
<1>6. RegisteredWhileUsed'
  BY DEF DtorUnlock, RegisteredWhileUsed
<1>7. RequestSeen'
  BY DEF DtorUnlock, RequestSeen
<1>8. NotificationSeen'
  BY DEF DtorUnlock, NotificationSeen
<1> QED
  BY <1>1, <1>2, <1>3, <1>4, <1>5, <1>6, <1>7, <1>8

\* The destructor takes data_mutex.
LEMMA DtorDataKeeps ==
  ASSUME NEW t \in Threads, InterruptionInv, DtorData(t)
  PROVE  InterruptionInv'
<1> USE ThreadAssumption DEF InterruptionInv, Goto, LockData, UnlockData, info,
    locks, others
<1>1. TypeOK'
  BY DEF DtorData, TypeOK, Actors, PC
<1>2. DataOwner'
  BY DEF DtorData, TypeOK, DataOwner
<1>3. InternalOwner'
  BY DEF DtorData, InternalOwner
<1>4. UserOwner'
  BY DEF DtorData, UserOwner
<1>5. Registration'
  BY DEF DtorData, Registration
<1>6. RegisteredWhileUsed'
  BY DEF DtorData, RegisteredWhileUsed
<1>7. RequestSeen'
  BY DEF DtorData, RequestSeen
<1>8. NotificationSeen'
  BY DEF DtorData, NotificationSeen
<1> QED
  BY <1>1, <1>2, <1>3, <1>4, <1>5, <1>6, <1>7, <1>8

\* The destructor unregisters the condition variable.
LEMMA DtorClearKeeps ==
  ASSUME NEW t \in Threads, InterruptionInv, DtorClear(t)
  PROVE  InterruptionInv'
<1> USE ThreadAssumption DEF InterruptionInv, Goto, LockData, UnlockData, info,
    locks, others
<1>1. TypeOK'
  BY DEF DtorClear, TypeOK, PC
<1>2. DataOwner'
  BY DEF DtorClear, TypeOK, DataOwner
<1>3. InternalOwner'
  BY DEF DtorClear, InternalOwner
<1>4. UserOwner'
  BY DEF DtorClear, UserOwner
<1>5. Registration'
  BY DEF DtorClear, TypeOK, Registration
<1>6. RegisteredWhileUsed'
  BY DEF DtorClear, TypeOK, RegisteredWhileUsed, DataOwner
<1>7. RequestSeen'
  BY DEF DtorClear, RequestSeen
<1>8. NotificationSeen'
  BY DEF DtorClear, NotificationSeen
<1> QED
  BY <1>1, <1>2, <1>3, <1>4, <1>5, <1>6, <1>7, <1>8

\* wait() locks the caller's mutex again.
LEMMA RelockKeeps ==
  ASSUME NEW t \in Threads, InterruptionInv, Relock(t)
  PROVE  InterruptionInv'
<1> USE ThreadAssumption DEF InterruptionInv, Goto, LockData, UnlockData, info,
    locks, others
<1>1. TypeOK'
  BY DEF Relock, TypeOK, Actors, PC
<1>2. DataOwner'
  BY DEF Relock, DataOwner
<1>3. InternalOwner'
  BY DEF Relock, InternalOwner
<1>4. UserOwner'
  BY DEF Relock, TypeOK, UserOwner
<1>5. Registration'
  BY DEF Relock, Registration
<1>6. RegisteredWhileUsed'
  BY DEF Relock, RegisteredWhileUsed
<1>7. RequestSeen'
  BY DEF Relock, RequestSeen
<1>8. NotificationSeen'
  BY DEF Relock, NotificationSeen
<1> QED
  BY <1>1, <1>2, <1>3, <1>4, <1>5, <1>6, <1>7, <1>8

\* wait() ends with an interruption point.
LEMMA InterruptionPointKeeps ==
  ASSUME NEW t \in Threads, InterruptionInv, InterruptionPoint(t)
  PROVE  InterruptionInv'
<1> USE ThreadAssumption DEF InterruptionInv, Goto, LockData, UnlockData, info,
    locks, others
<1>1. TypeOK'
  <2>1. CASE set[t] /\ requested[t]
    <3>1. requested' = [requested EXCEPT ![t] = FALSE]
      BY <2>1 DEF InterruptionPoint
    <3>2. requested' \in [Threads -> BOOLEAN]
      BY <3>1 DEF TypeOK
    <3>3. pc' \in [Threads -> PC]
      BY <2>1 DEF InterruptionPoint, TypeOK, PC
    <3> QED
      BY <3>2, <3>3 DEF InterruptionPoint, TypeOK
  <2>2. CASE ~(set[t] /\ requested[t])
    BY <2>2 DEF InterruptionPoint, TypeOK, Actors, PC
  <2> QED
    BY <2>1, <2>2
<1>2. DataOwner'
  BY DEF InterruptionPoint, TypeOK, DataOwner
<1>3. InternalOwner'
  BY DEF InterruptionPoint, TypeOK, InternalOwner
<1>4. UserOwner'
  BY DEF InterruptionPoint, TypeOK, UserOwner
<1>5. Registration'
  BY DEF InterruptionPoint, TypeOK, Registration
<1>6. RegisteredWhileUsed'
  BY DEF InterruptionPoint, RegisteredWhileUsed
<1>7. RequestSeen'
  BY DEF InterruptionPoint, TypeOK, RequestSeen
<1>8. NotificationSeen'
  BY DEF InterruptionPoint, TypeOK, NotificationSeen
<1> QED
  BY <1>1, <1>2, <1>3, <1>4, <1>5, <1>6, <1>7, <1>8

\* The caller's lock ends.
LEMMA LeaveKeeps ==
  ASSUME NEW t \in Threads, InterruptionInv, Leave(t)
  PROVE  InterruptionInv'
<1> USE ThreadAssumption DEF InterruptionInv, Goto, LockData, UnlockData, info,
    locks, others
<1>1. TypeOK'
  BY DEF Leave, TypeOK, PC
<1>2. DataOwner'
  BY DEF Leave, DataOwner
<1>3. InternalOwner'
  BY DEF Leave, InternalOwner
<1>4. UserOwner'
  BY DEF Leave, TypeOK, UserOwner
<1>5. Registration'
  BY DEF Leave, Registration
<1>6. RegisteredWhileUsed'
  BY DEF Leave, RegisteredWhileUsed
<1>7. RequestSeen'
  BY DEF Leave, RequestSeen
<1>8. NotificationSeen'
  BY DEF Leave, NotificationSeen
<1> QED
  BY <1>1, <1>2, <1>3, <1>4, <1>5, <1>6, <1>7, <1>8

\* A thread wakes up without reason.
LEMMA SpuriousKeeps ==
  ASSUME NEW t \in Threads, InterruptionInv, Spurious(t)
  PROVE  InterruptionInv'
<1> USE ThreadAssumption DEF InterruptionInv, Goto, LockData, UnlockData, info,
    locks, others
<1>1. TypeOK'
  BY DEF Spurious, TypeOK, PC
<1>2. DataOwner'
  BY DEF Spurious, DataOwner
<1>3. InternalOwner'
  BY DEF Spurious, InternalOwner
<1>4. UserOwner'
  BY DEF Spurious, UserOwner
<1>5. Registration'
  BY DEF Spurious, Registration
<1>6. RegisteredWhileUsed'
  BY DEF Spurious, RegisteredWhileUsed
<1>7. RequestSeen'
  BY DEF Spurious, RequestSeen
<1>8. NotificationSeen'
  BY DEF Spurious, NotificationSeen
<1> QED
  BY <1>1, <1>2, <1>3, <1>4, <1>5, <1>6, <1>7, <1>8

\* interrupt() sets the request.
LEMMA FlagKeeps ==
  ASSUME NEW i \in Interrupters, InterruptionInv, Flag(i)
  PROVE  InterruptionInv'
<1> USE ThreadAssumption DEF InterruptionInv, Goto, LockData, UnlockData, info,
    locks, others
<1>1. TypeOK'
  BY DEF Flag, TypeOK, PC
<1>2. DataOwner'
  BY DEF Flag, TypeOK, DataOwner
<1>3. InternalOwner'
  BY DEF Flag, TypeOK, InternalOwner
<1>4. UserOwner'
  BY DEF Flag, UserOwner
<1>5. Registration'
  BY DEF Flag, Registration
<1>6. RegisteredWhileUsed'
  BY DEF Flag, TypeOK, RegisteredWhileUsed
<1>7. RequestSeen'
  BY DEF Flag, TypeOK, RequestSeen, DataOwner, Registration
<1>8. NotificationSeen'
  BY DEF Flag, NotificationSeen
<1> QED
  BY <1>1, <1>2, <1>3, <1>4, <1>5, <1>6, <1>7, <1>8

\* interrupt() takes the internal mutex.
LEMMA LockCondKeeps ==
  ASSUME NEW i \in Interrupters, InterruptionInv, LockCond(i)
  PROVE  InterruptionInv'
<1> USE ThreadAssumption DEF InterruptionInv, Goto, LockData, UnlockData, info,
    locks, others
<1>1. TypeOK'
  BY DEF LockCond, TypeOK, Actors, PC
<1>2. DataOwner'
  BY DEF LockCond, DataOwner
<1>3. InternalOwner'
  BY DEF LockCond, TypeOK, InternalOwner
<1>4. UserOwner'
  BY DEF LockCond, UserOwner
<1>5. Registration'
  BY DEF LockCond, Registration
<1>6. RegisteredWhileUsed'
  BY DEF LockCond, RegisteredWhileUsed
<1>7. RequestSeen'
  BY DEF LockCond, RequestSeen
<1>8. NotificationSeen'
  BY DEF LockCond, NotificationSeen
<1> QED
  BY <1>1, <1>2, <1>3, <1>4, <1>5, <1>6, <1>7, <1>8

\* interrupt() wakes everybody and returns.
LEMMA BroadcastKeeps ==
  ASSUME NEW i \in Interrupters, InterruptionInv, Broadcast(i)
  PROVE  InterruptionInv'
<1> USE ThreadAssumption DEF InterruptionInv, Goto, LockData, UnlockData, info,
    locks, others
<1>1. TypeOK'
  BY DEF Broadcast, TypeOK, PC
<1>2. DataOwner'
  BY DEF Broadcast, TypeOK, DataOwner
<1>3. InternalOwner'
  BY DEF Broadcast, TypeOK, InternalOwner
<1>4. UserOwner'
  BY DEF Broadcast, UserOwner
<1>5. Registration'
  BY DEF Broadcast, Registration
<1>6. RegisteredWhileUsed'
  BY DEF Broadcast, RegisteredWhileUsed
<1>7. RequestSeen'
  BY DEF Broadcast, TypeOK, RequestSeen, InternalOwner
<1>8. NotificationSeen'
  BY DEF Broadcast, NotificationSeen
<1> QED
  BY <1>1, <1>2, <1>3, <1>4, <1>5, <1>6, <1>7, <1>8

\* interrupt() takes the target's data_mutex.
LEMMA StartInterruptKeeps ==
  ASSUME NEW i \in Interrupters, NEW t \in Threads, InterruptionInv, StartInterrupt(i, t)
  PROVE  InterruptionInv'
<1> USE ThreadAssumption DEF InterruptionInv, Goto, LockData, UnlockData, info,
    locks, others
<1>1. TypeOK'
  BY DEF StartInterrupt, TypeOK, Actors, PC
<1>2. DataOwner'
  BY DEF StartInterrupt, TypeOK, DataOwner
<1>3. InternalOwner'
  BY DEF StartInterrupt, InternalOwner
<1>4. UserOwner'
  BY DEF StartInterrupt, UserOwner
<1>5. Registration'
  BY DEF StartInterrupt, Registration
<1>6. RegisteredWhileUsed'
  BY DEF StartInterrupt, RegisteredWhileUsed
<1>7. RequestSeen'
  BY DEF StartInterrupt, RequestSeen
<1>8. NotificationSeen'
  BY DEF StartInterrupt, NotificationSeen
<1> QED
  BY <1>1, <1>2, <1>3, <1>4, <1>5, <1>6, <1>7, <1>8

\* A step of the notifier.
LEMMA NotifyKeeps ==
  ASSUME InterruptionInv, Notify
  PROVE  InterruptionInv'
<1> USE ThreadAssumption DEF InterruptionInv, Goto, LockData, UnlockData, info,
    locks, others
<1>1. TypeOK'
  BY DEF Notify, TypeOK, Actors, PC
<1>2. DataOwner'
  BY DEF Notify, DataOwner
<1>3. InternalOwner'
  BY DEF Notify, InternalOwner
<1>4. UserOwner'
  BY DEF Notify, UserOwner
<1>5. Registration'
  BY DEF Notify, Registration
<1>6. RegisteredWhileUsed'
  BY DEF Notify, RegisteredWhileUsed
<1>7. RequestSeen'
  BY DEF Notify, RequestSeen
<1>8. NotificationSeen'
  BY DEF Notify, TypeOK, NotificationSeen, InternalOwner, UserOwner
<1> QED
  BY <1>1, <1>2, <1>3, <1>4, <1>5, <1>6, <1>7, <1>8

\* The invariant is inductive.
LEMMA NextKeeps == InterruptionInv /\ [Next]_vars => InterruptionInv'
<1> SUFFICES ASSUME InterruptionInv, [Next]_vars PROVE InterruptionInv'
  OBVIOUS
<1>1. ASSUME NEW t \in Threads, Thread(t) PROVE InterruptionInv'
  BY <1>1, LockUserKeeps, TestKeeps, CtorDataKeeps, CheckKeeps, CtorLockKeeps,
     UnlockUserKeeps, BlockKeeps, AwakeKeeps, DtorUnlockKeeps, DtorDataKeeps,
     DtorClearKeeps, RelockKeeps, InterruptionPointKeeps, LeaveKeeps
  DEF Thread
<1>2. ASSUME NEW t \in Threads, Spurious(t) PROVE InterruptionInv'
  BY <1>2, SpuriousKeeps
<1>3. ASSUME NEW i \in Interrupters, Interrupt(i) PROVE InterruptionInv'
  BY <1>3, FlagKeeps, LockCondKeeps, BroadcastKeeps DEF Interrupt
<1>4. ASSUME NEW i \in Interrupters, NEW t \in Threads, StartInterrupt(i, t)
      PROVE  InterruptionInv'
  BY <1>4, StartInterruptKeeps
<1>5. CASE Notify
  BY <1>5, NotifyKeeps
<1>6. CASE UNCHANGED vars
  BY <1>6
  DEF vars, info, locks, others, InterruptionInv, TypeOK, DataOwner,
    InternalOwner,
      UserOwner, Registration, RegisteredWhileUsed, RequestSeen, NotificationSeen
<1> QED
  BY <1>1, <1>2, <1>3, <1>4, <1>5, <1>6 DEF Next

\* Who holds which mutex, and what is registered when, is as InterruptionInv
\* says in every state, for every number of threads and interrupts.
THEOREM Invariant == Spec => []InterruptionInv
  BY InitInv, NextKeeps, PTL DEF Spec

\* A thread blocked in pthread_cond_wait with interrupt_requested set has its
\* interrupter on the way to the broadcast: the constructor's nested locks
\* leave no gap between check_for_interruption and the sleep.
THEOREM InterruptsAreNotLost == Spec => []NoLostInterrupt
<1>1. InterruptionInv => NoLostInterrupt
  BY DEF InterruptionInv, RequestSeen, TypeOK, NoLostInterrupt
<1> QED
  BY <1>1, Invariant, PTL

\* A thread blocked in pthread_cond_wait when the flag is set has the notifier
\* on the way to it: the constructor locks the internal mutex before wait()
\* unlocks the caller's.
THEOREM WakeupsAreNotLost == Spec => []NoLostWakeup
<1>1. InterruptionInv => NoLostWakeup
  BY DEF InterruptionInv, NotificationSeen, TypeOK, NoLostWakeup
<1> QED
  BY <1>1, Invariant, PTL

\* The destructor does not unregister a condition variable that interrupt() is
\* about to lock and broadcast.
THEOREM NoUseAfterUnregistering == Spec => []RegisteredWhileUsed
<1>1. InterruptionInv => RegisteredWhileUsed
  BY DEF InterruptionInv
<1> QED
  BY <1>1, Invariant, PTL

=============================================================================
