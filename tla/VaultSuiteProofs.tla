-------------------------- MODULE VaultSuiteProofs --------------------------
(***************************************************************************)
(* Proofs about VaultSuite, for any limits of the scripts and any bounds:  *)
(* type correctness, what "Vault Sanity Check Passed" stands for, which    *)
(* vaults may find an old chunk store and, for a tester who waits for the  *)
(* last network to be gone, that an identity has one vault.                *)
(***************************************************************************)
EXTENDS VaultSuite, FiniteSetTheorems, TLAPS

-----------------------------------------------------------------------------
(* The inductive invariant *)

\* LookingFor's thread has not read its last line while it is reading, and
\* reads the output of a helper that has been started.
LinesLeft ==
  \A h \in Helper :
    /\ worker[h] = "reading" => read[h] < TestLines
    /\ h > helpers => worker[h] = "none" /\ read[h] = 0

\* A set up in progress: which line SetupBootstraps is at and which vault comes
\* next; no outcome is known yet.
InProgress ==
  /\ pc \in {"lines", "spawn"} => asked >= MinVaults /\ sanity = "none"
  /\ pc = "lines" => lines < LineLimit
  /\ pc = "spawn" => next \in 2 .. asked + 1

\* What the set up in progress, or the last one that passed, has started.
StartedSoFar ==
  /\ pc = "lines" => started = {}
  /\ pc = "spawn" => started = 2 .. next - 1
  /\ sanity = "passed" => started = 2 .. asked + 1

\* The stores RemoveChunkStores(num) emptied are empty until their vault starts.
StoresCleared ==
  /\ pc = "lines" => dirty \cap (0 .. asked - 1) = {}
  /\ pc = "spawn" => dirty \cap (next .. asked - 1) = {}

VaultInv ==
  /\ TypeOK
  /\ LinesLeft
  /\ InProgress
  /\ StartedSoFar
  /\ StoresCleared
  /\ StaleStoresBounded

\* The identities still to come are free.
Free ==
  /\ pc = "lines" => \A i \in Index : running[i] = 0
  /\ pc = "spawn" => \A i \in Index : i >= next => running[i] = 0

-----------------------------------------------------------------------------
(* Types *)

\* What the environment of the scripts starts with has the types.
LEMMA InitTypes == Init => TypeOK
BY VaultAssumption DEF Init, TypeOK, Index, Helper

\* The set up starts a helper and reads no line past LineLimit; a vault's
\* identity is at most asked + 1.
LEMMA SetupTypes ==
  ASSUME TypeOK, InProgress,
         \/ \E num \in MinVaults .. MaxVaults : RunBootstrapAndVaultSetup(num)
         \/ Setup
  PROVE  TypeOK'
<1> USE VaultAssumption
<1>1. ASSUME NEW num \in MinVaults .. MaxVaults, RunBootstrapAndVaultSetup(num)
      PROVE  TypeOK'
  BY <1>1 DEF TypeOK, RunBootstrapAndVaultSetup, Popen, RemoveChunkStores,
       threads, Index, Helper
<1>2. CASE ReadLine
  <2>1. CASE next' = 2 /\ pc' = "spawn" /\ UNCHANGED <<lines, alive, sanity>>
    BY <1>2, <2>1 DEF TypeOK, ReadLine, threads, Index
  <2>2. CASE /\ lines' = lines + 1
             /\ pc' = pc \/ pc' = "menu"
             /\ alive' \subseteq alive
             /\ sanity' = sanity \/ sanity' = "failed"
             /\ UNCHANGED next
    BY <1>2, <2>2 DEF TypeOK, InProgress, ReadLine, threads
  <2>3. QED
    BY <1>2, <2>1, <2>2 DEF ReadLine
<1>3. CASE SpawnVault
  <2>1. /\ running' = [running EXCEPT ![next] = @ + 1]
        /\ running[next] < MaxPerIndex
        /\ tracked' = tracked \cup {next} /\ started' = started \cup {next}
        /\ stale' \subseteq stale \cup {next} /\ dirty' = dirty \cup {next}
    BY <1>3 DEF SpawnVault, Work
  <2>2. /\ next \in Index /\ next' \in Index
        /\ pc' \in {"spawn", "menu"} /\ sanity' \in {"passed", sanity}
        /\ alive' \subseteq alive
    BY <1>3 DEF TypeOK, InProgress, SpawnVault, Index
  <2>3. UNCHANGED <<asked, lines, helpers, worker, read, stop>>
    BY <1>3 DEF SpawnVault, threads
  <2>4. running' \in [Index -> 0 .. MaxPerIndex]
    BY <2>1, <2>2 DEF TypeOK
  <2>5. QED
    BY <2>1, <2>2, <2>3, <2>4 DEF TypeOK
<1>4. QED
  BY <1>1, <1>2, <1>3 DEF Setup

\* The tests start helpers and threads.
LEMMA TestTypes ==
  ASSUME TypeOK, LinesLeft,
         \/ \E num \in 1 .. MaxVaults : StartVaultsWithGivenBootstrap(num)
         \/ StartTest \/ KeysMade \/ EndTest \/ TestProlonged \/ EndProlonged
         \/ \E h \in Helper : Worker(h)
  PROVE  TypeOK'
<1> USE VaultAssumption
<1>1. ASSUME NEW num \in 1 .. MaxVaults, StartVaultsWithGivenBootstrap(num)
      PROVE  TypeOK'
  BY <1>1 DEF TypeOK, StartVaultsWithGivenBootstrap, Popen, RemoveChunkStores,
       threads, Helper
<1>2. CASE StartTest
  BY <1>2 DEF TypeOK, StartTest, Popen, network, Helper
<1>3. CASE KeysMade
  <2>1. CASE Popen /\ worker' = [worker EXCEPT ![helpers + 1] = "reading"]
             /\ pc' = "givenBootstrap" /\ UNCHANGED tracked
    BY <1>3, <2>1 DEF TypeOK, KeysMade, Popen, network, Helper
  <2>2. CASE Down /\ UNCHANGED <<helpers, alive, worker>>
    BY <1>3, <2>2 DEF TypeOK, KeysMade, Down, network
  <2>3. QED
    BY <1>3, <2>1, <2>2 DEF KeysMade
<1>4. CASE EndTest
  BY <1>4 DEF TypeOK, EndTest, Down, KillVaultKeyHelper, network, threads
<1>5. CASE TestProlonged
  BY <1>5 DEF TypeOK, TestProlonged, Popen, network, threads, Helper
<1>6. CASE EndProlonged
  BY <1>6 DEF TypeOK, EndProlonged, network, threads
<1>7. ASSUME NEW h \in Helper, LookingFor(h)
      PROVE  TypeOK'
  BY <1>7 DEF TypeOK, LinesLeft, LookingFor, network
<1>8. ASSUME NEW h \in Helper, LookingForFinds(h)
      PROVE  TypeOK'
  BY <1>8 DEF TypeOK, LookingForFinds, network
<1>9. QED
  BY <1>1, <1>2, <1>4, <1>5, <1>6, <1>7, <1>8, <1>3 DEF Worker

\* The other options, the end of a session and what processes do by themselves.
LEMMA SessionTypes ==
  ASSUME TypeOK,
         \/ SpawnFails \/ StartChurn \/ ChurnStep \/ ChurnEnds \/ CtrlC
         \/ KillLifeStuff \/ Quit \/ Restart
         \/ \E num \in 1 .. MaxVaults : HelperFails(num)
         \/ \E h \in Helper : HelperExits(h)
         \/ \E i \in Index : VaultDies(i)
  PROVE  TypeOK'
<1> USE VaultAssumption
<1>1. CASE SpawnFails \/ StartChurn \/ ChurnStep \/ Quit
  BY <1>1 DEF TypeOK, SpawnFails, StartChurn, ChurnStep, Quit, Down,
       network, threads
<1>2. CASE ChurnEnds \/ CtrlC \/ Restart
  BY <1>2 DEF TypeOK, ChurnEnds, CtrlC, Restart, network, threads
<1>3. CASE KillLifeStuff
  BY <1>3 DEF TypeOK, KillLifeStuff, network, threads
<1>6. ASSUME NEW num \in 1 .. MaxVaults, HelperFails(num)
      PROVE  TypeOK'
  BY <1>6 DEF TypeOK, HelperFails, RemoveChunkStores, Down, threads
<1>4. ASSUME NEW h \in Helper, HelperExits(h)
      PROVE  TypeOK'
  BY <1>4 DEF TypeOK, HelperExits, network, threads
<1>5. ASSUME NEW i \in Index, VaultDies(i)
      PROVE  TypeOK'
  BY <1>5 DEF TypeOK, VaultDies, network, threads
<1>7. QED
  BY <1>1, <1>2, <1>3, <1>4, <1>5, <1>6

\* A step of the system is one of a set up, a test or the rest.
LEMMA StepTypes ==
  ASSUME TypeOK, LinesLeft, InProgress, [Next]_vars
  PROVE  TypeOK'
<1>1. CASE UNCHANGED vars
  BY <1>1 DEF TypeOK, vars, network, threads
<1>2. CASE Next
  BY <1>2, SetupTypes, TestTypes, SessionTypes DEF Next
<1>3. QED
  BY <1>1, <1>2

-----------------------------------------------------------------------------
(* The threads of TimeOut *)

\* Only LookingFor reads, and its thread ends with the last line; a thread is
\* given to a helper when the helper is started.
LEMMA LinesLeftKept ==
  ASSUME TypeOK, LinesLeft, [Next]_vars
  PROVE  LinesLeft'
<1> USE VaultAssumption
<1>1. CASE UNCHANGED <<worker, read>> /\ (helpers' = helpers \/ Popen)
  BY <1>1 DEF TypeOK, LinesLeft, Popen, Helper
<1>2. CASE /\ Popen
           /\ worker' = [worker EXCEPT ![helpers + 1] = "reading"]
           /\ UNCHANGED read
  BY <1>2 DEF TypeOK, LinesLeft, Popen, Helper
<1>3. ASSUME NEW h \in Helper, LookingFor(h)
      PROVE  LinesLeft'
  <2>1. /\ worker[h] = "reading" /\ read[h] \in Nat /\ read[h] < TestLines
        /\ ~(h > helpers) /\ helpers' = helpers
    BY <1>3 DEF TypeOK, LinesLeft, LookingFor
  <2>2. /\ read'[h] = read[h] + 1
        /\ worker'[h] = "reading" => read[h] + 1 # TestLines
    BY <1>3 DEF TypeOK, LookingFor
  <2>3. \A g \in Helper : g # h => worker'[g] = worker[g] /\ read'[g] = read[g]
    BY <1>3 DEF TypeOK, LookingFor
  <2>4. QED
    BY <2>1, <2>2, <2>3 DEF LinesLeft
<1>4. ASSUME NEW h \in Helper, LookingForFinds(h)
      PROVE  LinesLeft'
  BY <1>4 DEF TypeOK, LinesLeft, LookingForFinds, Helper
<1>5. CASE UNCHANGED vars
  BY <1>1, <1>5 DEF vars, threads
<1>6. ASSUME NEW num \in MinVaults .. MaxVaults, RunBootstrapAndVaultSetup(num)
      PROVE  LinesLeft'
  BY <1>1, <1>6 DEF RunBootstrapAndVaultSetup, threads
<1>7. ASSUME NEW num \in 1 .. MaxVaults, StartVaultsWithGivenBootstrap(num)
      PROVE  LinesLeft'
  BY <1>1, <1>7 DEF StartVaultsWithGivenBootstrap, threads
<1>8. CASE KeysMade
  BY <1>1, <1>2, <1>8 DEF KeysMade
<1>9. CASE \E num \in 1 .. MaxVaults : HelperFails(num)
  BY <1>1, <1>9 DEF HelperFails, threads
<1>10. CASE StartTest
  BY <1>2, <1>10 DEF StartTest
<1>11. CASE TestProlonged
  BY <1>1, <1>11 DEF TestProlonged, threads
<1>12. CASE Setup \/ SpawnFails \/ EndTest \/ EndProlonged
  BY <1>1, <1>12 DEF Setup, ReadLine, SpawnVault, SpawnFails, EndTest,
       EndProlonged, threads
<1>13. CASE \/ StartChurn \/ ChurnStep \/ ChurnEnds \/ CtrlC \/ KillLifeStuff
            \/ Quit \/ Restart
  BY <1>1, <1>13 DEF StartChurn, ChurnStep, ChurnEnds, CtrlC, KillLifeStuff,
       Quit, Restart, threads
<1>14. CASE \/ \E h \in Helper : HelperExits(h)
            \/ \E i \in Index : VaultDies(i)
  BY <1>1, <1>14 DEF HelperExits, VaultDies, threads
<1>15. QED
  BY <1>3, <1>4, <1>5, <1>6, <1>7, <1>8, <1>9, <1>10, <1>11, <1>12, <1>13,
     <1>14 DEF Next, Worker

-----------------------------------------------------------------------------
(* The progress of a set up *)

SetupState ==
  /\ InProgress
  /\ StartedSoFar
  /\ StoresCleared
  /\ StaleStoresBounded

\* Everything but RunBootstrapAndVaultSetup, ReadLine and SpawnVault leaves the
\* set up alone, or ends it, and starts no vault.
Elsewhere ==
  /\ UNCHANGED <<asked, next, lines, started, stale, sanity>>
  /\ dirty' \subseteq dirty
  /\ \A i \in Index : running'[i] <= running[i]
  /\ pc' = pc \/ pc' \notin {"lines", "spawn"}

\* The other options, Ctrl-C, the processes and the end of a session.
LEMMA OthersElsewhere ==
  ASSUME TypeOK, [Next]_vars
  PROVE  \/ \E num \in MinVaults .. MaxVaults : RunBootstrapAndVaultSetup(num)
         \/ ReadLine \/ SpawnVault
         \/ Elsewhere
<1> USE DEF Elsewhere, network, Down
<1>0. \A i \in Index : running[i] \in Nat
  BY DEF TypeOK
<1>1. CASE UNCHANGED vars
  BY <1>0, <1>1 DEF vars
<1>2. CASE \E num \in 1 .. MaxVaults : StartVaultsWithGivenBootstrap(num)
  BY <1>0, <1>2 DEF StartVaultsWithGivenBootstrap, RemoveChunkStores
<1>3. CASE KeysMade \/ \E num \in 1 .. MaxVaults : HelperFails(num)
  BY <1>0, <1>3 DEF KeysMade, HelperFails, RemoveChunkStores
<1>4. CASE \/ SpawnFails \/ StartTest \/ EndTest \/ TestProlonged
           \/ EndProlonged \/ StartChurn
  BY <1>0, <1>4 DEF SpawnFails, StartTest, EndTest, TestProlonged, EndProlonged,
       StartChurn
<1>5. CASE \/ ChurnStep \/ ChurnEnds \/ CtrlC \/ KillLifeStuff \/ Quit
           \/ Restart
  BY <1>0, <1>5 DEF ChurnStep, ChurnEnds, CtrlC, KillLifeStuff, Quit, Restart
<1>6. CASE \/ \E h \in Helper : Worker(h) \/ HelperExits(h)
           \/ \E i \in Index : VaultDies(i)
  BY <1>0, <1>6 DEF Worker, LookingFor, LookingForFinds, HelperExits, VaultDies, TypeOK
<1>7. QED
  BY <1>1, <1>2, <1>4, <1>5, <1>6, <1>3 DEF Next, Setup

\* Each vault is started in its turn: one on a store that was emptied, or with
\* one of the two identities RemoveChunkStores(num) does not reach.
LEMMA SpawnVaultState ==
  ASSUME TypeOK, SetupState, SpawnVault
  PROVE  SetupState'
<1> USE VaultAssumption DEF SetupState
<1>1. next \in 2 .. asked + 1 /\ started = 2 .. next - 1 /\ sanity = "none"
  BY DEF SpawnVault, InProgress, StartedSoFar
<1>2. started' = 2 .. next
  BY <1>1 DEF SpawnVault, Work, TypeOK
<1>3. InProgress'
  BY <1>1 DEF SpawnVault, TypeOK, InProgress
<1>4. StartedSoFar'
  BY <1>1, <1>2 DEF SpawnVault, TypeOK, StartedSoFar
<1>5. StoresCleared'
  BY <1>1 DEF SpawnVault, Work, TypeOK, StoresCleared
<1>6. StaleStoresBounded'
  BY <1>1 DEF SpawnVault, Work, TypeOK, StoresCleared, StaleStoresBounded
<1>7. QED
  BY <1>3, <1>4, <1>5, <1>6

\* A step keeps track of the set up.
LEMMA SetupStateKept ==
  ASSUME TypeOK, SetupState, [Next]_vars
  PROVE  SetupState'
<1> USE VaultAssumption DEF SetupState
<1>1. ASSUME NEW num \in MinVaults .. MaxVaults, RunBootstrapAndVaultSetup(num)
      PROVE  SetupState'
  BY <1>1 DEF TypeOK, RunBootstrapAndVaultSetup, RemoveChunkStores, InProgress,
       StartedSoFar, StoresCleared, StaleStoresBounded
<1>2. CASE ReadLine
  <2>1. InProgress'
    BY <1>2 DEF ReadLine, TypeOK, InProgress
  <2>2. StartedSoFar'
    <3>1. started' = {} /\ sanity' # "passed" /\ (pc' = "spawn" => next' = 2)
      BY <1>2 DEF ReadLine, StartedSoFar, InProgress
    <3>2. 2 .. 2 - 1 = {}
      OBVIOUS
    <3>3. QED
      BY <3>1, <3>2 DEF StartedSoFar
  <2>3. StoresCleared' /\ StaleStoresBounded'
    BY <1>2 DEF ReadLine, TypeOK, StoresCleared, StaleStoresBounded
  <2>4. QED
    BY <2>1, <2>2, <2>3
<1>3. CASE Elsewhere
  BY <1>3 DEF Elsewhere, InProgress, StartedSoFar, StoresCleared,
       StaleStoresBounded
<1>4. QED
  BY <1>1, <1>2, <1>3, SpawnVaultState, OthersElsewhere

-----------------------------------------------------------------------------
(* The theorems *)

\* The invariant holds in every reachable state.
LEMMA VaultAlways == Spec => []VaultInv
<1>1. Init => VaultInv
  BY VaultAssumption, InitTypes DEF Init, VaultInv, TypeOK, LinesLeft,
     InProgress, StartedSoFar, StoresCleared, StaleStoresBounded, Index, Helper
<1>2. VaultInv /\ [Next]_vars => VaultInv'
  BY StepTypes, LinesLeftKept, SetupStateKept
     DEF VaultInv, SetupState
<1>3. QED
  BY <1>1, <1>2, PTL DEF Spec

\* The lists, counters, threads and processes of vault.py have their types, for
\* every limit and bound: SetupBootstraps and LookingFor stop at their limits.
THEOREM VaultTypes == Spec => []TypeOK
BY VaultAlways, PTL DEF VaultInv

\* When SanityCheck has printed "Vault Sanity Check Passed", SetupBootstraps and
\* RunNetwork have started exactly as many vaults as the tester asked for.
THEOREM PassedMeansAsked == Spec => []AsManyAsAsked
<1>1. VaultInv => AsManyAsAsked
  <2> SUFFICES ASSUME VaultInv, sanity = "passed"
               PROVE  Cardinality(started) = asked
    BY DEF AsManyAsAsked
  <2>1. asked \in Nat /\ started = 2 .. asked + 1
    BY VaultAssumption DEF VaultInv, TypeOK, StartedSoFar
  <2>2. Cardinality(2 .. asked + 1) = asked
    BY <2>1, FS_Interval
  <2>3. QED
    BY <2>1, <2>2
<1>2. QED
  BY <1>1, VaultAlways, PTL

\* However set ups were cut short before, at most the last two vaults of the
\* network RunBootstrapAndVaultSetup makes find data in their chunk store.
THEOREM OldStoresBounded == Spec => []StaleStoresBounded
BY VaultAlways, PTL DEF VaultInv

-----------------------------------------------------------------------------
(* One vault per identity *)

\* A set up that begins when everything is gone starts each identity once: the
\* ones it has not come to are free.
LEMMA FreeKept ==
  ASSUME CarefulUser, VaultInv, Free, OneVaultPerIdentity, [Next]_vars
  PROVE  Free' /\ OneVaultPerIdentity'
<1> USE VaultAssumption DEF Free, OneVaultPerIdentity
<1>0. TypeOK /\ InProgress
  BY DEF VaultInv
<1>1. ASSUME NEW num \in MinVaults .. MaxVaults, RunBootstrapAndVaultSetup(num)
      PROVE  Free' /\ OneVaultPerIdentity'
  <2>1. \A i \in Index : running[i] = 0
    BY <1>0, <1>1 DEF RunBootstrapAndVaultSetup, NoProcs, Vaults, TypeOK
  <2>2. QED
    BY <1>1, <2>1 DEF RunBootstrapAndVaultSetup
<1>2. CASE ReadLine
  BY <1>0, <1>2 DEF ReadLine, TypeOK
<1>3. CASE SpawnVault
  <2>1. next \in Index /\ running[next] = 0
    BY <1>0, <1>3 DEF SpawnVault, TypeOK, Index
  <2>2. running' = [running EXCEPT ![next] = 1]
    BY <1>0, <1>3, <2>1 DEF SpawnVault, Work, TypeOK
  <2>3. OneVaultPerIdentity'
    BY <1>0, <2>1, <2>2 DEF TypeOK
  <2>4. Free'
    BY <1>0, <1>3, <2>1, <2>2 DEF SpawnVault, TypeOK, Index
  <2>5. QED
    BY <2>3, <2>4
<1>4. CASE Elsewhere
  <2>1. running' \in [Index -> Nat]
    BY <1>0, StepTypes DEF VaultInv, TypeOK
  <2>2. QED
    BY <1>0, <1>4, <2>1 DEF Elsewhere, TypeOK
<1>5. QED
  BY <1>0, <1>1, <1>2, <1>3, <1>4, OthersElsewhere

\* For a tester who sets up a network only when CountProcs finds none of the
\* last one, two vaults never share an identity and its chunk store.
THEOREM OneVaultEach ==
  ASSUME CarefulUser
  PROVE  Spec => []OneVaultPerIdentity
<1>1. Init => Free /\ OneVaultPerIdentity
  BY DEF Init, Free, OneVaultPerIdentity, Index
<1>2. VaultInv /\ Free /\ OneVaultPerIdentity /\ [Next]_vars
        => Free' /\ OneVaultPerIdentity'
  BY FreeKept
<1>3. QED
  BY <1>1, <1>2, VaultAlways, PTL DEF Spec

=============================================================================
