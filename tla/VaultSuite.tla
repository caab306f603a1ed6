----------------------------- MODULE VaultSuite -----------------------------
(***************************************************************************)
(* tools/vault.py with the parts of tools/utils.py and                     *)
(* tools/vault_killer.py it calls: the menu from which a tester bootstraps *)
(* a network of local vaults, runs tests against it through                *)
(* vault_key_helper, churns it and kills it.  The script is one thread     *)
(* plus the threads TimeOut leaves behind; the vaults and the helpers are  *)
(* processes that outlive it.  The language is Python 3, the only one in   *)
(* which SetupBootstraps runs (str(..., encoding='utf8')).                 *)
(***************************************************************************)
EXTENDS Naturals, FiniteSets

CONSTANTS
  MinVaults,     \* smallest network RunBootstrapAndVaultSetup accepts (12)
  MaxVaults,     \* bound: largest network the tester asks for
  LineLimit,     \* lines SetupBootstraps waits for the endpoints (50)
  TestLines,     \* lines LookingFor reads at most: line_limit * repeats
  MaxHelpers,    \* bound: vault_key_helper processes started
  MaxPerIndex,   \* bound: vaults running with one identity
  CarefulUser    \* no network is set up before the last one is gone

ASSUME VaultAssumption ==
  /\ MinVaults \in Nat /\ MinVaults >= 2
  /\ MaxVaults \in Nat /\ MaxVaults >= MinVaults
  /\ LineLimit \in Nat \ {0}
  /\ TestLines \in Nat \ {0}
  /\ MaxHelpers \in Nat /\ MaxPerIndex \in Nat
  /\ CarefulUser \in BOOLEAN

VARIABLES
  pc,        \* where the script is; "down" when it has ended
  asked,     \* number of vaults the tester asked for
  next,      \* identity of the vault to start next
  lines,     \* lines of helper output SetupBootstraps has read
  helpers,   \* vault_key_helper processes started so far
  alive,     \* the helpers that are running
  worker,    \* TimeOut's thread of each helper
  read,      \* lines it has read
  running,   \* vaults running, per identity
  tracked,   \* the keys of processes
  started,   \* identities started by the last SetupBootstraps
  dirty,     \* chunk stores .csN holding data
  stale,     \* identities of this network that started on old data
  stop,      \* stop_churn
  sanity     \* outcome of the last SanityCheck

network == <<asked, next, lines, started, dirty, stale, sanity>>
threads == <<worker, read>>
vars == <<pc, network, helpers, alive, threads, running, tracked, stop>>

Index == 0 .. MaxVaults + 1
Helper == 1 .. MaxHelpers
Vaults == {i \in Index : running[i] > 0}
\* utils.CountProcs('vault') is 0; the helpers' name contains 'vault' too.
NoProcs == Vaults = {} /\ alive = {}

Init ==
  /\ pc = "menu"
  /\ asked = 0 /\ next = 0 /\ lines = 0
  /\ helpers = 0
  /\ alive = {}
  /\ worker = [h \in Helper |-> "none"]
  /\ read = [h \in Helper |-> 0]
  /\ running = [i \in Index |-> 0]
  /\ tracked = {}
  /\ started = {}
  /\ dirty = {}
  /\ stale = {}
  /\ stop = "d"
  /\ sanity = "none"

\* The session ends; what it started keeps running.
Down ==
  /\ pc' = "down"
  /\ UNCHANGED tracked

Popen ==
  /\ helpers < MaxHelpers
  /\ helpers' = helpers + 1
  /\ alive' = alive \cup {helpers + 1}

\* work(i) and SetUpNextNode(.., i): a vault with identity i on store .csi.
Work(i) ==
  /\ running[i] < MaxPerIndex
  /\ running' = [running EXCEPT ![i] = @ + 1]
  /\ tracked' = tracked \cup {i}
  /\ started' = started \cup {i}
  /\ stale' = stale \cup ({i} \cap dirty)
  /\ dirty' = dirty \cup {i}

RemoveChunkStores(num) == dirty' = dirty \ (0 .. num - 1)

\* KillProcess("vault_key_helper"): every helper on the machine, but a kill that
\* fails is passed over; the last helper is a child of the script, whose kill
\* does not fail.
KillVaultKeyHelper == alive' \in SUBSET (alive \ {helpers})

-----------------------------------------------------------------------------
(* Option 1: RunBootstrapAndVaultSetup *)

\* Mutant: the chunk stores are removed below the smallest network only.
RunBootstrapAndVaultSetupFew(num) ==
  /\ pc = "menu"
  /\ CarefulUser => NoProcs
  /\ Popen
  /\ asked' = num
  /\ RemoveChunkStores(MinVaults)
  /\ lines' = 0
  /\ started' = {}
  /\ stale' = {}
  /\ sanity' = "none"
  /\ pc' = "lines"
  /\ UNCHANGED <<next, threads, running, tracked, stop>>

\* RemoveChunkStores(num), then SanityCheck(num + 2) calls SetupBootstraps,
\* which starts the bootstrap nodes in a vault_key_helper.
RunBootstrapAndVaultSetup(num) ==
  /\ pc = "menu"
  /\ CarefulUser => NoProcs
  /\ Popen
  /\ asked' = num
  /\ RemoveChunkStores(num)
  /\ lines' = 0
  /\ started' = {}
  /\ stale' = {}
  /\ sanity' = "none"
  /\ pc' = "lines"
  /\ UNCHANGED <<next, threads, running, tracked, stop>>

\* Mutant: the line limit is tested one line late.
ReadLineOver ==
  /\ pc = "lines"
  /\ lines <= LineLimit
  /\ lines' = lines + 1
  /\ UNCHANGED <<pc, alive, asked, next, helpers, threads, running, tracked,
                 started, dirty, stale, sanity, stop>>

\* A line of helper output (or the end of it, which reads as empty lines):
\* the endpoints, or one more line towards the limit, where the helper is
\* killed and the check fails.
ReadLine ==
  /\ pc = "lines"
  /\ \/ /\ next' = 2
        /\ pc' = "spawn"
        /\ UNCHANGED <<lines, alive, sanity>>
     \/ /\ lines' = lines + 1
        /\ \/ lines + 1 < LineLimit /\ UNCHANGED <<pc, alive, sanity>>
           \/ /\ lines + 1 = LineLimit
              /\ alive' = alive \ {helpers}
              /\ sanity' = "failed"
              /\ pc' = "menu"
        /\ UNCHANGED next
  /\ UNCHANGED <<asked, helpers, threads, running, tracked, started,
                 dirty, stale, stop>>

\* Mutant: RunNetwork starts at 3, which SetupBootstraps has started already.
SpawnVaultTwice ==
  /\ pc = "spawn"
  /\ Work(next)
  /\ alive' = IF next = 3 THEN alive \ {helpers} ELSE alive
  /\ IF next = asked + 1
     THEN pc' = "menu" /\ sanity' = "passed" /\ UNCHANGED next
     ELSE /\ next' = IF next = 3 /\ helpers \in alive THEN 3 ELSE next + 1
          /\ UNCHANGED <<pc, sanity>>
  /\ UNCHANGED <<asked, lines, helpers, threads, stop>>

\* Mutant: RunNetwork stops one vault short.
SpawnVaultShort ==
  /\ pc = "spawn"
  /\ Work(next)
  /\ alive' = IF next = 3 THEN alive \ {helpers} ELSE alive
  /\ IF next = asked
     THEN pc' = "menu" /\ sanity' = "passed" /\ UNCHANGED next
     ELSE next' = next + 1 /\ UNCHANGED <<pc, sanity>>
  /\ UNCHANGED <<asked, lines, helpers, threads, stop>>

\* SetUpNextNode(.., 2) and work(3) next to the bootstrap nodes, which are
\* killed after the second; then RunNetwork works through range(4, num + 2).
SpawnVault ==
  /\ pc = "spawn"
  /\ Work(next)
  /\ alive' = IF next = 3 THEN alive \ {helpers} ELSE alive
  /\ IF next = asked + 1
     THEN pc' = "menu" /\ sanity' = "passed" /\ UNCHANGED next
     ELSE next' = next + 1 /\ UNCHANGED <<pc, sanity>>
  /\ UNCHANGED <<asked, lines, helpers, threads, stop>>

\* Popen raises OSError: nobody catches it and nobody kills the helper.
SpawnFails ==
  /\ pc = "spawn"
  /\ Down
  /\ UNCHANGED <<network, helpers, alive, threads, running, stop>>

-----------------------------------------------------------------------------
(* Options 2 to 6: tests through vault_key_helper *)

\* TestStore, TestStoreWithDelete and SaveKeys start a helper and hand its
\* output to LookingFor in a thread of TimeOut.
StartTest ==
  /\ pc = "menu"
  /\ ~NoProcs
  /\ Popen
  /\ worker' = [worker EXCEPT ![helpers + 1] = "reading"]
  /\ pc' = "test"
  /\ UNCHANGED <<network, read, running, tracked, stop>>

\* StartVaultsWithGivenBootstrap: CreateChunkStores, then keys made by a helper
\* it waits for.
StartVaultsWithGivenBootstrap(num) ==
  /\ pc = "menu"
  /\ NoProcs
  /\ Popen
  /\ RemoveChunkStores(num)
  /\ pc' = "makeKeys"
  /\ UNCHANGED <<asked, next, lines, started, stale, sanity, threads, running,
                 tracked, stop>>

\* The helper has made the keys: SaveKeys starts another one to store them.  A
\* prompt that is answered with no number, or a helper that cannot be started,
\* ends the session here.
KeysMade ==
  /\ pc = "makeKeys"
  /\ helpers \notin alive
  /\ \/ /\ Popen
        /\ worker' = [worker EXCEPT ![helpers + 1] = "reading"]
        /\ pc' = "givenBootstrap"
        /\ UNCHANGED tracked
     \/ Down /\ UNCHANGED <<helpers, alive, worker>>
  /\ UNCHANGED <<network, read, running, stop>>

\* Options 1 and 2 have emptied the chunk stores when Popen of the helper raises
\* OSError.
HelperFails(num) ==
  /\ pc = "menu"
  /\ CarefulUser => NoProcs
  /\ RemoveChunkStores(num)
  /\ Down
  /\ UNCHANGED <<asked, next, lines, started, stale, sanity, helpers, alive,
                 threads, running, stop>>

\* TestProlonged waits for the helper of each of its four steps.
TestProlonged ==
  /\ pc = "menu"
  /\ ~NoProcs
  /\ Popen
  /\ pc' = "prolonged"
  /\ UNCHANGED <<network, threads, running, tracked, stop>>

EndProlonged ==
  /\ pc = "prolonged"
  /\ helpers \notin alive
  /\ pc' = "menu"
  /\ UNCHANGED <<network, helpers, alive, threads, running, tracked,
                 stop>>

\* LookingFor: readline blocks while the helper is silent and returns at once
\* when it has gone; the thread ends with the last repeat or at the line limit.
LookingFor(h) ==
  /\ worker[h] = "reading"
  /\ read' = [read EXCEPT ![h] = @ + 1]
  /\ worker' = [worker EXCEPT ![h] =
                  IF read[h] + 1 = TestLines THEN "false" ELSE @]
  /\ UNCHANGED <<pc, network, helpers, alive, running, tracked, stop>>

LookingForFinds(h) ==
  /\ worker[h] = "reading"
  /\ worker' = [worker EXCEPT ![h] = "true"]
  /\ UNCHANGED <<pc, network, helpers, alive, read, running, tracked,
                 stop>>

\* Mutant: the helper is left to "proc.kill", which is not a call.
EndTestUncalled ==
  /\ pc \in {"test", "givenBootstrap"}
  /\ pc' = "menu"
  /\ UNCHANGED <<tracked, alive, network, helpers, threads,
                 running, stop>>

\* TimeOut returns the thread's result or, when join timed out, the default;
\* then KillVaultKeyHelper kills every helper on the machine.  With the keys
\* stored, option 2 calls RunNetwork with three arguments: a TypeError.
EndTest ==
  /\ pc \in {"test", "givenBootstrap"}
  /\ KillVaultKeyHelper
  /\ IF pc = "givenBootstrap" /\ worker[helpers] = "true"
     THEN Down
     ELSE pc' = "menu" /\ UNCHANGED tracked
  /\ UNCHANGED <<network, helpers, threads, running, stop>>

-----------------------------------------------------------------------------
(* Options 7 and 8, Ctrl-C and the end of a session *)

\* Churn divides by the number of vaults it knows, which after a restart is
\* none whatever runs on the machine.
StartChurn ==
  /\ pc = "menu"
  /\ ~NoProcs
  /\ IF tracked = {}
     THEN Down
     ELSE pc' = "churn" /\ UNCHANGED tracked
  /\ UNCHANGED <<network, helpers, alive, threads, running, stop>>

\* The interval is over and nobody stopped the churn:
\* random.choice(processes.keys()) raises a TypeError on a dict view.
ChurnStep ==
  /\ pc = "churn"
  /\ stop # "q"
  /\ Down
  /\ UNCHANGED <<network, helpers, alive, threads, running, stop>>

ChurnEnds ==
  /\ pc = "churn"
  /\ stop = "q"
  /\ stop' = "g"
  /\ pc' = "menu"
  /\ UNCHANGED <<network, helpers, alive, threads, running, tracked>>

\* SignalHandler, installed for the whole session.
CtrlC ==
  /\ pc # "down"
  /\ stop # "q"
  /\ stop' = "q"
  /\ UNCHANGED <<pc, network, helpers, alive, threads, running, tracked>>

\* KillLifeStuff kills everything with "vault" in its name, except where the
\* kill of a process that is no child of this session fails.
KillLifeStuff ==
  /\ pc = "menu"
  /\ ~NoProcs
  /\ alive' \in SUBSET alive
  /\ \E left \in SUBSET (Vaults \ tracked) :
       running' = [i \in Index |-> IF i \in left THEN running[i] ELSE 0]
  /\ tracked' = {}
  /\ UNCHANGED <<pc, network, helpers, threads, stop>>

\* 'm', or a number that is none in GetPositiveNumber (a ValueError), or the
\* helper of a test that cannot be started.
Quit ==
  /\ pc = "menu"
  /\ Down
  /\ UNCHANGED <<network, helpers, alive, threads, running, stop>>

\* The script is started again, with an empty processes.
Restart ==
  /\ pc = "down"
  /\ pc' = "menu"
  /\ tracked' = {}
  /\ stop' = "d"
  /\ UNCHANGED <<network, helpers, alive, threads, running>>

-----------------------------------------------------------------------------
(* The processes, and the system *)

VaultDies(i) ==
  /\ running[i] > 0
  /\ running' = [running EXCEPT ![i] = @ - 1]
  /\ UNCHANGED <<pc, network, helpers, alive, threads, tracked, stop>>

HelperExits(h) ==
  /\ h \in alive
  /\ alive' = alive \ {h}
  /\ UNCHANGED <<pc, network, helpers, threads, running, tracked,
                 stop>>

Setup == ReadLine \/ SpawnVault
Worker(h) == LookingFor(h) \/ LookingForFinds(h)

Next ==
  \/ \E num \in MinVaults .. MaxVaults : RunBootstrapAndVaultSetup(num)
  \/ \E num \in 1 .. MaxVaults : StartVaultsWithGivenBootstrap(num)
  \/ \E num \in 1 .. MaxVaults : HelperFails(num)
  \/ Setup \/ SpawnFails \/ StartTest \/ KeysMade \/ EndTest
  \/ TestProlonged \/ EndProlonged
  \/ StartChurn \/ ChurnStep \/ ChurnEnds \/ CtrlC \/ KillLifeStuff
  \/ Quit \/ Restart
  \/ \E h \in Helper : Worker(h) \/ HelperExits(h)
  \/ \E i \in Index : VaultDies(i)

Spec == Init /\ [][Next]_vars

\* The script runs, join times out, and a thread whose helper has gone reads
\* the end of its output; a live helper owes nobody a line.
FairSpec ==
  /\ Spec
  /\ WF_vars(EndTest)
  /\ \A h \in Helper : WF_vars(h \notin alive /\ Worker(h))

-----------------------------------------------------------------------------
(* Properties *)

\* What vault.py, its threads and its processes keep; SetupBootstraps reads no
\* line past its limit.
TypeOK ==
  /\ pc \in {"menu", "lines", "spawn", "test", "makeKeys",
            "givenBootstrap", "prolonged", "churn", "down"}
  /\ asked \in 0 .. MaxVaults
  /\ next \in Index
  /\ lines \in 0 .. LineLimit
  /\ helpers \in 0 .. MaxHelpers
  /\ alive \subseteq Helper
  /\ worker \in [Helper -> {"none", "reading", "true", "false"}]
  /\ read \in [Helper -> 0 .. TestLines]
  /\ running \in [Index -> 0 .. MaxPerIndex]
  /\ tracked \subseteq Index /\ started \subseteq Index
  /\ dirty \subseteq Index /\ stale \subseteq Index
  /\ stop \in {"d", "q", "g"}
  /\ sanity \in {"none", "failed", "passed"}

\* Two vaults never run with one identity and one chunk store, however a setup
\* was cut short, when the tester waits for the last network to be gone.
OneVaultPerIdentity == \A i \in Index : running[i] <= 1

\* After "Vault Sanity Check Passed" as many vaults have been started as the
\* tester asked for, the two started beside the bootstrap nodes included.
AsManyAsAsked ==
  sanity = "passed" => Cardinality(started) = asked

\* RemoveChunkStores(num) covers the identities below num and the network has
\* identities up to num + 1: only the last two vaults may find an old store.
StaleStoresBounded == stale \subseteq {asked, asked + 1}

\* The thread a timed-out test leaves behind ends, as KillVaultKeyHelper ends
\* the output it is reading.
WorkersEnd ==
  \A h \in Helper : (worker[h] = "reading") ~> (worker[h] # "reading")

=============================================================================
