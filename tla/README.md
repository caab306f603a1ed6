# Verification of the MaidSafe superproject

TLA+ models of the code that lives in the MaidSafe superproject itself, the TLC
configurations that check them on small instances and TLAPS proofs for every
instance.  At this commit the libraries the superproject is named for (`common`,
`crux`, `drive`, `encrypt`, `nfs`, `passport`, `routing`, `vault`, ...) are git
submodules with empty directories.  What is here is the CMake superbuild
(`CMakeLists.txt`, `cmake_modules/`), the QA drivers that start, test and churn
networks of local processes (`tools/`), the git hooks and the one Boost header
the project patches (`src/third_party_libs/patches`).  The rest of
`src/third_party_libs` are the libraries it builds and links.  By size they are
nearly all of the repository (of about 500,000 lines of C and C++ SQLite and
Google Mock alone are more than half); what is modelled of them is the code on
which the threads and processes of a MaidSafe network meet: the strands and the
scheduler of asio, and the two ways in which SQLite makes a transaction atomic.

## 1. Inventory

| Part | State | Operations | Interacts with | What is hard | What makes it correct |
|---|---|---|---|---|---|
| Boost source cache, `add_boost.cmake` | tarball, `boost_unzip`, one source tree per toolchain, `b2` | download, extract, rename, bootstrap, patch | file system, other clones through `USE_BOOST_CACHE` | CMake killed between two steps; two clones at once; a tree accepted because it exists | a tree in place is whole; a failed run is repaired by the next; no clone changes the compiler of another |
| Google test registration, `add_gtests.cmake`, timeout factor in `utils.cmake`, test type in `standard_setup.cmake` | variables of nested function scopes, CMake cache, CTest's tests | three passes over the sources of a target; `add_maidsafe_test`; `ms_update_test_timeout` | CTest, `AllGtests` handed from scope to scope | parameters declared in other files than their tests; variables that leak from scope to scope | CTest knows exactly the tests of the executables, each with its own timeout and arguments |
| Patched `thread_data.hpp` | `interrupt_requested`, `current_cond`, `cond_mutex`, three kinds of mutex | construct and destroy `interruption_checker` around `pthread_cond_wait` | `condition_variable::wait`, `thread::interrupt` of Boost | every interleaving of waiters, interrupters and a notifier | nothing is slept through, nothing unregistered is used, nobody deadlocks |
| Vault QA suite, `vault.py`, `utils.py`, `vault_killer.py` | `processes`, threads of `TimeOut`, chunk stores, processes that outlive the script | bootstrap a network, tests through `vault_key_helper`, churn, kill | vault processes, Ctrl-C | exceptions and exits between two steps, restarts, abandoned threads | one vault per identity, as many as asked for, threads that end |
| Routing QA suite, `routing.py` | `p_nodes`, counts of vaults and clients | sanity check, message menu | `routing_node` processes | nodes that do not join or die; `-1` in place of a node | position and identity of a node agree; nothing left running |
| Build tree housekeeping, `utils.cmake`, `check_licenses.cmake` | cached compiler version, `TempDir`, temporary folders, licence copies | check the compiler, clean up, compare licences | file system, clock | dates that wrap, midnight, cached values | two compilers never share a build tree; only old folders are removed |
| Link dependency search, `ms_get_dependencies` in `utils.cmake` | variables shared by a recursive macro | depth-first search | `monolithic_lib.cmake` | a loop variable overwritten by the recursion | every reachable static library, none other |
| Monolithic library, `monolithic_lib.cmake`, `make_unix_static_lib.cmake` | extraction folders | extract, rename, pack | `ar` | equal object names | no object is lost |
| Message types, `configure_meta_files.cmake` | lists of personas and messages | generate headers | - | merging of several meta files | - |
| CBFS, dashboards and coverage, superproject configuration, tool detection, protobuf, exports, installers, hooks, `start_network.sh`, demo | CMake cache, files | straight-line commands | external tools | little | - |
| Strands of asio, `strand_executor_service.hpp`, `.ipp` | `locked_`, `waiting_queue_`, `ready_queue_` of each strand, the call stack of each thread | dispatch, post, defer; the invoker and its exit; shutdown | the executor that runs invokers; functions that submit to their own and to other strands and throw | a queue used without a lock by whoever is responsible for the strand | functions of a strand run one at a time, in order, and all of them |
| Scheduler and reactor of asio, `scheduler.ipp`, `posix_event.hpp`, `epoll_reactor.ipp` | `op_queue_`, private queues and counts of threads, `outstanding_work_`, the event, `task_interrupted_` | run, run_one, poll, poll_one, post, stop, restart, work objects, I/O, shutdown | handlers; the kernel's events | signals after the mutex is released; a thread asleep in the reactor and others on the event; counts kept in private | no lost wake-up, an exact count of work, `stop` gets everybody out |
| SQLite write-ahead log, `wal.c` in `sqlite3.c` | database, log, wal-index in shared memory, locks | read, write, spill, roll back, recover, restart the log, checkpoint | connections of several processes | the header is read without a lock; crashes between any two steps; a checkpoint beside readers and a writer | a snapshot is one committed state and stays; a commit that has returned is not lost |
| SQLite pager with rollback journal, `pager.c` and the locks of `os_unix.c` | database, journal, five kinds of lock, cache and change counter of each connection | read, write, spill, commit, roll back, play back a hot journal | connections of several processes | the order in which journal, header, database and deletion reach the disk; caches that outlive a transaction | a transaction happens whole or not at all, for every reader |
| `cpplint.py`, `asan_symbolize.py`, the other vendored libraries | - | - | - | other projects' code | - |

`PROJECT.json` lists each part with its status, and under `hazards` the line at
which each hard behaviour bites with the properties that watch it.

## 2. The models

### BoostCache

One configure run is a program counter per clone; an action is one file-system
step of `add_boost.cmake` (`Start`, `Download`, ..., `PatchSource`,
`WriteUserConfig`).  The directory in `BoostCacheDir` is the clone's own or the shared `Cache`.  A
tarball is `absent`, `partial` or `good` (its SHA1), a tree the set of the
`NumParts` pieces tar has written.  `Interrupt` kills CMake, or fails the
command it is at, before any step; `LoseZip` is a developer who cleans up.  A
tar process whose working directory has been removed fails, which is what `cwd`
is for.  `Overlap` says whether clones that share a directory may configure at
the same time.  A tree records which compiler its `user-config.jam` names: every run
writes that file, and the patched header, anew into a tree that other clones of
the same toolchain (compiler id and version, not path) use, and `b2` reads it
when a clone is built, long after it was configured.  CMake's `file()` and
`execute_process()` are external.

### ThreadInterruption

`interruption_checker` (`CtorData`, `Check`, `CtorLock`, `DtorUnlock`,
`DtorData`, `DtorClear`) lock by lock.  Its callers are in Boost.Thread 1.57,
which is downloaded and not in the repository: the waiting loop,
`thread::interrupt` and `interruption_point` are marked external and follow the
protocol the header implements.  `Test` chooses whether interruption is enabled,
as `disable_interruption` may.  Three kinds of mutex: the caller's (`user`),
the condition variable's (`internal`), and `data_mutex` of each thread.
`pthread_cond_wait` may return spuriously.

### VaultSuite

The menu of `vault.py` in Python 3 (`SetupBootstraps` uses `str(...,
encoding=...)`).  `running` counts the vault processes per identity and is what
the machine runs; `processes` of the script is `tracked`.  Identities 0 and 1
are the bootstrap nodes, vault number k has identity k + 1 and store `.cs<k+1>`.
Every exception that ends the script is a step to `down`, after which what it
started keeps running and `Restart` starts it with an empty dictionary.  Threads
left by `TimeOut` are `worker`; a thread blocks while its helper is silent and
reads the end of file once the helper is gone.  The prolonged test waits for its
helper at each of four alike steps, of which one is modelled.  Option 2 may end
between the chunk stores, the keys and their storing (`KeysMade`, `HelperFails`).
`KillProcess` passes over a kill that fails; the script's own children are the
ones whose kill does not.

### RoutingSuite

The sanity check and the message menu of `routing.py` in Python 2.  Lists of
nodes are sequences whose elements carry identity and kind; `-1`, which the
code returns where a node or a list is expected, is `Failed`, and using it ends
the script.  Test verdicts are only printed and are not part of the state.
Faults (a node that does not join, ignores `exit`, or dies, a bad index, a
routing table that does not arrive, a restart) are bounded by `MaxFaults`.
A node that dies in the middle of its routing table leaves the check in a loop
(`TableEndless`); P1 gives up at the first message without an answer.

### GTests

`ms_add_gtests` in three passes, one match per step: `todo` is the set of matches
(place of a declaration, part of it) the functions of the pass have left in the
current file, taken function by function and from first to last.  A source file is the
sequence of declarations its regular expressions find; the text of a type or
value list is kept as a sequence of the characters the code counts (`<`, `>`,
`,`, `(`, `)` and `x` for anything else), so the counting of placeholders is the
code's own.  The reference is `InExecutable`, what the executable lists, which
uses the true numbers `n` of the declarations.  `CMake3` tells the versions that
skip an excluded test only from those before, which replace a disabled one too
(`Skipped`).  Modelled for targets that compile (`Compiles`, assumed of
`Projects` and evaluated by TLC):
nothing is declared twice, the tests registered are those of `TYPED_TEST_P`, a
`TYPED_TEST_CASE` names an alias, and the texts are so simple that the code's
counting gives `n`.

### Strand and SerialExecutor

`SerialExecutor` is what a strand promises: one queue, functions started in its
order, one at a time, and a function that dispatches to its own strand runs the
new one inside itself.  `Strand` is the code.  Every actor has a call stack of
frames: a submission at one of its steps (`Enqueue` under the mutex, `Push` and
`Schedule` after it), an invoker (`RunReady`, then `Exit` and `Repost`, the two
halves of `~on_invoker_exit`) and a function.  `call_stack::contains` is a look
at the stack, so `dispatch` inside a strand, nested over two strands, is the
code's own rule.  A function may return or throw; an exception passes every
frame (`Unwind`) and may be caught by a function on the way.  The executor below
is reduced to what strands use: it runs an invoker once on a thread of the pool,
at once when `dispatch` is called on such a thread.  `accepted` and `started`
are histories.  `IsSerial` is the refinement: the queue of `SerialExecutor` is
the function on its way to the ready queue, the ready queue and the waiting
queue, its running functions are those on the stack of the actor that has any.

### Scheduler

One step is one critical section of the scheduler's mutex or one access outside
of it: counting work is atomic and comes before the push, and
`pthread_cond_signal` is called after the unlock (`signalling`).  The queue
holds handlers, the task (the reactor) and a `descriptor_state`.  `task_cleanup`
and `work_cleanup` are destructors that run with the next pass of `do_run_one`
in the same critical section; `Pushed`, `CleanUp` and `Interrupted` say what
they change first.  `TaskEvent` is the outside world: one `epoll_wait`
returns with the descriptor, expired timers or both (`Found`).  With `oneThread`
the concurrency hint is 1 and threads take turns.  The application (`Request`) may post, continue, start or cancel I/O,
stop, restart, hold work; nothing obliges it to.  The kernel and the operations
behind a descriptor are external.

### SqliteWal

Version 3.8.5, connections of different processes, `synchronous=FULL`.  A step
is one access to shared memory or a file, or one lock operation.  The two copies
of the wal-index header are written one after the other and read without a lock
(`TryHdr`).  The content of a page is the number of the transaction that wrote
it.  A frame carries the checksum of what it was written after, so a reader of
the log (`Recover`) sees exactly where the valid frames of the current log end,
also in a log with frames of an older one behind.  `logDisk`, `headerDisk` and
`dbDisk` are what a power loss may leave.  `Crash` is the death of a process,
whose locks the system frees, at every step; `DiesInRestart` says whether the
step between the two stores of `walRestartLog` is one of them, so that one run
can speak of all the others.  `CrashAll` also loses the shared memory.

### SqlitePager and AtomicStore

`AtomicStore` is what a database file promises: one value, changed whole under
the eyes of nobody, of which a power loss may undo the last commit and nothing
else.  `SqlitePager` is the default mode: `journal_mode=DELETE`,
`synchronous=FULL`, normal locking.  A journal is a sequence of segments, each a
header (magic, `nRec`) and records; a record of another journal or a damaged one
is `Torn`.  The locks are SHARED, RESERVED, PENDING and EXCLUSIVE as
`unixLock` and `posixUnlock` give them.  A connection in `Stressed` may be asked
by its cache to write a page in the middle of a transaction (`Stress`), which
closes a segment and opens another.  A playback is a place in the journal
(`play`), which `PlayRecord` and `NextSegment` move on.  A write may fail (`FailCommit`), a process
may die and the power may go at every step.  The refinement `IsAtomic` maps the
value to what a new reader would find, the file with its hot journal played
back, and the past values to what a deleted journal that comes back would
restore.

## 3. Runs

Passing runs:

| Run | Bounds | Shows |
|---|---|---|
| `boost_shared` | 2 clones, 2 toolchains, 1 cache, trees of 2 pieces, 2 faults, taking turns | `TypeOK`; `SourceComplete`: a folder at `BoostSourceDir` is the whole tree; `ConfiguredUsable`: a run that ends well leaves a complete, patched tree with `b2` and `user-config.jam`; `OwnCompiler`: that file names the compiler CMake found for the clone, whatever the other clone did to the cache since; `EventuallyConfigured`: leftovers of any fault are repaired by running CMake again |
| `thread` | 2 waiters, 2 interrupters, 2 interrupts, 1 spurious wake-up | `NoLostInterrupt`, `NoLostWakeup`, `RegisteredWhileUsed`; `InterruptDelivered` and `EveryoneReturns` |
| `vault_careful` | networks of 3 and 4 vaults, 3 helpers, 2 lines of output | `OneVaultPerIdentity`, `AsManyAsAsked`, `StaleStoresBounded`, `WorkersEnd`, `TypeOK` |
| `routing_sanity` | the real 20 nodes; message networks of 0 to 2 vaults and clients and the default; 2 faults | `Aligned`, `OneNodePerIdentity`, `CleanExit`, `HangsOnlyWhenTiny`, `TypeOK` |
| `strand` | 2 threads in the pool, 1 client, 2 strands, 4 functions for one strand or 3 and 1 | `OneHolder`, `InOrder`; `IsSerial`: `Strand` implements `SerialExecutor`; `EveryFunctionStarts` |
| `scheduler` | 2 threads (`run`, `run_one`; `run`, `poll`, `poll_one`), 1 client, 2 handlers, hint 1 and no hint; 253,410 states | `TypeOK`, `QueuedOnce`, `WorkCounted`, `NoLostWakeup`; `HandlersRun`, `StopReturns` |
| `wal` | a writer that runs full checkpoints and a reader, 2 pages, 2 read marks, 2 frames, 2 transactions, 1 power loss or death of one or of all processes, that of one at every step but the one of `wal_lost` (`DiesInRestart = FALSE`); 943,267 states | `SnapshotIsolation`: a snapshot is one committed state, stays, and misses nothing committed before; `IndexMatchesLog`: whoever can get at a read mark finds an `nBackfill` and a header that claim only what the log holds; `Durable` |
| `pager` | 2 connections that write, one short of memory, 2 pages, 2 transactions, 1 fault; 305,318 states | `IsAtomic`: `SqlitePager` implements `AtomicStore`; `CounterTellsStaleness`: a cache whose counter is the file's holds the file's pages; `WriterGetsIn` |
| `gtests_layouts` | all 512 distributions of nine declarations over two files, then a second target with a fixture of the same name; all 5 test types and a value that is none, 2 factors, CMake before 3; 278,016 states | `ExactlyTheTests` (no test at all for the types `BEH` and `FUNC`, against their documentation: see below), `TimeoutsScaledOnce`, `BootstrapForNetworkTests` |

Why the bounds are enough.  Two clones and two pieces are the fewest for which
a tree can be half written by one and taken by another; two faults leave a
second kind of leftover on top of a first.  Two waiters and two interrupters
have a thread interrupted twice, two threads interrupted at once, and a notifier
between them.  The smallest network in `vault.py` is 12, but the code treats the
vaults from the third on alike, so networks of 3 and 4 have every case and
differ in size, which is what makes an old store of the larger one show up in
the smaller one.  The sanity check is small enough to be checked as it is.  In
`gtests_layouts` every kind of declaration is present and each pair of a
parameter and its use occurs in one file, in an earlier and in a later file.
Three functions of one strand and one of another are the fewest with which a
strand is left with ready functions by an exception while others wait, and with
which a strand is nested in another; the second thread and the client race for
it.  In the scheduler one thread may be in the reactor, the other on the event
and the client between counting and pushing; two handlers let one start
another, in private or not, with a descriptor between them.  A log of two frames
is filled, copied, restarted and written over, leaving a frame of the old log
behind the new (with `DiesInRestart = FALSE` the bounds of `wal_lost`, 4
transactions, meet no violation, so the death is the cause); two read marks let
one be held while the other is claimed.  The
pager's transactions have a page that is spilled and one that is not, hence two
segments, and page 1 with the change counter apart from a data page.

Runs that show a disagreement of the code with its documentation:

| Run | Property | What TLC shows |
|---|---|---|
| `boost_race` | `SourceComplete` | With two clones in one cache at once and no fault at all, one removes or renames `boost_unzip` under the other; half a tree is installed and accepted from then on. `CMakeLists.txt:167` offers the cache "for all MaidSafe clones". |
| `wal_reset` | `SnapshotIsolation` | `walCheckpoint` reads the header, then `nBackfill` (`sqlite3.c:48775`), and holds only CKPT. If a writer restarts the log in between, `nBackfill` is 0 again while `mxFrame` is the old one, and frames of the new log are copied into the database under a reader whose snapshot predates them, against `sqlite3.c:48726`: "This routine will never overwrite a database page that a concurrent reader might be using." No fault is needed; a second connection with a passive checkpoint is. |
| `wal_lost` | `Durable` | `walRestartLog` publishes the header of the empty log (`sqlite3.c:49714`) before `nBackfill = 0` (`49715`). A process that dies between the two, with another still connected, leaves a good header and an old `nBackfill`, against `sqlite3.c:47417`: "The nBackfill number is never greater than WalIndexHdr.mxFrame." Nothing repairs it. Once the new log is as long as the old one, `nBackfill = mxFrame` holds for frames that were never copied: the next writer believes "all WAL content has been written back into the database" (`sqlite3.c:47450`), restarts the log and overwrites the only copy of an acknowledged commit. One transaction earlier a reader takes READ(0) and misses that commit, so `SnapshotIsolation` falls with the same death (TLC finds it with 3 transactions in the same configuration), and `IndexMatchesLog` before both. |

Met on the way and not given a run:

- `add_boost.cmake:233` and `239` write the `user-config.jam` of a source tree
  that is named by compiler id and version only (`add_boost.cmake:77-92`): of two
  clones that share a cache and have two installations of one compiler, the one
  configured last decides with which both build, against `add_boost.cmake:231`:
  "Need to configure the toolset based on CMAKE_CXX_COMPILER".  With
  `Toolchain <- SameToolchain` in the configuration of `boost_shared` TLC finds
  `OwnCompiler` violated, without a fault; the theorem excludes it by
  `OneCompilerEach`.
- `add_gtests.cmake:406`: with `MAIDSAFE_TEST_TYPE` set to `BEH` or `FUNC`, which
  `add_gtests.cmake:50-51` documents as "behavioural tests only" and "functional
  tests only" and `standard_setup.cmake:49-52` accepts, no test is added at all
  (`Chosen`), and CTest succeeds.
- `vault.py:208`: after a set up that was cut short by a vault that cannot be
  started the next session counts the vaults that run and offers "7: Random churn
  on this machine" (`vault.py:270`), but `Churn` divides by the length of its own,
  empty `processes` (`StartChurn`).
- `vault.py:218` calls `random.choice` on a dict view, a `TypeError` that ends
  the first churn round, and the session with its vaults running, where the menu
  offers "7: Random churn on this machine" (modelled in `ChurnStep`).
- `vault.py:316` calls `RunNetwork` with three arguments and ends the session
  after option 2 has stored the keys (`EndTest`).  Ctrl-C outside a churn leaves
  `stop_churn` set, and the next churn ends before it begins (`CtrlC`).
- `routing.py:103` makes a node a client from `num_of_nodes / 2` on, whatever
  numbers were asked for: with 4 vaults and 10 clients two clients are vaults.
  `routing.py:464` loops until `option` is `x` without reading it again
  (`SendForever`); `routing.py:51` looks at the clock only after `readline` has
  returned.
- The comment of `ms_set_global_test_timeout_factor` says the factor "need not
  be an integer", which `math(EXPR)` refuses.
- `scheduler.ipp:72-78`: `~work_cleanup` puts the private queue on the shared one
  and wakes nobody.  In `run` the same thread takes the operations next; after
  `run_one`, `poll_one` or an exception they wait for a thread that comes along
  for another reason, even while another one sleeps.  `leftBehind` marks these
  states and `NoLostWakeup` and `HandlersRun` exempt them.
- `sqlite3.c:41840` deletes the journal without syncing its directory: a power
  loss may bring it back and undo the last commit as a whole.  `AtomicStore` says
  so (`past`).

### Fairness

- `BoostCache!FairSpec`: weak fairness of a clone's configure steps (CMake runs
  until it ends) and strong fairness of `Start`, a developer who runs CMake
  again until it succeeds.  Strong, because with turns `Start` is disabled
  whenever another clone is configuring.  Nothing is assumed of the faults,
  whose number is bounded.
- `ThreadInterruption!FairSpec`: weak fairness of every thread, of an interrupter
  that has started and of a notifier that has started.  Weak is enough though
  mutexes are contended: interrupts and spurious wake-ups are bounded and a
  waiter returns once, so no mutex is taken and released for ever.  No
  notification is ever owed.
- `VaultSuite!FairSpec`: weak fairness of the end of a test (`join` has a
  timeout) and of a thread whose helper is gone (`readline` returns at the end
  of file).  A live helper owes nobody a line; `KillVaultKeyHelper` is what ends
  it.
- `Strand!FairSpec`: weak fairness of the steps of every actor: pool threads
  stay in `run`, a call that was begun goes on, functions return or throw.
  Nobody owes a submission.
- `Scheduler!FairSpec`: weak fairness of threads inside a call and of actors in
  the middle of one; handlers end.  Neither the application nor the outside
  world owes anything: no event ever needs to arrive, and threads need not call
  `run` again.
- `SqlitePager!FairSpec`: weak fairness of a call that has begun, of the end of a
  read transaction, and of the end, by commit or rollback, of a write
  transaction.  A busy lock makes a call wait or give up, as the busy handler
  decides; it is the PENDING lock, which keeps new readers out, and not fairness
  that lets a writer in.
- RoutingSuite, GTests and SqliteWal are checked for safety only.

`CHECK_DEADLOCK FALSE` is set where the system may stop: threads that have all
returned, a configuration that has added its targets, a routing script ended
with no restart left to spend, strands and schedulers without work or destroyed,
databases whose transactions are used up.

## 4. Proofs

Each proof module extends its component's module and holds for every value of
the constants that satisfies the component's named assumption.

**BoostCacheProofs.**  `TypeCorrect`: `Spec => []TypeOK`.  `SourceIsComplete`:
`Spec => []SourceComplete`, assuming `Exclusive`: developers take turns in a
directory or no directory is shared; `boost_race` shows that it is needed.
`SourceComplete` is not inductive, as `file(RENAME)` publishes whatever is in
`boost_unzip`; the invariant is `SourceInv = TypeOK /\ Solo /\ UnzipInv /\
SourceComplete`, where `UnzipInv` says what the extraction folder holds at each
step of the clone that is extracting and `Solo` that nobody else is.
`CompilersKeptApart`: `Spec => []OwnCompiler`, without `Exclusive` but assuming
`OneCompilerEach`, that clones which share a tree have found the same compiler;
section 3 tells what happens without.  It rests on the lemma `ConfigStep`:
of all the writes into a tree only `WriteUserConfig`, by a clone that uses that
very tree, changes its compiler.
`ConfiguredIsUsable`: `Spec => []ConfiguredUsable`, assuming `Exclusive`.  Its
invariant `Ready` says what a run may rely on from the rename on: the tree, after
`bootstrap.sh` the b2, then the patches, at the end a `user-config.jam`.  `SourceComplete` then makes of
"there is a tree" that the tree is whole.

**ThreadInterruptionProofs.**  `Invariant`: `Spec => []InterruptionInv`, for any
sets of threads and interrupters.  From it `InterruptsAreNotLost`,
`WakeupsAreNotLost` and `NoUseAfterUnregistering`.  The three properties speak
of sleeping threads only; the invariant adds who holds each mutex at each step
(`DataOwner`, `InternalOwner`, `UserOwner`), when the condition variable is
registered (`Registration`), and what a thread may rely on between its check and
its sleep (`RequestSeen`, `NotificationSeen`).  One lemma per action.

**GTestsProofs.**  `ScopesHold`: `Spec => []ScopeInv`, that the variables of
`ms_add_network_gtests` and `ms_add_gtests` are there inside the functions only.
With it `BootstrapStaysInScope` and, independently of the number of tests,
`TimeoutsAreNotCompounded`.
`EveryTestRegistered`: `Spec => []ExactlyTheTests`, for every test type and any
number of targets, files and declarations in any distribution, under
`ProjectsCompile`; for `BEH` and `FUNC` it says that no test is added.  The
inductive invariant, `RegistrationInv`, says what is known after the matches
handled so far (`Done`): the aliases stored are those of `Done` (`AliasFor`);
the list of each fixture has, each once, the parameters `Done` declares
(`ParamsFor`); the tests of the current target are the accepted ones of the
matches in `Done`; outside the function the variables are gone.  `FileDone` and
`PassDone` show that the loops neither lose nor repeat a match, so that the
second pass finds every alias and the third every parameter (`FirstPassDone`).
Two matches never stand for the same test (`NamesDiffer`), which is why
`AllGtests` has as many elements as CTest has tests.  What the loops over the
characters of one text count is not proved: it is the hypothesis
`TypePlaceholders(d.text) = d.n` and `ValueParameters(d.gen) = d.n` of
`Readable`, which TLC evaluates for the texts of the run.

**StrandProofs.**  For any sets of strands, pool threads and clients and any
number of functions, under `StrandAssumption`.  `TypeCorrect`:
`Spec => []TypeOK`.  `RightNeverDuplicated`: `Spec => []OneHolder`.
`StartedInOrder`: `Spec => []InOrder`.  `OneHolder` counts the actors that hold
the right to a strand's ready queue, so it is not inductive: an actor that held
it in two places of its call stack would count once, and would still hold it
after unlocking the strand.  `StrandInvariant` proves `Spec => []StrandInv`,
which is `TypeOK` and, while the execution context lives, for each strand
`Held` (the strand is unlocked and empty and nobody has the right; or the right
waits in the executor; or it is in exactly one place of one call stack), `First`
(nothing is ready while the function that took the strand is on its way to the
ready queue) and `Ordered`, which is `InOrder` of one strand.  Once the context
is destroyed no call is under way and nothing is scheduled.  One lemma per
action that moves the right.

`StrandsAreSerial`: `Spec => IsSerial`, the strands
implement `SerialExecutor`, for the same constants.  On top of `StrandInv` it
needs `ShapeInv`: an invoker that is not the innermost frame of a stack has
called a function of its strand, and every function runs inside an invoker of
its strand, so by `Held` all running functions of a strand are on one stack.  A
step that starts a function maps to `Start` or, inside its own strand, to `Nest`;
moving a function from the waiting to the ready queue maps to a stutter.
The queue of `SerialExecutor` need not be followed through the lists of the
code: by `InOrder` it is what has been accepted and not yet started.

**SchedulerProofs.**  For any finite sets of threads and clients and any number
of handlers: `SchedulerTypes` (`TypeOK`), `OperationsQueuedOnce` (`QueuedOnce`),
`WorkIsCounted` (`WorkCounted`) and `NoWakeupLost` (`NoLostWakeup`).  They rest
on one inductive invariant, `SchedulerInv`.  `HandlerOnce` says that a handler is
listed, executed, being pushed or waiting for I/O, one of these at a time.
`TaskOnce` says that the task is queued or run by one thread, and that a
`descriptor_state` in the queue is in front of the task: this is why the reactor
never reports one that is still queued.  `Interruptible` ties `taskInterrupted`
to the interrupter a blocked reactor will hear.  `PrivateCount` bounds what a
thread counts in private by its private queue.  `WorkCounted` compares the sum
of the counters with a number of handlers, so a step that takes the count down
needs to know that it is not zero; that comes from an injection of what is
counted in private into the handlers on private queues, and is where the sets
have to be finite.

**VaultSuiteProofs.**  For all limits and numbers of vaults: `VaultTypes`,
`PassedMeansAsked` (`AsManyAsAsked`) and `OldStoresBounded`
(`StaleStoresBounded`).  The invariant `VaultInv` adds how far a set up has got
(`InProgress`, `StartedSoFar`), which stores are still empty (`StoresCleared`)
and how much a reading thread has left (`LinesLeft`).  `OneVaultEach`:
`Spec => []OneVaultPerIdentity`, assuming `CarefulUser`, a tester who looks for
the processes of the last network before the next set up; it needs `Free`, that
the identities still to come are free.

**RoutingSuiteProofs.**  For all constants that are ordered as those of
`routing.py` are (`RoutingAssumption`: the sanity network has as many other
vaults as bootstrap nodes or more, the nodes of JAV1 and JAV2 are no bootstrap
nodes, and the one JAC2 drops is in the network) and for every network a tester
asks for: `RoutingTypes`, `PositionsAreIdentities` (`Aligned`), `IdentitiesAreUnique`
(`OneNodePerIdentity`), `NothingLeftRunning` (`CleanExit`) and `DrawingEnds`
(`HangsOnlyWhenTiny`).  `RoutingInv` adds the lengths and the numbering of the
lists before they are joined (`Numbers`, `Identities`, `Lengths`), when a join
test has a node (`Control`), and `Accounted`: where nothing has failed, every
running node is in a list the script still holds.

**SqlitePagerProofs.**  For any set of connections, any numbers of pages,
transactions and faults, under `PagerAssumption`.  `PagerInvariant`:
`Spec => []PagerInv`; `CounterTells`: `Spec => []CounterTellsStaleness`;
`Atomic`: `Spec => IsAtomic`, the pager implements `AtomicStore`.  The database
is defined as what the file becomes when its journal is played back
(`Database`), and the argument is that every step but one leaves it alone.
`PagerInv` consists of
- `Files`: the file and what a power loss leaves of it may differ from the
  database only in pages that the journal on disk keeps under a written header,
  and records under a header are synced, so what can be lost of the journal is
  never needed.  A journal is `Sound`: only its last segment may lack its
  header, nothing damaged is under one, and no page is there twice;
- `Deleted`: a deleted journal can come back only while no journal is in use,
  and it then restores a committed state;
- `Locks`: who may hold which lock at which step, which keeps a writer, a
  playback and the readers apart (`Apart`);
- for every connection `Conn`, by the step it is at: outside a write
  transaction a change counter that is no later than the database's and vouches
  for the cache (`Outside`); in one, the old content of every page it changed in
  the journal (`Owner`, `LivePages`, `LiveAt`, `LiveCounter`); in a playback, the
  pages it has passed restored in the file and in the cache, with the counter
  (`Undone`, `Ended`); before the commit, everything synced (`Finished`).

There is one lemma per action that touches a file, and its conclusion is
`Changes`: the invariant of the files, the same database, and the acting
connection's `Conn`; `OthersKept` adds the other connections from the locks.
Only `CommitPhaseTwo` changes the database (`Commits`), with all others outside,
and a power loss leaves it or the one before.  `CounterTellsStaleness` is a part
of `Outside`.  For the refinement, a connection sees the database or nothing
(`ViewIs`), so a step that keeps the database is a `Begin`, an `End` or a
stutter by what it does to `eState` alone (`ViewStep`).

Only model-checked: all liveness properties; what the loops of GTests count in
one text, an induction over data; and the invariants of SqliteWal.  Of these,
`SnapshotIsolation` does not hold for every value of the constants: with a second
checkpointer the log can be reset under a reader (the run `wal_reset`) and a death
in the middle of a restart leaves a stale `nBackfill` (`wal_lost`),
so a theorem would need assumptions the code does not enforce.

## 5. Not modelled, and the plan

Done, in this order: BoostCache, ThreadInterruption, VaultSuite, RoutingSuite,
GTests, Strand over SerialExecutor, Scheduler, SqliteWal, SqlitePager over
AtomicStore, with the proofs of section 4.  To come:

1. **BuildTree** (`utils.cmake`, `check_licenses.cmake`, `CMakeLists.txt`): the
   compiler check with `IGNORE_COMPILER_VERSION_CHANGE` switched on and off;
   `ms_get_temp_dir`, which tests `TempDir` where `Temp` is meant;
   `ms_cleanup_temp_dir`, whose ages wrap at New Year;
   `ms_get_todays_temp_folder`, which may meet midnight between two calls.
   Property: objects of two compilers never share a build tree unless the check
   is off, also as a theorem.
2. **Dependencies** (`ms_get_dependencies`): the recursion with its shared
   variables against reachability over all graphs of up to four libraries.
   **StaticLib** (`make_unix_static_lib.cmake`): no object is lost when names
   are equal.
3. `configure_meta_files.cmake` (merging of meta files), the output filter of
   `build_cbfs.cmake`, `start_network.sh`, the scripts behind the hooks.
4. Theorems: `IndexMatchesLog`, `SnapshotIsolation` and `Durable` of SqliteWal
   for a single checkpointer; an abstract specification of the Boost cache (a tree appears once, whole) that
   BoostCache implements when clones take turns.

Left out of the modelled parts.  *Strand*: allocators, and the executors other
than a thread pool.  *Scheduler*: calls of `run` and `poll` from inside a
handler, and of the reactor everything but `run`, `interrupt`, the start, the
cancelling and the completion of operations (timer queues, speculative
execution, registration of descriptors, fork, the Windows and kqueue back ends).
*SqliteWal*: I/O errors, `sqlite3WalClose`, savepoints, the page cache, page
counts, padding to sectors, the wait of `SQLITE_CHECKPOINT_RESTART` for readers,
read-only and heap wal-indexes.  *SqlitePager*: the other journal modes,
savepoints, master journals, changes of the page count, sectors larger than a
page, memory mapping, exclusive locking mode and the error state.

Left out for good: the submodules (their code is not here), the other vendored
libraries and the rest of asio and SQLite (parsers, code generators, arithmetic,
containers, test frameworks and platform layers, nearly all of the repository's
lines and sequential code that a model would only repeat), `cpplint.py` and
`asan_symbolize.py` (other projects' text filters), and CMake that only declares
flags, targets, exports and installers or probes the machine, which has no state
of its own.
