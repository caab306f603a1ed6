------------------------------ MODULE SqliteWal ------------------------------
(***************************************************************************)
(* The write-ahead log of the vendored SQLite 3.8.5 (src/wal.c inside      *)
(* sqlite3.c): connections read snapshots, one of them at a time appends   *)
(* transactions to the log, checkpoints copy the log back into the         *)
(* database file, and the log is restarted when all of it has been copied. *)
(*                                                                         *)
(* Three stores are involved: the database file, the log file, and the     *)
(* wal-index, shared memory with two copies of a header, the page number   *)
(* of every frame, nBackfill and the read marks.  The header is read       *)
(* without a lock; everything else is held together by the locks WRITE,    *)
(* CKPT and READ(i).  A step is one access to shared memory or to a file,  *)
(* or one lock operation; where the code takes a lock only to change one   *)
(* word under it, the three are one step.                                  *)
(*                                                                         *)
(* The content of a page is the number of the transaction that wrote it.   *)
(* The checksum of a frame covers the frames before it, and transactions   *)
(* have different contents, so a frame is valid where its predecessor is   *)
(* the one it was written after.  The database is synchronous=FULL.        *)
(***************************************************************************)
EXTENDS Integers, FiniteSets

CONSTANTS
  Connections,
  Writers,        \* connections that write
  Checkpointers,  \* connections that run checkpoints
  Modes,          \* "passive", "full" (and "restart", which waits longer)
  DiesInRestart,  \* may a process die in walRestartLog, between the header
                  \* of the empty log and nBackfill?
  NoOne,          \* holder of a free lock
  Pages,
  NoPage,         \* in aPgno: no frame
  NumMarks,       \* WAL_NREADER - 1: read marks other than 0
  MaxFrames,      \* bound: frames in the log
  MaxTxns,        \* bound: write transactions
  MaxFaults       \* bound: crashes and power losses

ASSUME WalAssumption ==
  /\ Writers \subseteq Connections
  /\ Checkpointers \subseteq Connections
  /\ Modes \subseteq {"passive", "full"}
  /\ DiesInRestart \in BOOLEAN
  /\ NoOne \notin Connections
  /\ NoPage \notin Pages
  /\ NumMarks \in Nat \ {0}
  /\ MaxFrames \in Nat /\ MaxTxns \in Nat /\ MaxFaults \in Nat

VARIABLES
  copy0, copy1,  \* the two copies of the wal-index header
  index,         \* aPgno: the page of each frame, NoPage for none
  nBackfill,     \* frames copied into the database
  mark,          \* aReadMark
  log,           \* the frames in the log file
  logHeader,     \* the header of the log file: its salt, and nCkpt # 0
  db,            \* the database file
  logDisk, headerDisk, dbDisk,  \* what a power loss may leave of the three
  writeLock, ckptLock,          \* holders of WRITE and CKPT
  shared,        \* connections that hold READ(i) shared
  exclusive,     \* holder of READ(i) exclusively
  pc,            \* control state of each connection
  job,           \* what the connection opens the wal-index for
  hdr,           \* pWal->hdr
  seen,          \* h1 of walIndexTryHdr
  readLock,      \* pWal->readLock
  choice,        \* mxI and mxReadMark of walTryBeginRead
  nCkpt,         \* pWal->nCkpt # 0
  safe,          \* mxSafeFrame
  scan,          \* next read mark walCheckpoint looks at
  todo,          \* pages walCheckpoint has still to copy, with their frames
  txn,           \* the running write transaction, 0 for none
  txns,          \* write transactions so far
  salts,         \* salts drawn so far
  history,       \* the database after each committed transaction
  acked,         \* the last transaction whose commit has returned
  base,          \* acked when the connection began to read
  snap,          \* the transaction whose database the connection reads
  faults         \* crashes and power losses so far

wal == <<log, logHeader, logDisk, headerDisk>>
database == <<db, dbDisk>>
header == <<copy0, copy1>>
ckptInfo == <<nBackfill, mark>>
locks == <<writeLock, ckptLock, shared, exclusive>>
reader == <<job, hdr, seen, readLock, choice>>
ckpt == <<safe, scan, todo>>
ghosts == <<history, acked, base, snap>>
writing == <<txn, txns, salts, nCkpt>>
vars == <<wal, database, header, ckptInfo, index, locks, pc, reader, ckpt, ghosts, writing, faults>>

NotUsed == MaxFrames + 1
Slots == 1 .. MaxFrames
Marks == 1 .. NumMarks
Txns == 0 .. MaxTxns
Torn == -1

\* No frame, or one whose checksum is wrong.
NoFrame == [page |-> NoPage, val |-> Torn, commit |-> FALSE, salt |-> Torn, prev |-> Torn]
TornHeader == [salt |-> Torn, counted |-> FALSE]
NoHeader == [mx |-> 0, salt |-> Torn, sum |-> Torn]
EmptyHeader == [mx |-> 0, salt |-> 0, sum |-> 0]
NeverWritten == [p \in Pages |-> -2]

Init ==
  /\ copy0 = NoHeader /\ copy1 = NoHeader
  /\ index = [i \in Slots |-> NoPage]
  /\ nBackfill = 0
  /\ mark = [i \in Marks |-> 0]
  /\ log = [i \in Slots |-> NoFrame]
  /\ logHeader = TornHeader
  /\ db = [p \in Pages |-> 0]
  /\ logDisk = [i \in Slots |-> {NoFrame}]
  /\ headerDisk = {TornHeader}
  /\ dbDisk = [p \in Pages |-> {0}]
  /\ writeLock = NoOne /\ ckptLock = NoOne
  /\ shared = [i \in 0 .. NumMarks |-> {}]
  /\ exclusive = [i \in 0 .. NumMarks |-> NoOne]
  /\ pc = [c \in Connections |-> "idle"]
  /\ job = [c \in Connections |-> "none"]
  /\ hdr = [c \in Connections |-> EmptyHeader]
  /\ seen = [c \in Connections |-> NoHeader]
  /\ readLock = [c \in Connections |-> -1]
  /\ choice = [c \in Connections |-> <<0, 0>>]
  /\ nCkpt = [c \in Connections |-> FALSE]
  /\ safe = [c \in Connections |-> 0]
  /\ scan = [c \in Connections |-> 1]
  /\ todo = [c \in Connections |-> {}]
  /\ txn = [c \in Connections |-> 0]
  /\ txns = 0 /\ salts = 0 /\ faults = 0
  /\ history = [t \in Txns |-> IF t = 0 THEN [p \in Pages |-> 0] ELSE NeverWritten]
  /\ acked = 0
  /\ base = [c \in Connections |-> 0]
  /\ snap = [c \in Connections |-> 0]

-----------------------------------------------------------------------------
(* Locks *)

Goto(c, l) == pc' = [pc EXCEPT ![c] = l]
At(c, l) == pc[c] = l

\* unixShmLock: an exclusive lock is refused while anyone holds the lock, the
\* caller included; a shared lock while someone holds it exclusively.
Free(i) == shared[i] = {} /\ exclusive[i] = NoOne
LockShared(c, i) == shared' = [shared EXCEPT ![i] = @ \cup {c}]
UnlockShared(c, i) == shared' = [shared EXCEPT ![i] = @ \ {c}]

\* READ(i) for all i in I is held exclusively by who, or by NoOne.
Exclusive(I, who) == exclusive' = [i \in 0 .. NumMarks |-> IF i \in I THEN who ELSE exclusive[i]]

\* The end of a call: what it kept of the wal-index is read again by the next.
Finish(c) ==
  /\ Goto(c, "idle")
  /\ job' = [job EXCEPT ![c] = "none"]
  /\ hdr' = [hdr EXCEPT ![c] = EmptyHeader]
  /\ seen' = [seen EXCEPT ![c] = NoHeader]
  /\ readLock' = [readLock EXCEPT ![c] = -1]
  /\ choice' = [choice EXCEPT ![c] = <<0, 0>>]
  /\ snap' = [snap EXCEPT ![c] = 0]
  /\ base' = [base EXCEPT ![c] = 0]
  /\ safe' = [safe EXCEPT ![c] = 0]
  /\ scan' = [scan EXCEPT ![c] = 1]
  /\ todo' = [todo EXCEPT ![c] = {}]

\* sqlite3WalCheckpoint gives back CKPT and, in the blocking modes, WRITE.
ReleaseCall(c) ==
  /\ ckptLock' = IF ckptLock = c THEN NoOne ELSE ckptLock
  /\ writeLock' = IF writeLock = c THEN NoOne ELSE writeLock
  /\ Finish(c)

-----------------------------------------------------------------------------
(* What a connection sees *)

Maximum(S) == CHOOSE x \in S : \A y \in S : y <= x
Minimum(S) == CHOOSE x \in S : \A y \in S : x <= y

\* sqlite3WalFindFrame: the last frame of page p up to n, 0 for none.
FindFrame(p, n) == Maximum({0} \cup {i \in 1 .. n : index[i] = p})

\* The content a connection with header h and read lock r finds in every page.
ViewOf(h, r) ==
  [p \in Pages |-> LET i == IF r = 0 THEN 0 ELSE FindFrame(p, h.mx)
                   IN IF i = 0 THEN db[p] ELSE log[i].val]

\* The transaction after which the database was as v, -1 for none.
TxnOf(v) ==
  IF \E t \in Txns : history[t] = v THEN CHOOSE t \in Txns : history[t] = v ELSE -1

-----------------------------------------------------------------------------
(* Reading the wal-index header *)

\* sqlite3WalBeginReadTransaction, and walIndexTryHdr up to the barrier.  A
\* WAL_RETRY comes back here: like a new call, it reads the header again.
BeginRead(c) ==
  /\ At(c, "idle")
  /\ seen' = [seen EXCEPT ![c] = copy0]
  /\ job' = [job EXCEPT ![c] = "read"]
  /\ base' = [base EXCEPT ![c] = acked]
  /\ Goto(c, "copy1")
  /\ UNCHANGED <<wal, database, header, ckptInfo, index, locks, hdr, readLock, choice,
                 ckpt, writing, history, acked, snap, faults>>

HeaderRead(c) == IF job[c] = "read" THEN "backfill" ELSE "ckptStart"

\* walIndexTryHdr after the barrier: the copies agree, or the WRITE lock is
\* needed to tell a race with a writer from a damaged header.
TryHdr(c) ==
  /\ At(c, "copy1")
  /\ IF copy1 = seen[c] /\ copy1 # NoHeader
     THEN /\ hdr' = [hdr EXCEPT ![c] = copy1]
          /\ Goto(c, HeaderRead(c))
     ELSE Goto(c, "lockWrite") /\ UNCHANGED hdr
  /\ seen' = [seen EXCEPT ![c] = NoHeader]
  /\ UNCHANGED <<wal, database, header, ckptInfo, index, locks, job, readLock, choice,
                 ckpt, ghosts, writing, faults>>

\* walIndexReadHdr with the WRITE lock, when the header is good after all.
ReadHdrLocked(c) ==
  /\ At(c, "lockWrite")
  /\ writeLock = NoOne
  /\ copy0 = copy1 /\ copy0 # NoHeader
  /\ hdr' = [hdr EXCEPT ![c] = copy0]
  /\ Goto(c, HeaderRead(c))
  /\ UNCHANGED <<wal, database, header, ckptInfo, index, locks, job, seen, readLock, choice,
                 ckpt, ghosts, writing, faults>>

CanRecover(c) ==
  /\ writeLock = NoOne
  /\ ckptLock \in {NoOne, c}
  /\ \A i \in 0 .. NumMarks : Free(i)

\* SQLITE_BUSY: WRITE is taken (a blocking checkpoint finds its own lock in
\* its way), or the header is bad and not every other lock can be had.
ReadHdrBusy(c) ==
  /\ At(c, "lockWrite")
  /\ writeLock # NoOne \/ ((copy0 # copy1 \/ copy0 = NoHeader) /\ ~CanRecover(c))
  /\ ReleaseCall(c)
  /\ UNCHANGED <<wal, database, header, ckptInfo, index, shared, exclusive, history, acked, writing, faults>>

-----------------------------------------------------------------------------
(* Recovery *)

\* walDecodeFrame: frame i of log l is of this log and follows the one before it.
Valid(l, s, i) == l[i].salt = s /\ l[i].prev = IF i = 1 THEN 0 ELSE l[i - 1].val

\* The frames walIndexRecover appends to the wal-index, and the last commit of them.
ValidFrames(l, h) ==
  IF h = TornHeader THEN {} ELSE {i \in Slots : \A j \in 1 .. i : Valid(l, h.salt, j)}
LastCommit(l, h) == Maximum({0} \cup {i \in ValidFrames(l, h) : l[i].commit})

\* The header walIndexRecover builds.  (From a log with no frame yet it keeps
\* nothing of the header either, but such a log has nCkpt = 0, so that the next
\* writer draws a new salt all the same.)
RecoveredHeader ==
  LET mx == LastCommit(log, logHeader)
  IN IF logHeader = TornHeader THEN EmptyHeader
     ELSE [mx |-> mx, salt |-> logHeader.salt, sum |-> IF mx = 0 THEN 0 ELSE log[mx].val]

\* walIndexRecover up to the first half of walIndexWriteHdr.
Recover(c) ==
  /\ At(c, "lockWrite")
  /\ copy0 # copy1 \/ copy0 = NoHeader
  /\ CanRecover(c)
  /\ writeLock' = c /\ ckptLock' = c
  /\ Exclusive(0 .. NumMarks, c)
  /\ index' = [i \in Slots |-> IF i \in ValidFrames(log, logHeader) THEN log[i].page ELSE NoPage]
  /\ hdr' = [hdr EXCEPT ![c] = RecoveredHeader]
  /\ nCkpt' = [nCkpt EXCEPT ![c] = IF RecoveredHeader = EmptyHeader THEN @ ELSE logHeader.counted]
  /\ copy1' = RecoveredHeader
  /\ Goto(c, "recover0")
  /\ UNCHANGED <<wal, database, copy0, ckptInfo, shared, job, seen, readLock, choice, ckpt,
                 txn, txns, salts, ghosts, faults>>

RecoverCopy0(c) ==
  /\ At(c, "recover0")
  /\ copy0' = hdr[c]
  /\ Goto(c, "recoverInfo")
  /\ UNCHANGED <<wal, database, copy1, ckptInfo, index, locks, reader, ckpt, ghosts, writing, faults>>

\* The rest of walIndexRecover: the checkpoint information is reset and the
\* locks are given back, all but the CKPT lock of a checkpoint.
RecoverInfo(c) ==
  /\ At(c, "recoverInfo")
  /\ nBackfill' = 0
  /\ mark' = [i \in Marks |-> IF i = 1 /\ hdr[c].mx > 0 THEN hdr[c].mx ELSE NotUsed]
  /\ writeLock' = NoOne
  /\ ckptLock' = IF job[c] = "ckpt" THEN c ELSE NoOne
  /\ Exclusive(0 .. NumMarks, NoOne)
  /\ Goto(c, HeaderRead(c))
  /\ UNCHANGED <<wal, database, header, index, shared, reader, ckpt, ghosts, writing, faults>>

-----------------------------------------------------------------------------
(* walTryBeginRead *)

\* WAL_RETRY: a reader starts over, a writer (useWal) looks at the marks again.
Retry(c) ==
  IF job[c] = "read"
  THEN Finish(c)
  ELSE Goto(c, "pick") /\ UNCHANGED <<reader, ckpt, base, snap>>

\* The read lock is held: the snapshot is open.
Open(c, i) ==
  /\ readLock' = [readLock EXCEPT ![c] = i]
  /\ choice' = [choice EXCEPT ![c] = <<0, 0>>]
  /\ IF txn[c] = 0
     THEN /\ Goto(c, "open")
          /\ snap' = [snap EXCEPT ![c] = TxnOf(ViewOf(hdr[c], i))]
     ELSE Goto(c, "write") /\ UNCHANGED snap

\* The test whether all of the log has been backfilled.
TestBackfill(c) ==
  /\ At(c, "backfill")
  /\ Goto(c, IF nBackfill = hdr[c].mx THEN "lock0" ELSE "pick")
  /\ UNCHANGED <<wal, database, header, ckptInfo, index, locks, reader, ckpt, ghosts, writing, faults>>

\* READ(0), so that the log is ignored; if it is busy the log is used after all.
LockRead0(c) ==
  /\ At(c, "lock0")
  /\ IF exclusive[0] = NoOne
     THEN LockShared(c, 0) /\ Goto(c, "check0")
     ELSE UNCHANGED shared /\ Goto(c, "pick")
  /\ UNCHANGED <<wal, database, header, ckptInfo, index, writeLock, ckptLock, exclusive, reader,
                 ckpt, ghosts, writing, faults>>

\* Mutant of CheckRead0: the header is not compared again.
CheckRead0Trusting(c) ==
  /\ At(c, "check0")
  /\ Open(c, 0)
  /\ UNCHANGED <<shared, job, hdr, seen, ckpt, base>>
  /\ UNCHANGED <<wal, database, header, ckptInfo, index, writeLock, ckptLock, exclusive,
                 history, acked, writing, faults>>

\* The header must not have changed before READ(0) was had.
CheckRead0(c) ==
  /\ At(c, "check0")
  /\ IF copy0 = hdr[c]
     THEN Open(c, 0) /\ UNCHANGED <<shared, job, hdr, seen, ckpt, base>>
     ELSE UnlockShared(c, 0) /\ Retry(c)
  /\ UNCHANGED <<wal, database, header, ckptInfo, index, writeLock, ckptLock, exclusive,
                 history, acked, writing, faults>>

\* The largest read mark up to hdr.mxFrame, the last of equal ones.
PickMark(c) ==
  /\ At(c, "pick")
  /\ LET usable == {i \in Marks : mark[i] <= hdr[c].mx}
         mx == Maximum({0} \cup {mark[i] : i \in usable})
         mxI == Maximum({0} \cup {i \in usable : mark[i] = mx})
     IN /\ choice' = [choice EXCEPT ![c] = <<mxI, mx>>]
        /\ Goto(c, IF mx < hdr[c].mx \/ mxI = 0 THEN "claim" ELSE "share")
  /\ UNCHANGED <<wal, database, header, ckptInfo, index, locks, job, hdr, seen, readLock, ckpt,
                 ghosts, writing, faults>>

\* None is as large as hdr.mxFrame: the first mark nobody holds is set to it.
ClaimMark(c) ==
  /\ At(c, "claim")
  /\ LET free == {i \in Marks : Free(i)}
     IN \/ /\ free # {}
           /\ mark' = [mark EXCEPT ![Minimum(free)] = hdr[c].mx]
           /\ choice' = [choice EXCEPT ![c] = <<Minimum(free), hdr[c].mx>>]
           /\ Goto(c, "share")
           /\ UNCHANGED <<job, hdr, seen, readLock, ckpt, base, snap>>
        \/ /\ free = {} /\ choice[c][1] # 0
           /\ Goto(c, "share")
           /\ UNCHANGED <<mark, reader, ckpt, base, snap>>
        \/ /\ free = {} /\ choice[c][1] = 0
           /\ Retry(c)
           /\ UNCHANGED mark
  /\ UNCHANGED <<wal, database, header, nBackfill, index, locks, history, acked, writing, faults>>

\* READ(mxI) shared.
ShareMark(c) ==
  /\ At(c, "share")
  /\ IF exclusive[choice[c][1]] = NoOne
     THEN /\ LockShared(c, choice[c][1])
          /\ Goto(c, "checkMark")
          /\ UNCHANGED <<reader, ckpt, base, snap>>
     ELSE Retry(c) /\ UNCHANGED shared
  /\ UNCHANGED <<wal, database, header, ckptInfo, index, writeLock, ckptLock, exclusive,
                 history, acked, writing, faults>>

\* Neither the mark nor the header may have changed before the lock was had.
CheckMark(c) ==
  /\ At(c, "checkMark")
  /\ LET i == choice[c][1]
     IN IF mark[i] = choice[c][2] /\ copy0 = hdr[c]
        THEN Open(c, i) /\ UNCHANGED <<shared, job, hdr, seen, ckpt, base>>
        ELSE UnlockShared(c, i) /\ Retry(c)
  /\ UNCHANGED <<wal, database, header, ckptInfo, index, writeLock, ckptLock, exclusive,
                 history, acked, writing, faults>>

\* sqlite3WalEndReadTransaction.
EndRead(c) ==
  /\ At(c, "open")
  /\ UnlockShared(c, readLock[c])
  /\ Finish(c)
  /\ UNCHANGED <<wal, database, header, ckptInfo, index, writeLock, ckptLock, exclusive,
                 history, acked, writing, faults>>

-----------------------------------------------------------------------------
(* Writing *)

\* sqlite3WalBeginWriteTransaction; SQLITE_BUSY and SQLITE_BUSY_SNAPSHOT
\* change nothing.
BeginWrite(c) ==
  /\ At(c, "open")
  /\ txns < MaxTxns
  /\ writeLock = NoOne
  /\ hdr[c] = copy0
  /\ writeLock' = c
  /\ txns' = txns + 1
  /\ txn' = [txn EXCEPT ![c] = txns + 1]
  /\ job' = [job EXCEPT ![c] = "write"]
  /\ Goto(c, "write")
  /\ UNCHANGED <<wal, database, header, ckptInfo, index, ckptLock, shared, exclusive, hdr, seen,
                 readLock, choice, ckpt, salts, nCkpt, ghosts, faults>>

\* walRestartLog when the log cannot be restarted: another reader uses it, or
\* there is nothing in it.
KeepLog(c) ==
  /\ At(c, "write")
  /\ readLock[c] = 0
  /\ nBackfill = 0 \/ \E i \in Marks : ~Free(i)
  /\ UnlockShared(c, 0)
  /\ readLock' = [readLock EXCEPT ![c] = -1]
  /\ Goto(c, "pick")
  /\ UNCHANGED <<wal, database, header, ckptInfo, index, writeLock, ckptLock, exclusive, job, hdr,
                 seen, choice, ckpt, ghosts, writing, faults>>

\* walRestartLog with every READ(i), i > 0: an empty log with a new salt, up
\* to the first half of walIndexWriteHdr.
RestartLog(c) ==
  /\ At(c, "write")
  /\ readLock[c] = 0
  /\ nBackfill > 0 /\ \A i \in Marks : Free(i)
  /\ Exclusive(Marks, c)
  /\ salts' = salts + 1
  /\ nCkpt' = [nCkpt EXCEPT ![c] = TRUE]
  /\ hdr' = [hdr EXCEPT ![c].mx = 0, ![c].salt = salts + 1]
  /\ copy1' = hdr'[c]
  /\ Goto(c, "restart0")
  /\ UNCHANGED <<wal, database, copy0, ckptInfo, index, writeLock, ckptLock, shared, job, seen,
                 readLock, choice, ckpt, txn, txns, ghosts, faults>>

RestartCopy0(c) ==
  /\ At(c, "restart0")
  /\ copy0' = hdr[c]
  /\ Goto(c, "restartInfo")
  /\ UNCHANGED <<wal, database, copy1, ckptInfo, index, locks, reader, ckpt, ghosts, writing, faults>>

\* Mutant of RestartInfo: nBackfill keeps its value of the old log.
RestartInfoStale(c) ==
  /\ At(c, "restartInfo")
  /\ mark' = [i \in Marks |-> IF i = 1 THEN 0 ELSE NotUsed]
  /\ Exclusive(Marks, NoOne)
  /\ UnlockShared(c, 0)
  /\ readLock' = [readLock EXCEPT ![c] = -1]
  /\ Goto(c, "pick")
  /\ UNCHANGED <<wal, database, header, nBackfill, index, writeLock, ckptLock, job, hdr, seen,
                 choice, ckpt, ghosts, writing, faults>>

\* The rest of walRestartLog, up to its walTryBeginRead.
RestartInfo(c) ==
  /\ At(c, "restartInfo")
  /\ nBackfill' = 0
  /\ mark' = [i \in Marks |-> IF i = 1 THEN 0 ELSE NotUsed]
  /\ Exclusive(Marks, NoOne)
  /\ UnlockShared(c, 0)
  /\ readLock' = [readLock EXCEPT ![c] = -1]
  /\ Goto(c, "pick")
  /\ UNCHANGED <<wal, database, header, index, writeLock, ckptLock, job, hdr, seen, choice, ckpt,
                 ghosts, writing, faults>>

\* sqlite3WalFrames: the header of an empty log is written ...
WriteLogHeader(c) ==
  /\ At(c, "write")
  /\ readLock[c] > 0 /\ hdr[c].mx = 0
  /\ LET s == IF nCkpt[c] THEN hdr[c].salt ELSE salts + 1
     IN /\ logHeader' = [salt |-> s, counted |-> nCkpt[c]]
        /\ headerDisk' = headerDisk \cup {TornHeader, logHeader'}
        /\ hdr' = [hdr EXCEPT ![c].salt = s, ![c].sum = 0]
  /\ salts' = IF nCkpt[c] THEN salts ELSE salts + 1
  /\ Goto(c, "syncHeader")
  /\ UNCHANGED <<log, logDisk, database, header, ckptInfo, index, locks, job, seen, readLock,
                 choice, ckpt, txn, txns, nCkpt, ghosts, faults>>

\* sqlite3OsSync of the log.
SyncLog ==
  /\ logDisk' = [i \in Slots |-> {log[i]}]
  /\ headerDisk' = {logHeader}

\* ... and synced.
SyncLogHeader(c) ==
  /\ At(c, "syncHeader")
  /\ SyncLog
  /\ Goto(c, "frame")
  /\ UNCHANGED <<log, logHeader, database, header, ckptInfo, index, locks, reader, ckpt, ghosts,
                 writing, faults>>

\* walIndexAppend, with the walCleanupHash of what an earlier transaction left.
Appended(n, p) ==
  [i \in Slots |-> CASE i < n -> index[i] [] i = n -> p [] i > n -> NoPage]

\* walWriteOneFrame.
WriteFrame(c, p, commit) ==
  LET n == hdr[c].mx + 1
      f == [page |-> p, val |-> txn[c], commit |-> commit, salt |-> hdr[c].salt, prev |-> hdr[c].sum]
  IN /\ At(c, "frame") \/ (At(c, "write") /\ readLock[c] > 0 /\ hdr[c].mx > 0)
     /\ n \in Slots
     /\ log' = [log EXCEPT ![n] = f]
     /\ logDisk' = [logDisk EXCEPT ![n] = @ \cup {f, NoFrame}]
     /\ UNCHANGED <<logHeader, headerDisk>>

\* sqlite3WalFrames for a page the cache spills.
Spill(c, p) ==
  /\ WriteFrame(c, p, FALSE)
  /\ index' = Appended(hdr[c].mx + 1, p)
  /\ hdr' = [hdr EXCEPT ![c].mx = @ + 1, ![c].sum = txn[c]]
  /\ Goto(c, "write")
  /\ UNCHANGED <<database, header, ckptInfo, locks, job, seen, readLock, choice, ckpt, ghosts,
                 writing, faults>>

\* sqlite3WalFrames with isCommit: the commit frame, ...
Commit(c, p) ==
  /\ WriteFrame(c, p, TRUE)
  /\ history' = [history EXCEPT ![txn[c]] = [ViewOf(hdr[c], readLock[c]) EXCEPT ![p] = txn[c]]]
  /\ Goto(c, "syncLog")
  /\ UNCHANGED <<database, header, ckptInfo, index, locks, reader, ckpt, acked, base, snap,
                 writing, faults>>

\* ... the sync of the log, ...
CommitSync(c) ==
  /\ At(c, "syncLog")
  /\ SyncLog
  /\ Goto(c, "append")
  /\ UNCHANGED <<log, logHeader, database, header, ckptInfo, index, locks, reader, ckpt, ghosts,
                 writing, faults>>

\* ... the wal-index up to the first half of walIndexWriteHdr, ...
CommitIndex(c) ==
  /\ At(c, "append")
  /\ index' = Appended(hdr[c].mx + 1, log[hdr[c].mx + 1].page)
  /\ hdr' = [hdr EXCEPT ![c].mx = @ + 1, ![c].sum = txn[c]]
  /\ copy1' = hdr'[c]
  /\ Goto(c, "commit0")
  /\ UNCHANGED <<wal, database, copy0, ckptInfo, locks, job, seen, readLock, choice, ckpt, ghosts,
                 writing, faults>>

\* ... and the second half, after which everyone sees the transaction.
CommitCopy0(c) ==
  /\ At(c, "commit0")
  /\ copy0' = hdr[c]
  /\ acked' = txn[c]
  /\ snap' = [snap EXCEPT ![c] = txn[c]]
  /\ Goto(c, "committed")
  /\ UNCHANGED <<wal, database, copy1, ckptInfo, index, locks, reader, ckpt, history, base,
                 writing, faults>>

\* sqlite3WalEndWriteTransaction.
EndWrite(c) ==
  /\ At(c, "committed")
  /\ writeLock' = NoOne
  /\ txn' = [txn EXCEPT ![c] = 0]
  /\ job' = [job EXCEPT ![c] = "read"]
  /\ Goto(c, "open")
  /\ UNCHANGED <<wal, database, header, ckptInfo, index, ckptLock, shared, exclusive, hdr, seen,
                 readLock, choice, ckpt, txns, salts, nCkpt, ghosts, faults>>

\* The rollback of a transaction that has spilled: sqlite3WalUndo, then
\* sqlite3WalEndWriteTransaction.  (Before the first frame there is nothing to
\* undo.)
Undo(c) ==
  /\ At(c, "write")
  /\ hdr[c].mx > copy0.mx
  /\ hdr' = [hdr EXCEPT ![c] = copy0]
  /\ index' = [i \in Slots |-> IF i <= copy0.mx THEN index[i] ELSE NoPage]
  /\ writeLock' = NoOne
  /\ txn' = [txn EXCEPT ![c] = 0]
  /\ job' = [job EXCEPT ![c] = "read"]
  /\ Goto(c, "open")
  /\ UNCHANGED <<wal, database, header, ckptInfo, ckptLock, shared, exclusive, seen, readLock,
                 choice, ckpt, txns, salts, nCkpt, ghosts, faults>>

-----------------------------------------------------------------------------
(* Checkpoints *)

\* sqlite3WalCheckpoint up to walIndexReadHdr: CKPT, in a blocking mode WRITE
\* if it can be had, and the first copy of the header.
BeginCheckpoint(c, m) ==
  /\ At(c, "idle")
  /\ ckptLock = NoOne
  /\ ckptLock' = c
  /\ writeLock' = IF m = "full" /\ writeLock = NoOne THEN c ELSE writeLock
  /\ job' = [job EXCEPT ![c] = "ckpt"]
  /\ seen' = [seen EXCEPT ![c] = copy0]
  /\ Goto(c, "copy1")
  /\ UNCHANGED <<wal, database, header, ckptInfo, index, shared, exclusive, hdr, readLock, choice,
                 ckpt, ghosts, writing, faults>>

\* walCheckpoint: the iterator over the pages of the log is set up, or nothing
\* is left to do.
StartCheckpoint(c) ==
  /\ At(c, "ckptStart")
  /\ nBackfill < hdr[c].mx
  /\ safe' = [safe EXCEPT ![c] = hdr[c].mx]
  /\ todo' = [todo EXCEPT ![c] = {<<p, FindFrame(p, hdr[c].mx)>> : p \in Pages}]
  /\ Goto(c, "marks")
  /\ UNCHANGED <<wal, database, header, ckptInfo, index, locks, reader, scan, ghosts, writing, faults>>

NothingToCheckpoint(c) ==
  /\ At(c, "ckptStart")
  /\ nBackfill >= hdr[c].mx
  /\ ReleaseCall(c)
  /\ UNCHANGED <<wal, database, header, ckptInfo, index, shared, exclusive, history, acked,
                 writing, faults>>

\* The loop over the read marks: a mark nobody holds is moved out of the way,
\* one that is held limits the checkpoint.
LimitByMark(c) ==
  /\ At(c, "marks")
  /\ scan[c] \in Marks
  /\ LET i == scan[c]
     IN \/ safe[c] <= mark[i] /\ UNCHANGED <<safe, mark>>
        \/ /\ safe[c] > mark[i] /\ Free(i)
           /\ mark' = [mark EXCEPT ![i] = IF i = 1 THEN safe[c] ELSE NotUsed]
           /\ UNCHANGED safe
        \/ /\ safe[c] > mark[i] /\ ~Free(i)
           /\ safe' = [safe EXCEPT ![c] = mark[i]]
           /\ UNCHANGED mark
  /\ scan' = [scan EXCEPT ![c] = @ + 1]
  /\ UNCHANGED <<wal, database, header, nBackfill, index, locks, pc, reader, todo, ghosts, writing, faults>>

\* READ(0) keeps out the readers that ignore the log.
LockBackfill(c) ==
  /\ At(c, "marks")
  /\ scan[c] \notin Marks
  /\ IF nBackfill < safe[c] /\ Free(0)
     THEN /\ Exclusive({0}, c)
          /\ Goto(c, "ckptSync")
          /\ UNCHANGED <<writeLock, ckptLock, reader, ckpt, base, snap>>
     ELSE ReleaseCall(c) /\ UNCHANGED exclusive
  /\ UNCHANGED <<wal, database, header, ckptInfo, index, shared, history, acked, writing, faults>>

\* The log is synced before the database is touched.
SyncBeforeBackfill(c) ==
  /\ At(c, "ckptSync")
  /\ SyncLog
  /\ todo' = [todo EXCEPT ![c] = {t \in @ : t[2] > nBackfill /\ t[2] <= safe[c]}]
  /\ Goto(c, "copy")
  /\ UNCHANGED <<log, logHeader, database, header, ckptInfo, index, locks, reader, safe, scan,
                 ghosts, writing, faults>>

\* One page is copied; the code takes them in the order of their numbers.
CopyPage(c, p) ==
  /\ At(c, "copy")
  /\ \E i \in Slots :
       /\ <<p, i>> \in todo[c]
       /\ db' = [db EXCEPT ![p] = log[i].val]
       /\ dbDisk' = [dbDisk EXCEPT ![p] = @ \cup {Torn, log[i].val}]
       /\ todo' = [todo EXCEPT ![c] = @ \ {<<p, i>>}]
  /\ UNCHANGED <<wal, header, ckptInfo, index, locks, pc, reader, safe, scan, ghosts, writing, faults>>

\* Mutant of SyncDatabase: the database is never synced.
SyncDatabaseNever(c) ==
  /\ At(c, "copy")
  /\ todo[c] = {}
  /\ Goto(c, "publish")
  /\ UNCHANGED <<wal, database, header, ckptInfo, index, locks, reader, ckpt, ghosts, writing, faults>>

\* The database is synced only if all of the log has been copied.
SyncDatabase(c) ==
  /\ At(c, "copy")
  /\ todo[c] = {}
  /\ dbDisk' = IF safe[c] = copy0.mx THEN [p \in Pages |-> {db[p]}] ELSE dbDisk
  /\ Goto(c, "publish")
  /\ UNCHANGED <<wal, db, header, ckptInfo, index, locks, reader, ckpt, ghosts, writing, faults>>

\* nBackfill is published, and the locks are given back.
PublishBackfill(c) ==
  /\ At(c, "publish")
  /\ nBackfill' = safe[c]
  /\ Exclusive({0}, NoOne)
  /\ ReleaseCall(c)
  /\ UNCHANGED <<wal, database, header, mark, index, shared, history, acked, writing, faults>>

-----------------------------------------------------------------------------
(* Faults *)

\* The process of one connection dies and another takes its place; the system
\* gives back its locks.  (One that holds no exclusive lock leaves nothing behind
\* that the end of its read would not.)
Crash(c) ==
  /\ faults < MaxFaults
  /\ writeLock = c \/ ckptLock = c
  /\ DiesInRestart \/ pc[c] # "restartInfo"
  /\ faults' = faults + 1
  /\ ReleaseCall(c)
  /\ shared' = [i \in 0 .. NumMarks |-> shared[i] \ {c}]
  /\ exclusive' = [i \in 0 .. NumMarks |-> IF exclusive[i] = c THEN NoOne ELSE exclusive[i]]
  /\ txn' = [txn EXCEPT ![c] = 0]
  /\ nCkpt' = [nCkpt EXCEPT ![c] = FALSE]
  /\ UNCHANGED <<wal, database, header, ckptInfo, index, history, acked, txns, salts>>

\* Every process dies: the next one to map the wal-index finds it zeroed.
Restart ==
  /\ faults < MaxFaults
  /\ faults' = faults + 1
  /\ copy0' = NoHeader /\ copy1' = NoHeader
  /\ index' = [i \in Slots |-> NoPage]
  /\ nBackfill' = 0
  /\ mark' = [i \in Marks |-> 0]
  /\ writeLock' = NoOne /\ ckptLock' = NoOne
  /\ shared' = [i \in 0 .. NumMarks |-> {}]
  /\ exclusive' = [i \in 0 .. NumMarks |-> NoOne]
  /\ pc' = [c \in Connections |-> "idle"]
  /\ job' = [c \in Connections |-> "none"]
  /\ hdr' = [c \in Connections |-> EmptyHeader]
  /\ seen' = [c \in Connections |-> NoHeader]
  /\ readLock' = [c \in Connections |-> -1]
  /\ choice' = [c \in Connections |-> <<0, 0>>]
  /\ nCkpt' = [c \in Connections |-> FALSE]
  /\ safe' = [c \in Connections |-> 0]
  /\ scan' = [c \in Connections |-> 1]
  /\ todo' = [c \in Connections |-> {}]
  /\ txn' = [c \in Connections |-> 0]
  /\ base' = [c \in Connections |-> 0]
  /\ snap' = [c \in Connections |-> 0]
  /\ UNCHANGED <<acked, txns, salts>>

\* The contents of the files a power loss may leave.
DiskStates ==
  {[log |-> l, header |-> h, db |-> d] :
     l \in {f \in [Slots -> UNION {logDisk[i] : i \in Slots}] : \A i \in Slots : f[i] \in logDisk[i]},
     h \in headerDisk,
     d \in {f \in [Pages -> UNION {dbDisk[p] : p \in Pages}] : \A p \in Pages : f[p] \in dbDisk[p]}}

\* The database recovery would find in files d: walIndexRecover, then reads.
RecoveredView(d) ==
  LET mx == LastCommit(d.log, d.header)
  IN [p \in Pages |-> LET i == Maximum({0} \cup {j \in 1 .. mx : d.log[j].page = p})
                      IN IF i = 0 THEN d.db[p] ELSE d.log[i].val]

\* Transactions that are not in the files d are gone for good.
Forget(d) ==
  history' = [t \in Txns |-> IF t <= TxnOf(RecoveredView(d)) THEN history[t] ELSE NeverWritten]

CrashAll ==
  /\ Restart
  /\ Forget([log |-> log, header |-> logHeader, db |-> db])
  /\ UNCHANGED <<wal, database>>

PowerLoss ==
  /\ Restart
  /\ \E d \in DiskStates :
       /\ log' = d.log /\ logDisk' = [i \in Slots |-> {d.log[i]}]
       /\ logHeader' = d.header /\ headerDisk' = {d.header}
       /\ db' = d.db /\ dbDisk' = [p \in Pages |-> {d.db[p]}]
       /\ Forget(d)

-----------------------------------------------------------------------------

ReadStep(c) ==
  \/ BeginRead(c) \/ TryHdr(c) \/ ReadHdrLocked(c) \/ ReadHdrBusy(c)
  \/ Recover(c) \/ RecoverCopy0(c) \/ RecoverInfo(c)
  \/ TestBackfill(c) \/ LockRead0(c) \/ CheckRead0(c)
  \/ PickMark(c) \/ ClaimMark(c) \/ ShareMark(c) \/ CheckMark(c)
  \/ EndRead(c)

WriteStep(c) ==
  \/ BeginWrite(c) \/ KeepLog(c) \/ RestartLog(c) \/ RestartCopy0(c) \/ RestartInfo(c)
  \/ WriteLogHeader(c) \/ SyncLogHeader(c)
  \/ \E p \in Pages : Spill(c, p) \/ Commit(c, p)
  \/ CommitSync(c) \/ CommitIndex(c) \/ CommitCopy0(c) \/ EndWrite(c) \/ Undo(c)

CheckpointStep(c) ==
  \/ \E m \in Modes : BeginCheckpoint(c, m)
  \/ StartCheckpoint(c) \/ NothingToCheckpoint(c) \/ LimitByMark(c) \/ LockBackfill(c) \/ SyncBeforeBackfill(c)
  \/ \E p \in Pages : CopyPage(c, p)
  \/ SyncDatabase(c) \/ PublishBackfill(c)

Next ==
  \/ \E c \in Connections : ReadStep(c) \/ Crash(c)
  \/ \E c \in Writers : WriteStep(c)
  \/ \E c \in Checkpointers : CheckpointStep(c)
  \/ CrashAll \/ PowerLoss

Spec == Init /\ [][Next]_vars

-----------------------------------------------------------------------------
(* Properties *)

\* Every connection with an open snapshot finds one committed state of the
\* database in all of its pages, the same one until it ends the read
\* (sqlite3WalBeginReadTransaction: "The current thread will continue to use
\* this snapshot"), and one not older than what had been committed or read when
\* it began: no commit is missed by a reader that ignores the log, and no frame
\* under a reader is overwritten or copied away.
SnapshotIsolation ==
  \A c \in Connections :
    At(c, "open") => /\ snap[c] >= base[c]
                     /\ ViewOf(hdr[c], readLock[c]) = history[snap[c]]

\* What the header of the wal-index calls committed is in the log file: the
\* frames up to mxFrame are the ones recovery would find, under the salt of the
\* log header, and whoever can get at a read mark finds an nBackfill that claims
\* no frame beyond them ("The nBackfill number is never greater than
\* WalIndexHdr.mxFrame", sqlite3.c:47417-47418; the holder of every read mark may
\* be about to reset it).
IndexMatchesLog ==
  copy0 = copy1 /\ copy0 # NoHeader =>
    /\ nBackfill <= copy0.mx \/ \A i \in Marks : exclusive[i] # NoOne
    /\ copy0.mx > 0 => copy0.mx <= LastCommit(log, logHeader)
    /\ \A i \in 1 .. copy0.mx : index[i] = log[i].page

\* Whatever a power loss leaves of the unsynced writes, recovery finds the
\* database of one transaction, and no transaction whose commit returned is
\* lost: the log is synced before a commit is published and before the database
\* is overwritten, and the database before the log is restarted.
Durable ==
  \A d \in DiskStates : TxnOf(RecoveredView(d)) >= acked

=============================================================================
