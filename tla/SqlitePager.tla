----------------------------- MODULE SqlitePager -----------------------------
(***************************************************************************)
(* The pager of the vendored SQLite 3.8.5 in its default mode: a rollback  *)
(* journal that is deleted at the end of a transaction, synchronous=FULL,  *)
(* normal locking (src/pager.c and the locks of src/os_unix.c, both inside *)
(* sqlite3.c).  Connections belong to different processes.                 *)
(*                                                                         *)
(* A writer copies the old content of a page into the journal before it    *)
(* changes the page in its cache, syncs the journal before it writes the   *)
(* database file, syncs the file and deletes the journal: the deletion is  *)
(* the commit.  A journal that is found without a writer is hot; the       *)
(* connection that finds it plays it back before it reads.  The cache      *)
(* outlives the transaction and is kept as long as the change counter in   *)
(* page 1 of the file is the one it was filled under.                      *)
(*                                                                         *)
(* A step is one lock operation or one access to a file.  The content of a *)
(* page is the number of the transaction that wrote it.  A record in the   *)
(* journal has a checksum with a nonce of its journal, so a damaged record *)
(* and one left over from an older journal are both Torn.                  *)
(***************************************************************************)
EXTENDS Integers, Sequences, FiniteSets, FiniteSetsExt, Functions

CONSTANTS
  Connections,
  Stressed,       \* connections short of cache memory
  NoOne,          \* holder of a free lock
  Nothing,        \* what a connection that does not read sees
  NumPages,
  MaxTxns,        \* bound: write transactions
  MaxFaults       \* bound: failed writes, crashes and power losses

Pages == 1 .. NumPages

ASSUME PagerAssumption ==
  /\ Stressed \subseteq Connections
  /\ NoOne \notin Connections
  /\ Nothing \notin [Pages -> 0 .. MaxTxns]
  /\ NumPages \in Nat \ {0}
  /\ MaxTxns \in Nat /\ MaxFaults \in Nat

Torn == -1       \* content damaged by a power loss
NotCached == -2
Contents == -1 .. MaxTxns
Uncached == [p \in Pages |-> NotCached]

VARIABLES
  db,          \* the database file
  dbDisk,      \* what a power loss may leave of each page
  journal,     \* the journal file
  journalDisk, \* the journal as last synced, with its directory entry
  undeleted,   \* journals whose deletion a power loss may undo
  shared, reserved, pending, exclusive,  \* holders of the locks
  eState,      \* Pager.eState
  pc,          \* the step a call has reached, "idle" between calls
  spilling,    \* the page pagerStress writes, 0 for a commit
  cache, dirty,
  needSync,    \* pages marked PGHDR_NEED_SYNC
  dbFileVers,  \* change counter the cache was filled under
  counted,     \* changeCountDone
  play,        \* the next record of a playback: its segment and its place there
  txn,         \* the connection's write transaction, 0 for none
  txns,        \* write transactions so far
  counterOf,   \* the change counter in a page 1 written by a transaction
  faults       \* failed writes, crashes and power losses so far

files == <<db, dbDisk, journal, journalDisk, undeleted>>
locks == <<shared, reserved, pending, exclusive>>
control == <<eState, pc, spilling>>
memory == <<cache, dirty, needSync, dbFileVers, counted>>
numbers == <<txn, txns, counterOf>>
vars == <<files, locks, control, memory, play, numbers, faults>>

\* A header without magic and with nRec = 0, and no record behind it.
NewSegment == [magic |-> FALSE, nRec |-> 0, recs |-> <<>>]
NoJournal == [exists |-> FALSE, segs |-> <<>>]
FirstRecord == <<1, 1>>

Init ==
  /\ db = [p \in Pages |-> 0]
  /\ dbDisk = [p \in Pages |-> {0}]
  /\ journal = NoJournal /\ journalDisk = NoJournal /\ undeleted = {}
  /\ shared = {} /\ reserved = NoOne /\ pending = NoOne /\ exclusive = NoOne
  /\ eState = [c \in Connections |-> "open"]
  /\ pc = [c \in Connections |-> "idle"]
  /\ spilling = [c \in Connections |-> 0]
  /\ cache = [c \in Connections |-> Uncached]
  /\ dirty = [c \in Connections |-> {}]
  /\ needSync = [c \in Connections |-> {}]
  /\ dbFileVers = [c \in Connections |-> 0]
  /\ counted = [c \in Connections |-> FALSE]
  /\ play = [c \in Connections |-> FirstRecord]
  /\ txn = [c \in Connections |-> 0]
  /\ txns = 0
  /\ counterOf = [t \in Contents |-> IF t = Torn THEN -1 ELSE 0]
  /\ faults = 0

Goto(c, l) == pc' = [pc EXCEPT ![c] = l]
At(c, l) == pc[c] = l
In(c, S) == pc[c] = "idle" /\ eState[c] \in S
Enter(c, s) == eState' = [eState EXCEPT ![c] = s]
Writing == {"cachemod", "dbmod"}

-----------------------------------------------------------------------------
(* The journal *)

Last(s) == s[Len(s)]

\* The records of a segment that a rollback reads: at most nRec, and none
\* from the first one on whose checksum is wrong.
ReadRecords(seg) ==
  LET bad == {i \in 1 .. seg.nRec : i > Len(seg.recs) \/ seg.recs[i].old = Torn}
  IN  SubSeq(seg.recs, 1, IF bad = {} THEN seg.nRec ELSE Min(bad) - 1)

\* The segments pager_playback reads of a hot journal: it stops at the first
\* header without magic and behind the first segment that is damaged.
HotSegments(j) ==
  LET Whole(seg) == Len(ReadRecords(seg)) = seg.nRec
  IN  {i \in DOMAIN j.segs :
         j.segs[i].magic /\ \A k \in 1 .. i - 1 : j.segs[k].magic /\ Whole(j.segs[k])}

\* The file after the journal has been played back; a page is in it once.
Restored(file, j) ==
  LET records == UNION {Range(ReadRecords(j.segs[i])) : i \in HotSegments(j)}
  IN  [p \in Pages |-> IF \E r \in records : r.page = p
                       THEN (CHOOSE r \in records : r.page = p).old ELSE file[p]]

InJournal(p) ==
  \E i \in DOMAIN journal.segs : \E k \in DOMAIN journal.segs[i].recs :
     journal.segs[i].recs[k].page = p

\* The journal with the content of page p behind its last record.
Journalled(j, p, content) ==
  [j EXCEPT !.segs[Len(j.segs)].recs = Append(@, [page |-> p, old |-> content])]

WriteDb(p, content) ==
  /\ db' = [db EXCEPT ![p] = content]
  /\ dbDisk' = [dbDisk EXCEPT ![p] = @ \cup {content, Torn}]
SyncDb == dbDisk' = [p \in Pages |-> {db[p]}]

-----------------------------------------------------------------------------
(* Locks.  A SHARED lock is refused while PENDING or EXCLUSIVE is held;      *)
(* EXCLUSIVE is PENDING and then the only SHARED lock.                       *)

\* pagerUnlockDb: down to SHARED_LOCK, and to NO_LOCK.
Freed(holder, c) == IF holder = c THEN NoOne ELSE holder
UnlockToShared(c) ==
  /\ reserved' = Freed(reserved, c)
  /\ pending' = Freed(pending, c)
  /\ exclusive' = Freed(exclusive, c)
  /\ UNCHANGED shared
UnlockAll(c) ==
  /\ reserved' = Freed(reserved, c)
  /\ pending' = Freed(pending, c)
  /\ exclusive' = Freed(exclusive, c)
  /\ shared' = shared \ {c}

MayShare == pending = NoOne /\ exclusive = NoOne
MayExclude(c) == pending \in {NoOne, c} /\ shared = {c}

-----------------------------------------------------------------------------
(* sqlite3PagerSharedLock: begin to read *)

\* Mutant of LockShared: PENDING is not looked at.
LockSharedPastPending(c) ==
  /\ In(c, {"open"})
  /\ exclusive = NoOne
  /\ shared' = shared \cup {c}
  /\ Goto(c, "access")
  /\ UNCHANGED <<files, reserved, pending, exclusive, eState, spilling, memory, play, numbers, faults>>

LockShared(c) ==
  /\ In(c, {"open"})
  /\ MayShare
  /\ shared' = shared \cup {c}
  /\ Goto(c, "access")
  /\ UNCHANGED <<files, reserved, pending, exclusive, eState, spilling, memory, play, numbers, faults>>

\* hasHotJournal looks for the file, then for a writer, then into the file;
\* the writer may end its transaction between any two of them.
AccessJournal(c) ==
  /\ At(c, "access")
  /\ Goto(c, IF journal.exists THEN "reserved" ELSE "validate")
  /\ UNCHANGED <<files, locks, eState, spilling, memory, play, numbers, faults>>

CheckReservedLock(c) ==
  /\ At(c, "reserved")
  /\ Goto(c, IF reserved # NoOne THEN "validate" ELSE "first")
  /\ UNCHANGED <<files, locks, eState, spilling, memory, play, numbers, faults>>

\* A journal that cannot be opened any more counts as hot.
LooksHot == ~journal.exists \/ (journal.segs # <<>> /\ journal.segs[1].magic)

ReadFirstByte(c) ==
  /\ At(c, "first")
  /\ Goto(c, IF LooksHot THEN "hotLock" ELSE "validate")
  /\ UNCHANGED <<files, locks, eState, spilling, memory, play, numbers, faults>>

\* Straight to EXCLUSIVE, past RESERVED; where it is refused the call fails.
LockHot(c) ==
  /\ At(c, "hotLock")
  /\ \/ /\ MayExclude(c)
        /\ pending' = c /\ exclusive' = c
        /\ Goto(c, "openHot")
        /\ UNCHANGED <<shared, reserved>>
     \/ /\ ~MayExclude(c)
        /\ UnlockAll(c)
        /\ Goto(c, "idle")
  /\ UNCHANGED <<files, eState, spilling, memory, play, numbers, faults>>

\* The journal may have been played back by another connection meanwhile.
OpenHotJournal(c) ==
  /\ At(c, "openHot")
  /\ \/ /\ journal.exists
        /\ Goto(c, "syncHot")
        /\ UNCHANGED locks
     \/ /\ ~journal.exists
        /\ UnlockToShared(c)
        /\ Goto(c, "validate")
  /\ UNCHANGED <<files, eState, spilling, memory, play, numbers, faults>>

SyncHotJournal(c) ==
  /\ At(c, "syncHot")
  /\ journalDisk' = journal
  /\ Goto(c, "play")
  /\ UNCHANGED <<db, dbDisk, journal, undeleted, locks, eState, spilling, memory, play, numbers, faults>>

\* pager_reset
Reset(c) ==
  /\ cache' = [cache EXCEPT ![c] = Uncached]
  /\ UNCHANGED <<dirty, needSync, dbFileVers, counted>>

\* A cache filled under another change counter is dropped.
Validate(c) ==
  /\ At(c, "validate")
  /\ IF cache[c] # Uncached /\ dbFileVers[c] # counterOf[db[1]]
     THEN Reset(c) ELSE UNCHANGED memory
  /\ Enter(c, "reader")
  /\ Goto(c, "page1")
  /\ UNCHANGED <<files, locks, spilling, play, numbers, faults>>

-----------------------------------------------------------------------------
(* pager_playback: of a hot journal (eState "open"), or of the connection's *)
(* own transaction                                                          *)

Hot(c) == eState[c] = "open"

\* Whether segment i is played back, and how many of its records.  The last
\* segment of the own journal has no count yet: all there are.
Plays(c, i) == i \in IF Hot(c) THEN HotSegments(journal) ELSE DOMAIN journal.segs
NumRecords(c, i) ==
  Len(IF Hot(c) THEN ReadRecords(journal.segs[i]) ELSE journal.segs[i].recs)

\* readJournalHdr behind the last record of a segment.
NextSegment(c) ==
  LET i == play[c][1] IN
  /\ At(c, "play") /\ Plays(c, i)
  /\ play[c][2] > NumRecords(c, i)
  /\ play' = [play EXCEPT ![c] = <<i + 1, 1>>]
  /\ UNCHANGED <<files, locks, control, memory, numbers, faults>>

\* Mutant of PlayRecord: dbFileVers is not restored with page 1.
PlayRecordKeepingVersion(c) ==
  LET i == play[c][1]
      k == play[c][2]
      r == journal.segs[i].recs[k]
  IN
  /\ At(c, "play") /\ Plays(c, i) /\ k <= NumRecords(c, i)
  /\ play' = [play EXCEPT ![c] = <<i, k + 1>>]
  /\ IF journal.segs[i].magic /\ eState[c] \in {"open", "dbmod"}
     THEN WriteDb(r.page, r.old) ELSE UNCHANGED <<db, dbDisk>>
  /\ IF Hot(c) THEN Reset(c)
     ELSE /\ cache' = [cache EXCEPT ![c][r.page] = IF @ = NotCached THEN @ ELSE r.old]
          /\ dirty' = [dirty EXCEPT ![c] = @ \ {r.page}]
          /\ needSync' = [needSync EXCEPT ![c] = @ \ {r.page}]
          /\ UNCHANGED <<dbFileVers, counted>>
  /\ UNCHANGED <<journal, journalDisk, undeleted, locks, control, numbers, faults>>

\* pager_playback_one_page.  The file is written only from records under a
\* header that has been written, which are synced, and only once it has been
\* written in this transaction.
PlayRecord(c) ==
  LET i == play[c][1]
      k == play[c][2]
      r == journal.segs[i].recs[k]
  IN
  /\ At(c, "play") /\ Plays(c, i) /\ k <= NumRecords(c, i)
  /\ play' = [play EXCEPT ![c] = <<i, k + 1>>]
  /\ IF journal.segs[i].magic /\ eState[c] \in {"open", "dbmod"}
     THEN WriteDb(r.page, r.old) ELSE UNCHANGED <<db, dbDisk>>
  /\ IF Hot(c) THEN Reset(c)
     ELSE /\ cache' = [cache EXCEPT ![c][r.page] = IF @ = NotCached THEN @ ELSE r.old]
          /\ dirty' = [dirty EXCEPT ![c] = @ \ {r.page}]
          /\ needSync' = [needSync EXCEPT ![c] = @ \ {r.page}]
          /\ dbFileVers' = [dbFileVers EXCEPT ![c] =
                              IF r.page = 1 THEN counterOf[r.old] ELSE @]
          /\ UNCHANGED counted
  /\ UNCHANGED <<journal, journalDisk, undeleted, locks, control, numbers, faults>>

\* The end of pager_playback: the file is synced before the journal goes.
EndPlayback(c) ==
  /\ At(c, "play") /\ ~Plays(c, play[c][1])
  /\ IF eState[c] \in {"open", "dbmod"} THEN SyncDb ELSE UNCHANGED dbDisk
  /\ counted' = [counted EXCEPT ![c] = FALSE]
  /\ play' = [play EXCEPT ![c] = FirstRecord]
  /\ Goto(c, "end")
  /\ UNCHANGED <<db, journal, journalDisk, undeleted, locks, eState, spilling,
                 cache, dirty, needSync, dbFileVers, numbers, faults>>

\* What a power loss can bring back of a deleted journal.
Undeletable(j) == IF HotSegments(j) = {} THEN {} ELSE {j}

\* pager_end_transaction: delete the journal, go down to SHARED.
EndTransaction(c) ==
  /\ journal' = NoJournal
  /\ journalDisk' = NoJournal
  /\ undeleted' = undeleted \cup Undeletable(journal)
  /\ UnlockToShared(c)
  /\ dirty' = [dirty EXCEPT ![c] = {}]
  /\ needSync' = [needSync EXCEPT ![c] = {}]
  /\ counted' = [counted EXCEPT ![c] = FALSE]
  /\ txn' = [txn EXCEPT ![c] = 0]
  /\ UNCHANGED <<db, dbDisk, cache, dbFileVers>>

EndRollback(c) ==
  /\ At(c, "end")
  /\ EndTransaction(c)
  /\ IF eState[c] = "open"
     THEN Goto(c, "validate") /\ UNCHANGED eState
     ELSE Goto(c, "idle") /\ Enter(c, "reader")
  /\ UNCHANGED <<spilling, play, txns, counterOf, faults>>

-----------------------------------------------------------------------------
(* Reading and writing pages *)

\* sqlite3PagerAcquire: from the cache, else readDbPage.
Fetch(c, p) ==
  /\ cache' = [cache EXCEPT ![c][p] = IF @ = NotCached THEN db[p] ELSE @]
  /\ dbFileVers' = [dbFileVers EXCEPT ![c] =
                      IF p = 1 /\ cache[c][p] = NotCached THEN counterOf[db[1]] ELSE @]
  /\ UNCHANGED <<dirty, needSync, counted>>

\* Every transaction begins with page 1 and keeps it in use.
GetPage1(c) ==
  /\ At(c, "page1")
  /\ Fetch(c, 1)
  /\ Goto(c, "idle")
  /\ UNCHANGED <<files, locks, eState, spilling, play, numbers, faults>>

Acquire(c, p) ==
  /\ In(c, {"reader", "locked"} \cup Writing)
  /\ cache[c][p] = NotCached
  /\ Fetch(c, p)
  /\ UNCHANGED <<files, locks, control, play, numbers, faults>>

\* pager_unlock: the cache is kept.
EndRead(c) ==
  /\ In(c, {"reader"})
  /\ UnlockAll(c)
  /\ Enter(c, "open")
  /\ counted' = [counted EXCEPT ![c] = FALSE]
  /\ UNCHANGED <<files, pc, spilling, cache, dirty, needSync, dbFileVers, play, numbers, faults>>

\* sqlite3PagerBegin; refused at once where another connection has RESERVED.
Begin(c) ==
  /\ In(c, {"reader"})
  /\ reserved = NoOne
  /\ txns < MaxTxns
  /\ reserved' = c
  /\ Enter(c, "locked")
  /\ txns' = txns + 1
  /\ txn' = [txn EXCEPT ![c] = txns + 1]
  /\ UNCHANGED <<files, shared, pending, exclusive, pc, spilling, memory, play, counterOf, faults>>

\* pager_write: the old content goes into the journal unless it is there
\* already; the first page written opens the journal.
MakeWritable(c, p) ==
  LET opened == IF eState[c] = "locked"
                THEN [exists |-> TRUE, segs |-> <<NewSegment>>] ELSE journal
      there == eState[c] # "locked" /\ InJournal(p)
  IN
  /\ journal' = IF there THEN opened ELSE Journalled(opened, p, cache[c][p])
  /\ needSync' = [needSync EXCEPT ![c] = IF there THEN @ ELSE @ \cup {p}]
  /\ dirty' = [dirty EXCEPT ![c] = @ \cup {p}]
  /\ cache' = [cache EXCEPT ![c][p] = txn[c]]
  /\ UNCHANGED <<db, dbDisk, journalDisk, undeleted>>

Write(c, p) ==
  /\ In(c, {"locked"} \cup Writing)
  /\ cache[c][p] # NotCached /\ p \notin dirty[c]
  /\ MakeWritable(c, p)
  /\ Enter(c, IF eState[c] = "locked" THEN "cachemod" ELSE eState[c])
  /\ UNCHANGED <<locks, pc, spilling, dbFileVers, counted, play, numbers, faults>>

-----------------------------------------------------------------------------
(* syncJournal, called by pagerStress for one page and by a commit *)

\* pagerStress takes dirty pages that are not in use; page 1 always is.
Stress(c, p) ==
  /\ c \in Stressed /\ In(c, Writing)
  /\ p # 1 /\ p \in dirty[c]
  /\ spilling' = [spilling EXCEPT ![c] = p]
  /\ Goto(c, IF p \in needSync[c] \/ eState[c] = "cachemod" THEN "exclusive" ELSE "spill")
  /\ UNCHANGED <<files, locks, eState, memory, play, numbers, faults>>

\* sqlite3PagerCommitPhaseOne up to syncJournal: the change counter makes
\* page 1 part of every transaction that wrote something.
CommitPhaseOne(c) ==
  /\ In(c, Writing)
  /\ IF counted[c] THEN UNCHANGED <<files, cache, dirty, needSync>> ELSE MakeWritable(c, 1)
  /\ counted' = [counted EXCEPT ![c] = TRUE]
  /\ spilling' = [spilling EXCEPT ![c] = 0]
  /\ Goto(c, "exclusive")
  /\ UNCHANGED <<locks, eState, dbFileVers, play, numbers, faults>>

\* sqlite3PagerExclusiveLock: PENDING stays where SHARED locks are left.
LockExclusive(c) ==
  /\ At(c, "exclusive")
  /\ pending \in {NoOne, c}
  /\ pending' = c
  /\ IF shared = {c} THEN exclusive' = c /\ Goto(c, "syncRecords")
                     ELSE UNCHANGED <<exclusive, pc>>
  /\ UNCHANGED <<files, shared, reserved, eState, spilling, memory, play, numbers, faults>>

\* The busy handler gives up: COMMIT fails with SQLITE_BUSY and the
\* transaction stays open, or the page stays in the cache.
GiveUp(c) ==
  /\ At(c, "exclusive")
  /\ pending = c /\ shared # {c}
  /\ Goto(c, "idle")
  /\ UNCHANGED <<files, locks, eState, spilling, memory, play, numbers, faults>>

\* Syncing a journal for the first time syncs its directory too.
SyncRecords(c) ==
  /\ At(c, "syncRecords")
  /\ journalDisk' = journal
  /\ undeleted' = {}
  /\ Goto(c, "header")
  /\ UNCHANGED <<db, dbDisk, journal, locks, eState, spilling, memory, play, numbers, faults>>

WriteHeader(c) ==
  /\ At(c, "header")
  /\ LET n == Len(journal.segs)
     IN  journal' = [journal EXCEPT !.segs[n].magic = TRUE,
                                    !.segs[n].nRec = Len(journal.segs[n].recs)]
  /\ Goto(c, "syncHeader")
  /\ UNCHANGED <<db, dbDisk, journalDisk, undeleted, locks, eState, spilling, memory, play, numbers, faults>>

\* Behind the synced records pagerStress starts a new segment.
SyncHeader(c) ==
  /\ At(c, "syncHeader")
  /\ journalDisk' = journal
  /\ journal' = IF spilling[c] = 0 THEN journal
                ELSE [journal EXCEPT !.segs = Append(@, NewSegment)]
  /\ needSync' = [needSync EXCEPT ![c] = {}]
  /\ Enter(c, "dbmod")
  /\ Goto(c, IF spilling[c] = 0 THEN "write" ELSE "spill")
  /\ UNCHANGED <<db, dbDisk, undeleted, locks, spilling, cache, dirty, dbFileVers, counted, play, numbers, faults>>

-----------------------------------------------------------------------------
(* Writing the database file, and the end of a transaction *)

\* pager_write_pagelist for the page of pagerStress, which leaves the cache.
Spill(c) ==
  LET p == spilling[c] IN
  /\ At(c, "spill")
  /\ WriteDb(p, cache[c][p])
  /\ dirty' = [dirty EXCEPT ![c] = @ \ {p}]
  /\ cache' = [cache EXCEPT ![c][p] = NotCached]
  /\ spilling' = [spilling EXCEPT ![c] = 0]
  /\ Goto(c, "idle")
  /\ UNCHANGED <<journal, journalDisk, undeleted, locks, eState, needSync, dbFileVers, counted, play, numbers, faults>>

\* pager_write_pagelist at a commit: one dirty page, in the order of their
\* numbers.  Page 1 takes the next change counter with it.
WritePage(c) ==
  LET p == Min(dirty[c]) IN
  /\ At(c, "write") /\ dirty[c] # {}
  /\ WriteDb(p, cache[c][p])
  /\ dirty' = [dirty EXCEPT ![c] = @ \ {p}]
  /\ counterOf' = [counterOf EXCEPT ![txn[c]] = IF p = 1 THEN dbFileVers[c] + 1 ELSE @]
  /\ dbFileVers' = [dbFileVers EXCEPT ![c] = IF p = 1 THEN @ + 1 ELSE @]
  /\ UNCHANGED <<journal, journalDisk, undeleted, locks, control, cache, needSync, counted, play, txn, txns, faults>>

\* Mutant of PagerSync: the database file is not synced.
PagerSyncSkipped(c) ==
  /\ At(c, "write") /\ dirty[c] = {}
  /\ Enter(c, "finished")
  /\ Goto(c, "commit")
  /\ UNCHANGED <<files, locks, spilling, memory, play, numbers, faults>>

PagerSync(c) ==
  /\ At(c, "write") /\ dirty[c] = {}
  /\ SyncDb
  /\ Enter(c, "finished")
  /\ Goto(c, "commit")
  /\ UNCHANGED <<db, journal, journalDisk, undeleted, locks, spilling, memory, play, numbers, faults>>

\* A write or the sync of a commit fails and the transaction is rolled back;
\* the page may have been written in part.
FailCommit(c) ==
  /\ At(c, "write")
  /\ faults < MaxFaults
  /\ faults' = faults + 1
  /\ \/ dirty[c] # {} /\ WriteDb(Min(dirty[c]), Torn)
     \/ UNCHANGED <<db, dbDisk>>
  /\ Goto(c, "play")
  /\ UNCHANGED <<journal, journalDisk, undeleted, locks, eState, spilling, memory, play, numbers>>

CommitPhaseTwo(c) ==
  /\ At(c, "commit")
  /\ EndTransaction(c)
  /\ Enter(c, "reader")
  /\ Goto(c, "idle")
  /\ UNCHANGED <<spilling, play, txns, counterOf, faults>>

\* The end of a transaction that wrote nothing, committed or rolled back.
EndUnwritten(c) ==
  /\ In(c, {"locked"})
  /\ UnlockToShared(c)
  /\ Enter(c, "reader")
  /\ txn' = [txn EXCEPT ![c] = 0]
  /\ UNCHANGED <<files, pc, spilling, memory, play, txns, counterOf, faults>>

Rollback(c) ==
  /\ In(c, Writing)
  /\ Goto(c, "play")
  /\ UNCHANGED <<files, locks, eState, spilling, memory, play, numbers, faults>>

-----------------------------------------------------------------------------
(* Faults *)

\* A process dies: the system frees its locks and keeps what it has written.
Crash(c) ==
  /\ faults < MaxFaults
  /\ eState[c] # "open" \/ pc[c] # "idle"
  /\ faults' = faults + 1
  /\ UnlockAll(c)
  /\ Enter(c, "open") /\ Goto(c, "idle")
  /\ spilling' = [spilling EXCEPT ![c] = 0]
  /\ cache' = [cache EXCEPT ![c] = Uncached]
  /\ dirty' = [dirty EXCEPT ![c] = {}]
  /\ needSync' = [needSync EXCEPT ![c] = {}]
  /\ dbFileVers' = [dbFileVers EXCEPT ![c] = 0]
  /\ counted' = [counted EXCEPT ![c] = FALSE]
  /\ play' = [play EXCEPT ![c] = FirstRecord]
  /\ txn' = [txn EXCEPT ![c] = 0]
  /\ UNCHANGED <<files, txns, counterOf>>

\* Of the journal there is what was last synced, or what was written since,
\* with the records behind the synced ones damaged from some point on; or
\* it is not there yet, or a deleted one is back.
SyncedRecords ==
  IF Len(journalDisk.segs) < Len(journal.segs) THEN 0 ELSE Len(Last(journalDisk.segs).recs)
DamagedFrom(k) ==
  [journal EXCEPT !.segs[Len(journal.segs)].recs =
     [i \in DOMAIN @ |-> IF i > k THEN [@[i] EXCEPT !.old = Torn] ELSE @[i]]]
JournalsLeft ==
  {journalDisk}
    \cup (IF journal.segs = <<>> THEN {}
          ELSE {DamagedFrom(k) : k \in SyncedRecords .. Len(Last(journal.segs).recs)})
    \cup (IF journalDisk.exists THEN {} ELSE undeleted)

PowerLoss ==
  /\ faults < MaxFaults
  /\ faults' = faults + 1
  /\ db' \in {d \in [Pages -> Contents] : \A p \in Pages : d[p] \in dbDisk[p]}
  /\ dbDisk' = [p \in Pages |-> {db'[p]}]
  /\ journal' \in JournalsLeft
  /\ journalDisk' = journal'
  /\ undeleted' = {}
  /\ shared' = {} /\ reserved' = NoOne /\ pending' = NoOne /\ exclusive' = NoOne
  /\ eState' = [c \in Connections |-> "open"]
  /\ pc' = [c \in Connections |-> "idle"]
  /\ spilling' = [c \in Connections |-> 0]
  /\ cache' = [c \in Connections |-> Uncached]
  /\ dirty' = [c \in Connections |-> {}]
  /\ needSync' = [c \in Connections |-> {}]
  /\ dbFileVers' = [c \in Connections |-> 0]
  /\ counted' = [c \in Connections |-> FALSE]
  /\ play' = [c \in Connections |-> FirstRecord]
  /\ txn' = [c \in Connections |-> 0]
  /\ UNCHANGED <<txns, counterOf>>

-----------------------------------------------------------------------------

\* The steps of a call that has begun.
Step(c) ==
  \/ AccessJournal(c) \/ CheckReservedLock(c) \/ ReadFirstByte(c)
  \/ LockHot(c) \/ OpenHotJournal(c) \/ SyncHotJournal(c)
  \/ NextSegment(c) \/ PlayRecord(c) \/ EndPlayback(c) \/ EndRollback(c)
  \/ Validate(c) \/ GetPage1(c)
  \/ LockExclusive(c) \/ SyncRecords(c) \/ WriteHeader(c) \/ SyncHeader(c)
  \/ Spill(c) \/ WritePage(c) \/ PagerSync(c) \/ CommitPhaseTwo(c)

\* The calls of the b-tree layer.
Call(c) ==
  \/ LockShared(c) \/ EndRead(c) \/ Begin(c) \/ EndUnwritten(c)
  \/ CommitPhaseOne(c) \/ Rollback(c) \/ GiveUp(c) \/ FailCommit(c)
  \/ \E p \in Pages : Acquire(c, p) \/ Write(c, p) \/ Stress(c, p)

Next == (\E c \in Connections : Step(c) \/ Call(c) \/ Crash(c)) \/ PowerLoss

Spec == Init /\ [][Next]_vars

\* A call that has begun goes on, a read transaction ends, and one that
\* writes is committed or rolled back.
FairSpec ==
  /\ Spec
  /\ \A c \in Connections :
       WF_vars(Step(c) \/ EndRead(c) \/ EndUnwritten(c) \/ CommitPhaseOne(c) \/ Rollback(c))

-----------------------------------------------------------------------------
(* Properties *)

\* The database a connection finds that begins to read now.
Database == Restored(db, journal)

Seen(c) == [p \in Pages |-> IF cache[c][p] = NotCached THEN db[p] ELSE cache[c][p]]

\* The database file with its journal is one value that changes only at
\* a commit, when no other connection reads: while it is written, spilled to,
\* rolled back, or left behind by a process that died, a reader sees the whole
\* of one committed state, and a power loss leaves the last committed state or
\* the one before it (sqlite3PagerCommitPhaseTwo, pager_playback, hasHotJournal).
Store == INSTANCE AtomicStore WITH
  Clients <- Connections,
  Values <- [Pages -> 0 .. MaxTxns],
  First <- [p \in Pages |-> 0],
  value <- Database,
  past <- {Restored(db, j) : j \in undeleted} \ {Database},
  view <- [c \in Connections |->
             IF eState[c] \in {"reader", "locked"} THEN Seen(c)
             ELSE IF eState[c] = "open" THEN Nothing ELSE Database]
IsAtomic == Store!Spec

\* The change counter tells a stale cache (sqlite3PagerSharedLock): where the
\* counter a connection remembers is the one of the database, all it has
\* cached is the database, whatever was committed, rolled back or recovered
\* between its transactions.
CounterTellsStaleness ==
  \A c \in Connections :
    /\ eState[c] \in {"open", "reader"}
    /\ dbFileVers[c] = counterOf[Database[1]]
    => \A p \in Pages : cache[c][p] \in {NotCached, Database[p]}

\* A writer that waits for the readers to leave is not overtaken by new
\* ones for ever (LockExclusive keeps PENDING, which refuses SHARED locks).
WriterGetsIn ==
  \A c \in Connections : At(c, "exclusive") ~> ~At(c, "exclusive")
=============================================================================
