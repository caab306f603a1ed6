-------------------------- MODULE SqlitePagerProofs --------------------------
(***************************************************************************)
(* The rollback journal keeps the database whole: SqlitePager implements   *)
(* AtomicStore, and the change counter tells a stale cache, for every set  *)
(* of connections, number of pages, of transactions and of faults.         *)
(*                                                                         *)
(* The database is what the file becomes when its journal is played back.  *)
(* Files says why it is one value at every step: a page of the file may    *)
(* differ from the database only where the journal on disk keeps the old   *)
(* content under a written header, and a header is written only above      *)
(* records that are synced, so that a power loss takes none of them away.  *)
(* Conn(c) says what each connection holds of it: one outside a write      *)
(* transaction a cache that its change counter vouches for (Outside), a    *)
(* writer a journal with the old content of all it changed (Owner, Live),  *)
(* one that plays a journal back the pages it has still to reach (Undone). *)
(* Locks keeps two of them apart.  Every action is shown to leave the      *)
(* database and the other connections alone (Changes), but the one that    *)
(* deletes the journal of a finished transaction (Commits).                *)
(***************************************************************************)
EXTENDS SqlitePager, SequenceTheorems, FiniteSetTheorems, TLAPS

\* Content that is not damaged, and what a journal consists of.
Written == 0 .. MaxTxns
Record == [page : Pages, old : Contents]
Segment == [magic : BOOLEAN, nRec : Nat, recs : Seq(Record)]
Journal == [exists : BOOLEAN, segs : Seq(Segment)]

-----------------------------------------------------------------------------
(* Journals *)

\* Place k of segment i has a record.
Slot(j, i, k) == i \in 1 .. Len(j.segs) /\ k \in 1 .. Len(j.segs[i].recs)

\* The records of a journal, and those under a written header, which a
\* connection that finds the journal plays back.
Recorded(j) ==
  {r \in Record : \E i, k \in Nat : Slot(j, i, k) /\ r = j.segs[i].recs[k]}
Kept(j) ==
  {r \in Record : \E i, k \in Nat : /\ Slot(j, i, k) /\ j.segs[i].magic
                                    /\ r = j.segs[i].recs[k]}
PagesOf(S) == {r.page : r \in S}

\* All headers are written but the last one, perhaps; what is under them is
\* whole, and no page is there twice.
Sound(j) ==
  /\ j \in Journal
  /\ j.exists <=> j.segs # <<>>
  /\ \A i \in 1 .. Len(j.segs) :
       IF j.segs[i].magic THEN j.segs[i].nRec = Len(j.segs[i].recs) ELSE i = Len(j.segs)
  /\ \A r \in Kept(j) : r.old \in Written
  /\ \A r, s \in Kept(j) : r.page = s.page => r = s

\* The header of the last segment has been written.
LastMagic(j) == Last(j.segs).magic

\* A journal and its segments are what their types say.
LEMMA JournalTypes ==
  ASSUME NEW j \in Journal
  PROVE  /\ j.exists \in BOOLEAN /\ j.segs \in Seq(Segment) /\ Len(j.segs) \in Nat
         /\ DOMAIN j.segs = 1 .. Len(j.segs)
         /\ j.segs # <<>> <=> Len(j.segs) > 0
         /\ j = [exists |-> j.exists, segs |-> j.segs]
         /\ \A i \in 1 .. Len(j.segs) :
              /\ j.segs[i] \in Segment /\ j.segs[i].magic \in BOOLEAN
              /\ j.segs[i].nRec \in Nat /\ j.segs[i].recs \in Seq(Record)
              /\ Len(j.segs[i].recs) \in Nat
              /\ DOMAIN j.segs[i].recs = 1 .. Len(j.segs[i].recs)
              /\ \A k \in 1 .. Len(j.segs[i].recs) : j.segs[i].recs[k] \in Record
<1>1. j.exists \in BOOLEAN /\ j.segs \in Seq(Segment) /\ j = [exists |-> j.exists, segs |-> j.segs]
  BY DEF Journal
<1>2. Len(j.segs) \in Nat /\ DOMAIN j.segs = 1 .. Len(j.segs) /\ j.segs \in [1 .. Len(j.segs) -> Segment]
  BY <1>1, LenProperties
<1>3. j.segs # <<>> <=> Len(j.segs) > 0
  BY <1>1, <1>2, EmptySeq
<1>4. ASSUME NEW i \in 1 .. Len(j.segs)
      PROVE  /\ j.segs[i] \in Segment /\ j.segs[i].magic \in BOOLEAN
             /\ j.segs[i].nRec \in Nat /\ j.segs[i].recs \in Seq(Record)
  BY <1>2 DEF Segment
<1>5. ASSUME NEW i \in 1 .. Len(j.segs)
      PROVE  /\ Len(j.segs[i].recs) \in Nat
             /\ DOMAIN j.segs[i].recs = 1 .. Len(j.segs[i].recs)
             /\ j.segs[i].recs \in [1 .. Len(j.segs[i].recs) -> Record]
  BY <1>4, LenProperties
<1> QED
  BY <1>1, <1>2, <1>3, <1>4, <1>5

\* What has been written under a header is read back whole, segment by segment.
LEMMA HotIs ==
  ASSUME NEW j, Sound(j)
  PROVE  /\ HotSegments(j) = {i \in 1 .. Len(j.segs) : j.segs[i].magic}
         /\ \A i \in 1 .. Len(j.segs) :
              j.segs[i].magic => ReadRecords(j.segs[i]) = j.segs[i].recs
<1>1. j \in Journal
  BY DEF Sound
<1>2. ASSUME NEW i \in 1 .. Len(j.segs), j.segs[i].magic
      PROVE  ReadRecords(j.segs[i]) = j.segs[i].recs /\ j.segs[i].nRec = Len(j.segs[i].recs)
  <2>1. j.segs[i].nRec = Len(j.segs[i].recs)
    BY <1>2 DEF Sound
  <2>2. ASSUME NEW k \in 1 .. Len(j.segs[i].recs) PROVE j.segs[i].recs[k].old # Torn
    <3>1. i \in Nat /\ k \in Nat /\ Slot(j, i, k) /\ j.segs[i].recs[k] \in Record
      BY <1>1, JournalTypes DEF Slot
    <3>2. j.segs[i].recs[k] \in Kept(j)
      BY <1>2, <3>1 DEF Kept
    <3> QED
      BY <3>2, PagerAssumption DEF Sound, Written, Torn
  <2>3. {k \in 1 .. j.segs[i].nRec : k > Len(j.segs[i].recs) \/ j.segs[i].recs[k].old = Torn} = {}
    BY <1>1, <2>1, <2>2, JournalTypes
  <2>4. ReadRecords(j.segs[i]) = SubSeq(j.segs[i].recs, 1, j.segs[i].nRec)
    BY <2>3 DEF ReadRecords
  <2> QED
    BY <1>1, <2>1, <2>4, JournalTypes, SubSeqFull
<1>3. ASSUME NEW i \in 1 .. Len(j.segs), j.segs[i].magic, NEW k \in 1 .. i - 1
      PROVE  k \in 1 .. Len(j.segs) /\ j.segs[k].magic
  <2>1. k \in 1 .. Len(j.segs) /\ k # Len(j.segs)
    BY <1>1, JournalTypes
  <2> QED
    BY <2>1 DEF Sound
<1>4. DOMAIN j.segs = 1 .. Len(j.segs)
  BY <1>1, JournalTypes
<1>5. HotSegments(j) = {i \in 1 .. Len(j.segs) : j.segs[i].magic}
  BY <1>2, <1>3, <1>4 DEF HotSegments
<1> QED
  BY <1>2, <1>5

\* A played back page has the content the journal keeps, the others stay.
LEMMA RestoredIs ==
  ASSUME NEW file, NEW j, Sound(j)
  PROVE  /\ Restored(file, j) = [p \in Pages |-> Restored(file, j)[p]]
         /\ \A r \in Kept(j) : r.page \in Pages /\ Restored(file, j)[r.page] = r.old
         /\ \A p \in Pages : p \notin PagesOf(Kept(j)) => Restored(file, j)[p] = file[p]
<1> DEFINE records == UNION {Range(ReadRecords(j.segs[i])) : i \in HotSegments(j)}
<1>1. j \in Journal
  BY DEF Sound
<1>2. records = Kept(j)
  <2>1. ASSUME NEW r \in records PROVE r \in Kept(j)
    <3>1. PICK i \in HotSegments(j) : r \in Range(ReadRecords(j.segs[i]))
      BY <2>1
    <3>2. i \in 1 .. Len(j.segs) /\ j.segs[i].magic /\ r \in Range(j.segs[i].recs)
      BY <3>1, HotIs
    <3>3. PICK k \in 1 .. Len(j.segs[i].recs) : r = j.segs[i].recs[k]
      BY <1>1, <3>2, JournalTypes DEF Range
    <3> QED
      BY SMTT(30), <1>1, <3>2, <3>3, JournalTypes DEF Kept, Slot
  <2>2. ASSUME NEW r \in Kept(j) PROVE r \in records
    <3>1. PICK i \in Nat, k \in Nat : Slot(j, i, k) /\ j.segs[i].magic /\ r = j.segs[i].recs[k]
      BY <2>2 DEF Kept
    <3>2. r \in Range(j.segs[i].recs)
      BY <1>1, <3>1, JournalTypes DEF Slot, Range
    <3>3. i \in HotSegments(j) /\ ReadRecords(j.segs[i]) = j.segs[i].recs
      BY <3>1, HotIs DEF Slot
    <3> QED
      BY <3>2, <3>3
  <2> QED
    BY <2>1, <2>2
<1>3. Restored(file, j) =
        [p \in Pages |-> IF \E r \in Kept(j) : r.page = p
                         THEN (CHOOSE r \in Kept(j) : r.page = p).old ELSE file[p]]
  BY <1>2 DEF Restored
<1>4. ASSUME NEW r \in Kept(j)
      PROVE  r.page \in Pages /\ Restored(file, j)[r.page] = r.old
  <2>1. r.page \in Pages
    BY DEF Kept, Record
  <2>2. (CHOOSE s \in Kept(j) : s.page = r.page) = r
    BY DEF Sound
  <2> QED
    BY <1>3, <2>1, <2>2
<1>5. ASSUME NEW p \in Pages, p \notin PagesOf(Kept(j)) PROVE Restored(file, j)[p] = file[p]
  BY <1>3, <1>5 DEF PagesOf
<1> QED
  BY <1>3, <1>4, <1>5

\* Records under headers are records; under a header that is written last, all are.
LEMMA KeptRecords ==
  ASSUME NEW j, Sound(j)
  PROVE  /\ Kept(j) \subseteq Recorded(j) /\ Recorded(j) \subseteq Record
         /\ j.exists /\ LastMagic(j) => Kept(j) = Recorded(j)
         /\ j.exists /\ ~j.segs[1].magic => Kept(j) = {}
         /\ ~j.exists => Recorded(j) = {}
<1>1. j \in Journal
  BY DEF Sound
<1>2. Kept(j) \subseteq Recorded(j) /\ Recorded(j) \subseteq Record
  BY DEF Kept, Recorded
<1>3. ASSUME j.exists, LastMagic(j), NEW r \in Recorded(j) PROVE r \in Kept(j)
  <2>1. PICK i \in Nat, k \in Nat : Slot(j, i, k) /\ r = j.segs[i].recs[k]
    BY DEF Recorded
  <2>2. j.segs[i].magic
    BY <1>3, <2>1 DEF Slot, Sound, LastMagic, Last
  <2> QED
    BY <2>1, <2>2 DEF Kept, Recorded
<1>4. ASSUME j.exists, ~j.segs[1].magic, NEW r \in Kept(j) PROVE FALSE
  <2>1. PICK i \in Nat, k \in Nat : Slot(j, i, k) /\ j.segs[i].magic
    BY DEF Kept
  <2>2. 1 \in 1 .. Len(j.segs) /\ i \in 1 .. Len(j.segs)
    BY <1>1, <2>1, JournalTypes DEF Slot
  <2>3. Len(j.segs) = 1
    BY <1>4, <2>2 DEF Sound
  <2> QED
    BY <1>4, <2>1, <2>2, <2>3
<1>5. ASSUME ~j.exists, NEW r \in Recorded(j) PROVE FALSE
  <2>1. PICK i \in Nat, k \in Nat : Slot(j, i, k)
    BY DEF Recorded
  <2>2. Len(j.segs) = 0
    BY <1>1, <1>5, JournalTypes DEF Sound
  <2> QED
    BY <2>1, <2>2 DEF Slot
<1> QED
  BY <1>2, <1>3, <1>4, <1>5

\* A page of a record is a page.
LEMMA LoggedPages ==
  ASSUME NEW j, NEW r \in Recorded(j)
  PROVE  r.page \in Pages /\ r.old \in Contents /\ r = [page |-> r.page, old |-> r.old]
BY DEF Recorded, Record

\* InJournal is a question about the records.
LEMMA InJournalIs ==
  ASSUME Sound(journal), NEW p
  PROVE  InJournal(p) <=> p \in PagesOf(Recorded(journal))
<1>1. journal \in Journal
  BY DEF Sound
<1>2. ASSUME InJournal(p) PROVE p \in PagesOf(Recorded(journal))
  <2>1. PICK i \in DOMAIN journal.segs : \E k \in DOMAIN journal.segs[i].recs :
               journal.segs[i].recs[k].page = p
    BY <1>2 DEF InJournal
  <2>2. PICK k \in DOMAIN journal.segs[i].recs : journal.segs[i].recs[k].page = p
    BY <2>1
  <2>3. i \in Nat /\ k \in Nat /\ Slot(journal, i, k) /\ journal.segs[i].recs[k] \in Record
    BY <1>1, JournalTypes DEF Slot
  <2>4. journal.segs[i].recs[k] \in Recorded(journal)
    BY <2>3 DEF Recorded
  <2> QED
    BY <2>2, <2>4 DEF PagesOf
<1>3. ASSUME p \in PagesOf(Recorded(journal)) PROVE InJournal(p)
  <2>1. PICK r \in Recorded(journal) : r.page = p
    BY <1>3 DEF PagesOf
  <2>2. PICK i \in Nat, k \in Nat : Slot(journal, i, k) /\ r = journal.segs[i].recs[k]
    BY <2>1 DEF Recorded
  <2>3. i \in DOMAIN journal.segs /\ k \in DOMAIN journal.segs[i].recs
    BY <1>1, <2>2, JournalTypes DEF Slot
  <2> QED
    BY <2>1, <2>2, <2>3 DEF InJournal
<1> QED
  BY <1>2, <1>3

\* The journal that has been deleted.
LEMMA NoJournalIs ==
  /\ Sound(NoJournal) /\ Kept(NoJournal) = {} /\ Recorded(NoJournal) = {}
  /\ NoJournal.exists = FALSE /\ NoJournal.segs = <<>>
<1>1. NoJournal \in Journal /\ Len(NoJournal.segs) = 0 /\ NoJournal.segs = <<>> /\ NoJournal.exists = FALSE
  BY EmptySeq DEF NoJournal, Journal
<1>2. Kept(NoJournal) = {} /\ Recorded(NoJournal) = {}
  BY <1>1 DEF Kept, Recorded, Slot
<1> QED
  BY <1>1, <1>2 DEF Sound

\* The journal pager_open_journal makes.
LEMMA OpenedIs ==
  ASSUME NEW j, j = [exists |-> TRUE, segs |-> <<NewSegment>>]
  PROVE  /\ Sound(j) /\ j.exists /\ ~LastMagic(j)
         /\ Kept(j) = {} /\ Recorded(j) = {}
<1>1. NewSegment \in Segment /\ NewSegment.magic = FALSE /\ Len(NewSegment.recs) = 0
  BY EmptySeq DEF NewSegment, Segment
<1>2. j.exists = TRUE /\ j.segs = <<NewSegment>> /\ Len(j.segs) = 1 /\ j.segs[1] = NewSegment
  OBVIOUS
<1>3. j \in Journal
  <2>1. <<NewSegment>> \in Seq(Segment)
    BY <1>1
  <2> QED
    BY <2>1 DEF Journal
<1>4. Kept(j) = {} /\ Recorded(j) = {}
  BY <1>1, <1>2 DEF Kept, Recorded, Slot
<1>5. j.segs # <<>>
  BY <1>2
<1>6. ~LastMagic(j) /\ \A i \in 1 .. Len(j.segs) : i = Len(j.segs)
  BY <1>1, <1>2 DEF LastMagic, Last
<1>7. \A i \in 1 .. Len(j.segs) : ~j.segs[i].magic
  BY <1>1, <1>2
<1> QED
  BY <1>2, <1>3, <1>4, <1>5, <1>6, <1>7 DEF Sound

\* A journal with other segments.
LEMMA SegmentsReplaced ==
  ASSUME NEW j \in Journal, NEW segs
  PROVE  [j EXCEPT !.segs = segs] = [exists |-> j.exists, segs |-> segs]
BY DEF Journal

\* The last segment is replaced by another.
LEMMA LastReplaced ==
  ASSUME NEW j \in Journal, j.segs # <<>>, NEW seg \in Segment,
         NEW jj, jj = [exists |-> j.exists, segs |-> [j.segs EXCEPT ![Len(j.segs)] = seg]]
  PROVE  /\ jj \in Journal /\ jj.exists = j.exists /\ jj.segs # <<>>
         /\ Len(jj.segs) = Len(j.segs) /\ jj.segs[Len(j.segs)] = seg
         /\ \A i \in 1 .. Len(j.segs) : i # Len(j.segs) => jj.segs[i] = j.segs[i]
<1>1. Len(j.segs) \in Nat /\ Len(j.segs) \in 1 .. Len(j.segs) /\ j.segs \in Seq(Segment) /\ j.exists \in BOOLEAN
  BY JournalTypes
<1>2. jj.exists = j.exists /\ jj.segs = [j.segs EXCEPT ![Len(j.segs)] = seg]
  OBVIOUS
<1>3. /\ jj.segs \in Seq(Segment) /\ Len(jj.segs) = Len(j.segs)
      /\ \A i \in 1 .. Len(j.segs) : jj.segs[i] = IF i = Len(j.segs) THEN seg ELSE j.segs[i]
  BY <1>1, <1>2, ExceptSeq
<1>4. jj \in Journal
  BY <1>1, <1>2, <1>3 DEF Journal
<1> QED
  BY <1>1, <1>2, <1>3, <1>4, JournalTypes DEF Last

\* A record goes behind the last one, under a header that is not written yet.
LEMMA JournalledIs ==
  ASSUME NEW j, Sound(j), j.exists, ~LastMagic(j), NEW p \in Pages, NEW content \in Contents
  PROVE  /\ Sound(Journalled(j, p, content))
         /\ Journalled(j, p, content).exists /\ ~LastMagic(Journalled(j, p, content))
         /\ Kept(Journalled(j, p, content)) = Kept(j)
         /\ Recorded(Journalled(j, p, content)) = Recorded(j) \cup {[page |-> p, old |-> content]}
<1> DEFINE n == Len(j.segs)
           r == [page |-> p, old |-> content]
           seg == [j.segs[n] EXCEPT !.recs = Append(@, r)]
           jj == Journalled(j, p, content)
<1>1. j \in Journal /\ j.segs # <<>> /\ n \in 1 .. n /\ n \in Nat
  BY JournalTypes DEF Sound
<1>2. r \in Record
  BY DEF Record
<1>3. /\ j.segs[n].recs \in Seq(Record) /\ j.segs[n] \in Segment /\ ~j.segs[n].magic
      /\ Len(j.segs[n].recs) \in Nat
  BY <1>1, JournalTypes DEF LastMagic, Last
<1>4. /\ Append(j.segs[n].recs, r) \in Seq(Record)
      /\ Len(Append(j.segs[n].recs, r)) = Len(j.segs[n].recs) + 1
      /\ \A k \in 1 .. Len(j.segs[n].recs) : Append(j.segs[n].recs, r)[k] = j.segs[n].recs[k]
      /\ Append(j.segs[n].recs, r)[Len(j.segs[n].recs) + 1] = r
  BY SMTT(30), <1>2, <1>3, AppendProperties
<1>5. seg \in Segment /\ seg.magic = FALSE /\ seg.recs = Append(j.segs[n].recs, r)
  BY <1>3, <1>4 DEF Segment
<1>6. jj = [exists |-> j.exists, segs |-> [j.segs EXCEPT ![Len(j.segs)] = seg]]
  <2>1. jj = [j EXCEPT !.segs = [j.segs EXCEPT ![Len(j.segs)] = seg]]
    BY DEF Journalled
  <2> HIDE DEF seg, jj
  <2> QED
    BY <1>1, <2>1, SegmentsReplaced
<1> HIDE DEF jj, seg, r
<1>7. /\ jj \in Journal /\ jj.exists = j.exists /\ jj.segs # <<>>
      /\ Len(jj.segs) = n /\ jj.segs[n] = seg
      /\ \A i \in 1 .. n : i # n => jj.segs[i] = j.segs[i]
  <2>1. j \in Journal
    BY <1>1
  <2>2. j.segs # <<>>
    BY <1>1
  <2>3. seg \in Segment
    BY <1>5
  <2> QED
    BY ONLY <2>1, <2>2, <2>3, <1>6, LastReplaced
<1>8. Kept(jj) = Kept(j)
  <2>1. \A i, k \in Nat : Slot(jj, i, k) /\ jj.segs[i].magic
                          <=> Slot(j, i, k) /\ j.segs[i].magic
    BY <1>3, <1>5, <1>7 DEF Slot
  <2>2. \A i, k \in Nat : Slot(j, i, k) /\ j.segs[i].magic => jj.segs[i].recs[k] = j.segs[i].recs[k]
    BY <1>3, <1>7 DEF Slot
  <2> QED
    BY <2>1, <2>2 DEF Kept
<1>9. Recorded(jj) = Recorded(j) \cup {r}
  <2>1. ASSUME NEW x \in Recorded(jj) PROVE x \in Recorded(j) \cup {r}
    <3>1. PICK i \in Nat, k \in Nat : Slot(jj, i, k) /\ x = jj.segs[i].recs[k]
      BY <2>1 DEF Recorded
    <3>2. CASE i # n
      BY <1>7, <2>1, <3>1, <3>2 DEF Slot, Recorded
    <3>3. CASE i = n /\ k <= Len(j.segs[n].recs)
      <4>1. Slot(j, i, k)
        BY <1>1, <1>3, <3>1, <3>3 DEF Slot
      <4>2. x = j.segs[i].recs[k]
        BY <1>4, <1>5, <1>7, <3>1, <3>3, <4>1 DEF Slot
      <4> QED
        BY <2>1, <4>1, <4>2 DEF Recorded
    <3>4. CASE i = n /\ ~(k <= Len(j.segs[n].recs))
      <4>1. k \in 1 .. Len(jj.segs[n].recs) /\ jj.segs[n].recs = Append(j.segs[n].recs, r)
        BY <1>5, <1>7, <3>1, <3>4 DEF Slot
      <4>2. k = Len(j.segs[n].recs) + 1
        BY <1>3, <1>4, <3>4, <4>1
      <4> QED
        BY <1>4, <3>1, <3>4, <4>1, <4>2
    <3> QED
      BY <3>2, <3>3, <3>4
  <2>2. ASSUME NEW x \in Recorded(j) PROVE x \in Recorded(jj)
    <3>1. PICK i \in Nat, k \in Nat : Slot(j, i, k) /\ x = j.segs[i].recs[k]
      BY <2>2 DEF Recorded
    <3>2. Slot(jj, i, k) /\ x = jj.segs[i].recs[k]
      <4>1. CASE i # n
        BY <1>7, <3>1, <4>1 DEF Slot
      <4>2. CASE i = n
        BY <1>3, <1>4, <1>5, <1>7, <3>1, <4>2 DEF Slot
      <4> QED
        BY <4>1, <4>2
    <3> QED
      BY <2>2, <3>2 DEF Recorded
  <2>3. r \in Recorded(jj)
    <3>1. Slot(jj, n, Len(j.segs[n].recs) + 1) /\ r = jj.segs[n].recs[Len(j.segs[n].recs) + 1]
      BY <1>1, <1>3, <1>4, <1>5, <1>7 DEF Slot
    <3>2. n \in Nat /\ Len(j.segs[n].recs) + 1 \in Nat /\ r \in Record
      BY <1>1, <1>2, <1>3, JournalTypes
    <3> HIDE DEF n
    <3>3. \E i, k \in Nat : Slot(jj, i, k) /\ r = jj.segs[i].recs[k]
      BY ONLY <3>1, <3>2
    <3> QED
      BY ONLY <3>2, <3>3 DEF Recorded
  <2> QED
    BY <2>1, <2>2, <2>3
<1>10. ~LastMagic(jj)
  BY <1>5, <1>7 DEF LastMagic, Last
<1>11. Sound(jj)
  <2>1. \A i \in 1 .. Len(jj.segs) :
          IF jj.segs[i].magic THEN jj.segs[i].nRec = Len(jj.segs[i].recs) ELSE i = Len(jj.segs)
    BY <1>5, <1>7 DEF Sound
  <2> QED
    BY <1>7, <1>8, <2>1 DEF Sound
<1> QED
  BY <1>7, <1>8, <1>9, <1>10, <1>11 DEF jj, r

\* The header of the last segment is written with its magic and its count.
LEMMA HeaderIs ==
  ASSUME NEW j, Sound(j), j.exists, ~LastMagic(j), NEW jj,
         jj = [j EXCEPT !.segs[Len(j.segs)].magic = TRUE,
                        !.segs[Len(j.segs)].nRec = Len(j.segs[Len(j.segs)].recs)],
         \A r \in Recorded(j) : r.old \in Written,
         \A r, s \in Recorded(j) : r.page = s.page => r = s
  PROVE  /\ Sound(jj) /\ jj.exists /\ LastMagic(jj)
         /\ Kept(jj) = Recorded(j) /\ Recorded(jj) = Recorded(j)
         /\ Len(jj.segs) = Len(j.segs) /\ Last(jj.segs).recs = Last(j.segs).recs
<1> DEFINE n == Len(j.segs)
           seg == [j.segs[n] EXCEPT !.magic = TRUE, !.nRec = Len(j.segs[n].recs)]
<1>1. j \in Journal /\ j.segs # <<>> /\ n \in 1 .. n /\ n \in Nat
  BY JournalTypes DEF Sound
<1>2. /\ j.segs[n].recs \in Seq(Record) /\ j.segs[n] \in Segment
      /\ Len(j.segs[n].recs) \in Nat
  BY <1>1, JournalTypes
<1>3. seg \in Segment /\ seg.magic = TRUE /\ seg.recs = j.segs[n].recs /\ seg.nRec = Len(seg.recs)
  BY <1>2 DEF Segment
<1>4. jj = [exists |-> j.exists, segs |-> [j.segs EXCEPT ![Len(j.segs)] = seg]]
  <2> DEFINE one == [j.segs[n] EXCEPT !.magic = TRUE]
             ones == [j.segs EXCEPT ![n] = one]
             first == [j EXCEPT !.segs = ones]
  <2>1. jj = [first EXCEPT !.segs = [first.segs EXCEPT ![n] = [first.segs[n] EXCEPT !.nRec = Len(j.segs[n].recs)]]]
    OBVIOUS
  <2>2. one \in Segment /\ seg = [one EXCEPT !.nRec = Len(j.segs[n].recs)]
    BY <1>2 DEF Segment
  <2> HIDE DEF one, seg
  <2>3. first = [exists |-> j.exists, segs |-> ones]
    BY <1>1, SegmentsReplaced
  <2>4. first.segs = ones /\ first.exists = j.exists
    BY <2>3
  <2>41. first.segs[n] = one
    BY <1>1, <2>4, JournalTypes
  <2>42. first \in Journal
    BY ZenonT(40), <1>1, <2>2, <2>3, LastReplaced
  <2>5. [first.segs EXCEPT ![n] = seg] = [j.segs EXCEPT ![n] = seg]
    BY <2>4
  <2> HIDE DEF first, ones
  <2>6. jj = [first EXCEPT !.segs = [j.segs EXCEPT ![n] = seg]]
    BY <2>1, <2>2, <2>4, <2>41, <2>5
  <2> QED
    BY <2>4, <2>42, <2>6, SegmentsReplaced
<1> HIDE DEF seg
<1>5. /\ jj \in Journal /\ jj.exists = j.exists /\ jj.segs # <<>>
      /\ Len(jj.segs) = n /\ jj.segs[n] = seg
      /\ \A i \in 1 .. n : i # n => jj.segs[i] = j.segs[i]
  <2>1. j \in Journal
    BY <1>1
  <2>2. j.segs # <<>>
    BY <1>1
  <2>3. seg \in Segment
    BY <1>3
  <2> QED
    BY ONLY <2>1, <2>2, <2>3, <1>4, LastReplaced
<1>6. \A i \in 1 .. n : jj.segs[i].recs = j.segs[i].recs /\ jj.segs[i].magic
  BY <1>3, <1>5 DEF Sound
<1>7. \A i, k \in Nat : /\ Slot(jj, i, k) <=> Slot(j, i, k)
                        /\ Slot(j, i, k) => jj.segs[i].recs[k] = j.segs[i].recs[k] /\ jj.segs[i].magic
  BY <1>5, <1>6 DEF Slot
<1>8. Recorded(jj) = Recorded(j)
  BY SMTT(30), <1>7 DEF Recorded
<1>9. Kept(jj) = Recorded(j)
  <2>1. ASSUME NEW r \in Kept(jj) PROVE r \in Recorded(j)
    <3>1. PICK i \in Nat, k \in Nat : Slot(jj, i, k) /\ r = jj.segs[i].recs[k]
      BY <2>1 DEF Kept
    <3>2. Slot(j, i, k) /\ r = j.segs[i].recs[k]
      BY ONLY <1>7, <3>1
    <3> QED
      BY ONLY <2>1, <3>2 DEF Kept, Recorded
  <2>2. ASSUME NEW r \in Recorded(j) PROVE r \in Kept(jj)
    <3>1. PICK i \in Nat, k \in Nat : Slot(j, i, k) /\ r = j.segs[i].recs[k]
      BY <2>2 DEF Recorded
    <3>2. Slot(jj, i, k) /\ jj.segs[i].magic /\ r = jj.segs[i].recs[k]
      BY ONLY <1>7, <3>1
    <3> QED
      BY ONLY <2>2, <3>2 DEF Kept, Recorded
  <2> QED
    BY <2>1, <2>2
<1>10. LastMagic(jj) /\ Last(jj.segs).recs = Last(j.segs).recs
  BY <1>3, <1>5 DEF LastMagic, Last
<1>11. \A i \in 1 .. Len(jj.segs) :
          IF jj.segs[i].magic THEN jj.segs[i].nRec = Len(jj.segs[i].recs) ELSE i = Len(jj.segs)
  BY <1>3, <1>5, <1>6 DEF Sound
<1>12. Sound(jj)
  BY SMTT(30), <1>5, <1>9, <1>11 DEF Sound
<1> QED
  BY <1>5, <1>8, <1>9, <1>10, <1>12

\* A segment without records goes behind a written one.
LEMMA SegmentAdded ==
  ASSUME NEW j, Sound(j), j.exists, LastMagic(j), NEW jj,
         jj = [j EXCEPT !.segs = Append(@, NewSegment)]
  PROVE  /\ Sound(jj) /\ jj.exists /\ ~LastMagic(jj)
         /\ Kept(jj) = Kept(j) /\ Recorded(jj) = Recorded(j)
<1> DEFINE n == Len(j.segs)
<1>1. j \in Journal /\ j.segs \in Seq(Segment) /\ n \in 1 .. n /\ n \in Nat
  BY JournalTypes DEF Sound
<1>2. NewSegment \in Segment /\ NewSegment.magic = FALSE /\ Len(NewSegment.recs) = 0
  BY EmptySeq DEF NewSegment, Segment
<1>3. /\ jj = [exists |-> j.exists, segs |-> Append(j.segs, NewSegment)] /\ j.exists \in BOOLEAN
      /\ jj.exists = j.exists /\ jj.segs = Append(j.segs, NewSegment)
  BY <1>1, SegmentsReplaced, JournalTypes
<1>4. /\ jj.segs \in Seq(Segment) /\ Len(jj.segs) = n + 1 /\ jj.segs # <<>>
      /\ \A i \in 1 .. n : jj.segs[i] = j.segs[i]
      /\ jj.segs[n + 1] = NewSegment
  BY <1>1, <1>2, <1>3, AppendProperties
<1>5. jj \in Journal
  BY <1>3, <1>4 DEF Journal
<1>6. \A i, k \in Nat : /\ Slot(jj, i, k) <=> Slot(j, i, k)
                        /\ Slot(j, i, k) => jj.segs[i] = j.segs[i]
  BY <1>1, <1>2, <1>4 DEF Slot
<1>7. Kept(jj) = Kept(j) /\ Recorded(jj) = Recorded(j)
  BY ZenonT(40), <1>6 DEF Kept, Recorded
<1>8. ~LastMagic(jj)
  BY <1>2, <1>4 DEF LastMagic, Last
<1>9. ASSUME NEW i \in 1 .. Len(jj.segs)
      PROVE  IF jj.segs[i].magic THEN jj.segs[i].nRec = Len(jj.segs[i].recs) ELSE i = Len(jj.segs)
  <2>1. CASE i = n + 1
    BY <1>2, <1>4, <2>1
  <2>2. CASE i # n + 1
    <3>1. i \in 1 .. n /\ jj.segs[i] = j.segs[i]
      BY <1>1, <1>4, <2>2
    <3>2. j.segs[i].magic
      BY <3>1 DEF Sound, LastMagic, Last
    <3> QED
      BY <3>1, <3>2 DEF Sound
  <2> QED
    BY <2>1, <2>2
<1>10. Sound(jj)
  BY <1>3, <1>4, <1>5, <1>7, <1>9 DEF Sound
<1> QED
  BY <1>3, <1>7, <1>8, <1>10

\* A power loss damages nothing that is under a written header.
LEMMA DamagedIs ==
  ASSUME Sound(journal), journal.segs # <<>>, NEW k \in Nat,
         LastMagic(journal) => k >= Len(Last(journal.segs).recs)
  PROVE  Sound(DamagedFrom(k)) /\ Kept(DamagedFrom(k)) = Kept(journal)
<1> DEFINE n == Len(journal.segs)
           old == journal.segs[n].recs
           new == [i \in DOMAIN old |-> IF i > k THEN [old[i] EXCEPT !.old = Torn] ELSE old[i]]
           seg == [journal.segs[n] EXCEPT !.recs = new]
           jj == DamagedFrom(k)
<1>1. journal \in Journal /\ n \in 1 .. n /\ n \in Nat
  BY JournalTypes DEF Sound
<1>2. /\ old \in Seq(Record) /\ journal.segs[n] \in Segment
      /\ Len(old) \in Nat /\ DOMAIN old = 1 .. Len(old) /\ \A i \in 1 .. Len(old) : old[i] \in Record
  BY <1>1, JournalTypes
<1>3. new \in Seq(Record) /\ Len(new) = Len(old)
  <2>0. Torn \in Contents
    BY PagerAssumption DEF Contents, Torn
  <2>1. ASSUME NEW i \in 1 .. Len(old) PROVE new[i] \in Record
    <3>1. CASE i > k
      <4>1. old[i] \in Record /\ new[i] = [old[i] EXCEPT !.old = Torn]
        BY <1>2, <3>1
      <4> QED
        BY <2>0, <4>1 DEF Record
    <3>2. CASE ~(i > k)
      BY <1>2, <3>2
    <3> QED
      BY <3>1, <3>2
  <2>2. new \in [1 .. Len(old) -> Record]
    BY <1>2, <2>1
  <2> QED
    BY <1>2, <2>2
<1>4. seg \in Segment /\ seg.magic = journal.segs[n].magic /\ seg.recs = new /\ seg.nRec = journal.segs[n].nRec
  BY <1>2, <1>3 DEF Segment
<1>5. jj = [exists |-> journal.exists, segs |-> [journal.segs EXCEPT ![Len(journal.segs)] = seg]]
  <2>1. jj = [journal EXCEPT !.segs = [journal.segs EXCEPT ![Len(journal.segs)] = seg]]
    BY DEF DamagedFrom
  <2> HIDE DEF seg, jj
  <2> QED
    BY <1>1, <2>1, SegmentsReplaced
<1>6. journal.segs[n].magic => new = old
  <2>1. ASSUME journal.segs[n].magic PROVE \A i \in 1 .. Len(old) : new[i] = old[i]
    BY <1>2, <2>1 DEF LastMagic, Last
  <2> QED
    BY <1>2, <1>3, <2>1, SeqEqual
<1> HIDE DEF jj, seg, new, old
<1>7. /\ jj \in Journal /\ jj.exists = journal.exists /\ jj.segs # <<>>
      /\ Len(jj.segs) = n /\ jj.segs[n] = seg
      /\ \A i \in 1 .. n : i # n => jj.segs[i] = journal.segs[i]
  BY <1>1, <1>4, <1>5, LastReplaced
<1>8. \A i \in 1 .. n : /\ jj.segs[i].magic = journal.segs[i].magic
                        /\ jj.segs[i].nRec = journal.segs[i].nRec
                        /\ journal.segs[i].magic => jj.segs[i].recs = journal.segs[i].recs
  BY <1>4, <1>6, <1>7 DEF old
<1>9. Kept(jj) = Kept(journal)
  <2>1. \A i, m \in Nat : Slot(jj, i, m) /\ jj.segs[i].magic
                          <=> Slot(journal, i, m) /\ journal.segs[i].magic
    BY <1>7, <1>8 DEF Slot
  <2>2. \A i, m \in Nat : Slot(journal, i, m) /\ journal.segs[i].magic
                          => jj.segs[i].recs[m] = journal.segs[i].recs[m]
    BY <1>8 DEF Slot
  <2> QED
    BY <2>1, <2>2 DEF Kept
<1>10. \A i \in 1 .. Len(jj.segs) :
          IF jj.segs[i].magic THEN jj.segs[i].nRec = Len(jj.segs[i].recs) ELSE i = Len(jj.segs)
  BY <1>7, <1>8 DEF Sound
<1>11. Sound(jj)
  BY <1>7, <1>9, <1>10 DEF Sound
<1> QED
  BY <1>9, <1>11 DEF jj

-----------------------------------------------------------------------------
(* The invariant *)

\* The types of the variables, in four groups.
TypesOfFiles ==
  /\ db \in [Pages -> Contents]
  /\ dbDisk \in [Pages -> SUBSET Contents]

TypesOfControl ==
  /\ eState \in [Connections -> {"open", "reader", "locked", "cachemod", "dbmod", "finished"}]
  /\ pc \in [Connections -> {"idle", "access", "reserved", "first", "hotLock", "openHot", "syncHot",
                             "play", "end", "validate", "page1", "exclusive", "syncRecords",
                             "header", "syncHeader", "spill", "write", "commit"}]
  /\ spilling \in [Connections -> 0 .. NumPages]
  /\ play \in [Connections -> (Nat \ {0}) \X (Nat \ {0})]

TypesOfMemory ==
  /\ cache \in [Connections -> [Pages -> Int]]
  /\ dirty \in [Connections -> SUBSET Pages]
  /\ needSync \in [Connections -> SUBSET Pages]
  /\ dbFileVers \in [Connections -> Int]
  /\ counted \in [Connections -> BOOLEAN]

TypesOfNumbers ==
  /\ txn \in [Connections -> Written]
  /\ txns \in Written
  /\ counterOf \in [Contents -> Int]
  /\ \A t \in Written : counterOf[t] >= 0

Types == TypesOfFiles /\ TypesOfControl /\ TypesOfMemory /\ TypesOfNumbers

\* The steps a call can have reached in each state of the pager.
Control(c) ==
  \/ eState[c] = "open" /\ pc[c] \in {"idle", "access", "reserved", "first", "hotLock",
                                      "openHot", "syncHot", "play", "end", "validate"}
  \/ eState[c] = "reader" /\ pc[c] \in {"idle", "page1"}
  \/ eState[c] = "locked" /\ pc[c] = "idle"
  \/ eState[c] = "cachemod" /\ pc[c] \in {"idle", "exclusive", "syncRecords", "header",
                                          "syncHeader", "play", "end"}
  \/ eState[c] = "dbmod" /\ pc[c] \in {"idle", "exclusive", "syncRecords", "header",
                                       "syncHeader", "spill", "write", "play", "end"}
  \/ eState[c] = "finished" /\ pc[c] = "commit"

\* The connection has the RESERVED lock.
Holds(c) == eState[c] \in {"locked", "cachemod", "dbmod", "finished"}

\* The connection may write the database file, or deletes its journal.
Excludes(c) ==
  \/ pc[c] \in {"openHot", "syncHot", "syncRecords", "header", "syncHeader", "spill", "write", "commit"}
  \/ eState[c] \in {"dbmod", "finished"}
  \/ eState[c] = "open" /\ pc[c] \in {"play", "end"}

\* Who holds which lock in which step.
Locks ==
  /\ shared \subseteq Connections
  /\ reserved \in Connections \cup {NoOne}
  /\ pending \in Connections \cup {NoOne}
  /\ exclusive \in Connections \cup {NoOne}
  /\ \A c \in Connections :
       /\ Control(c)
       /\ c \in shared <=> eState[c] # "open" \/ pc[c] # "idle"
       /\ reserved = c <=> Holds(c)
       /\ exclusive = c <=> Excludes(c)
       /\ exclusive = c => shared = {c} /\ pending = c
       /\ pending = c => exclusive = c \/ eState[c] = "cachemod"

\* The database is whole: the file lacks of it only what the journal on disk
\* keeps, and records under a header are synced.
Files ==
  /\ Sound(journal) /\ Sound(journalDisk)
  /\ Database \in [Pages -> Written]
  /\ Database[1] <= txns
  /\ Kept(journalDisk) \subseteq Kept(journal)
  /\ \A p \in Pages : p \notin PagesOf(Kept(journalDisk)) =>
       db[p] = Database[p] /\ dbDisk[p] = {Database[p]}
  /\ journal.exists /\ LastMagic(journal) => SyncedRecords >= Len(Last(journal.segs).recs)

\* Deleted journals that a power loss may bring back.
Deleted ==
  /\ Kept(journal) # {} => undeleted = {}
  /\ \A j \in undeleted : /\ Sound(j)
                          /\ Restored(db, j) \in [Pages -> Written]
                          /\ Restored(db, j)[1] <= txns

\* The change counter of the database; a page in a cache that is not stale.
Counter == counterOf[Database[1]]
Agrees(c, p) == cache[c][p] \in {NotCached, Database[p]}

\* States in which there is nothing to play back.
Quiet(c) ==
  \/ eState[c] \in {"reader", "locked"}
  \/ pc[c] = "validate"
  \/ eState[c] = "cachemod" /\ pc[c] # "syncHeader"

\* A connection that has not written.
Outside(c) ==
  /\ dirty[c] = {} /\ ~counted[c]
  /\ cache[c] = Uncached \/ cache[c][1] # NotCached
  /\ dbFileVers[c] <= Counter
  /\ dbFileVers[c] = Counter => \A p \in Pages : Agrees(c, p)
  /\ eState[c] \in {"reader", "locked"} =>
       /\ \A p \in Pages : Agrees(c, p)
       /\ pc[c] = "idle" => cache[c] # Uncached
       /\ cache[c] # Uncached => dbFileVers[c] = Counter

\* The connection has the newest transaction, which is not committed yet.
Owns(c) == txn[c] = txns /\ Database[1] < txns

\* A connection with a journal of its own.
Owner(c) ==
  /\ journal.exists
  /\ cache[c][1] # NotCached
  /\ \A r \in Recorded(journal) : r.old = Database[r.page]
  /\ pc[c] \in {"header", "syncHeader"} \/ eState[c] = "dbmod" => undeleted = {}
  /\ eState[c] = "dbmod" /\ pc[c] # "syncHeader" => Kept(journalDisk) = Kept(journal)

\* Its pages, until it rolls back or has finished ...
LivePages(c) ==
  /\ dirty[c] \subseteq PagesOf(Recorded(journal))
  /\ PagesOf(Recorded(journal)) \subseteq PagesOf(Kept(journal)) \cup needSync[c]
  /\ \A p \in Pages : /\ db[p] \in Written
                      /\ p \in dirty[c] => cache[c][p] = txn[c]
                      /\ p \notin dirty[c] => cache[c][p] \in {NotCached, db[p]}

\* ... where it is ...
LiveAt(c) ==
  /\ pc[c] \in {"idle", "exclusive", "syncRecords", "header", "spill"} => ~LastMagic(journal)
  /\ pc[c] = "header" => journalDisk = journal
  /\ pc[c] \in {"syncHeader", "write"} => LastMagic(journal)
  /\ pc[c] \in {"exclusive", "syncRecords", "header", "syncHeader"} =>
       IF spilling[c] = 0 THEN counted[c] ELSE spilling[c] \in dirty[c] \ {1}
  /\ pc[c] = "spill" => spilling[c] \in dirty[c] \ {1} /\ spilling[c] \in PagesOf(Kept(journal))
  /\ pc[c] = "write" => counted[c]

\* ... and its change counter.
LiveCounter(c) ==
  /\ counted[c] => 1 \in PagesOf(Recorded(journal))
  /\ counted[c] /\ pc[c] # "write" => 1 \in dirty[c]
  /\ pc[c] = "write" /\ 1 \notin dirty[c] =>
       db[1] = txn[c] /\ dbFileVers[c] = Counter + 1 /\ counterOf[txn[c]] = Counter + 1
  /\ pc[c] # "write" \/ 1 \in dirty[c] => dbFileVers[c] = Counter

\* Pages with a record that a playback has not reached; with one under a header.
Ahead(c, p) ==
  \E i, k \in Nat :
    /\ Slot(journal, i, k) /\ journal.segs[i].recs[k].page = p
    /\ i > play[c][1] \/ (i = play[c][1] /\ k >= play[c][2])
AheadHot(c, p) ==
  \E i, k \in Nat :
    /\ Slot(journal, i, k) /\ journal.segs[i].recs[k].page = p
    /\ i > play[c][1] \/ (i = play[c][1] /\ k >= play[c][2])
    /\ journal.segs[i].magic

\* A playback has restored what it has passed: of the file, and of the own
\* cache with the change counter it was filled under.
Undone(c) ==
  /\ eState[c] = "open" => journalDisk = journal
  /\ eState[c] # "open" =>
       \A p \in Pages : ~Ahead(c, p) => Agrees(c, p) /\ (p = 1 => dbFileVers[c] = Counter)
  /\ \A p \in Pages : ~AheadHot(c, p) => db[p] = Database[p]

\* A playback is over.
Ended(c) ==
  /\ \A p \in Pages : db[p] = Database[p] /\ dbDisk[p] = {Database[p]}
  /\ eState[c] # "open" => (\A p \in Pages : Agrees(c, p)) /\ dbFileVers[c] = Counter

\* All of a transaction is synced, and its journal is still there.
Finished(c) ==
  /\ journal.exists /\ LastMagic(journal)
  /\ undeleted = {}
  /\ \A p \in Pages : db[p] \in Written /\ dbDisk[p] = {db[p]} /\ cache[c][p] \in {NotCached, db[p]}
  /\ cache[c][1] # NotCached
  /\ db[1] = txn[c] /\ dbFileVers[c] = Counter + 1 /\ counterOf[txn[c]] = Counter + 1

\* What holds of a connection, by the step it is at.
Conn(c) ==
  /\ Quiet(c) => Kept(journal) = {}
  /\ eState[c] \in {"open", "reader", "locked"} => Outside(c)
  /\ Holds(c) => Owns(c)
  /\ eState[c] \in Writing => Owner(c)
  /\ eState[c] \in Writing /\ pc[c] \notin {"play", "end"} =>
       LivePages(c) /\ LiveAt(c) /\ LiveCounter(c)
  /\ pc[c] = "play" => Undone(c)
  /\ pc[c] = "end" => Ended(c)
  /\ eState[c] = "finished" => Finished(c)
  /\ pc[c] # "play" => play[c] = FirstRecord

\* The inductive invariant.
PagerInv == Types /\ Locks /\ Files /\ Deleted /\ \A c \in Connections : Conn(c)

-----------------------------------------------------------------------------
(* Locks *)

\* Only one connection holds RESERVED, and EXCLUSIVE keeps the others out.
LEMMA LocksStep ==
  ASSUME TypesOfControl, Locks, NEW c \in Connections, Step(c) \/ Call(c) \/ Crash(c)
  PROVE  Locks'
<1>0. NoOne \notin Connections
  BY PagerAssumption
<1> USE DEF TypesOfControl, Locks, Control, Holds, Excludes, locks, control
<1>1. CASE LockShared(c)
  BY <1>0, <1>1 DEF LockShared, Goto, In, MayShare
<1>2. CASE AccessJournal(c)
  BY <1>0, <1>2 DEF AccessJournal, At, Goto
<1>3. CASE CheckReservedLock(c)
  BY <1>0, <1>3 DEF CheckReservedLock, At, Goto
<1>4. CASE ReadFirstByte(c)
  BY <1>0, <1>4 DEF ReadFirstByte, At, Goto
<1>5. CASE LockHot(c)
  BY <1>0, <1>5 DEF LockHot, At, Goto, MayExclude, UnlockAll, Freed
<1>6. CASE OpenHotJournal(c)
  BY <1>0, <1>6 DEF OpenHotJournal, At, Goto, UnlockToShared, Freed
<1>7. CASE SyncHotJournal(c)
  BY <1>0, <1>7 DEF SyncHotJournal, At, Goto
<1>8. CASE NextSegment(c)
  BY <1>0, <1>8 DEF NextSegment
<1>9. CASE PlayRecord(c)
  BY ZenonT(40), <1>0, <1>9 DEF PlayRecord
<1>10. CASE EndPlayback(c)
  BY <1>0, <1>10 DEF EndPlayback, At, Goto
<1>11. CASE EndRollback(c)
  BY <1>0, <1>11 DEF EndRollback, At, Goto, Enter, EndTransaction, UnlockToShared, Freed
<1>12. CASE Validate(c)
  BY <1>0, <1>12 DEF Validate, At, Goto, Enter
<1>13. CASE GetPage1(c)
  BY <1>0, <1>13 DEF GetPage1, At, Goto
<1>14. CASE LockExclusive(c)
  BY <1>0, <1>14 DEF LockExclusive, At, Goto
<1>15. CASE SyncRecords(c)
  BY <1>0, <1>15 DEF SyncRecords, At, Goto
<1>16. CASE WriteHeader(c)
  BY <1>0, <1>16 DEF WriteHeader, At, Goto
<1>17. CASE SyncHeader(c)
  BY <1>0, <1>17 DEF SyncHeader, At, Goto, Enter
<1>18. CASE Spill(c)
  BY <1>0, <1>18 DEF Spill, At, Goto
<1>19. CASE WritePage(c)
  BY <1>0, <1>19 DEF WritePage
<1>20. CASE PagerSync(c)
  BY <1>0, <1>20 DEF PagerSync, At, Goto, Enter
<1>21. CASE CommitPhaseTwo(c)
  BY <1>0, <1>21 DEF CommitPhaseTwo, At, Goto, Enter, EndTransaction, UnlockToShared, Freed
<1>22. CASE EndRead(c)
  BY <1>0, <1>22 DEF EndRead, In, Enter, UnlockAll, Freed
<1>23. CASE Begin(c)
  BY <1>0, <1>23 DEF Begin, In, Enter
<1>24. CASE EndUnwritten(c)
  BY <1>0, <1>24 DEF EndUnwritten, In, Enter, UnlockToShared, Freed
<1>25. CASE CommitPhaseOne(c)
  BY <1>0, <1>25 DEF CommitPhaseOne, In, Goto, Writing
<1>26. CASE Rollback(c)
  BY <1>0, <1>26 DEF Rollback, In, Goto, Writing
<1>27. CASE GiveUp(c)
  BY <1>0, <1>27 DEF GiveUp, At, Goto
<1>28. CASE FailCommit(c)
  BY <1>0, <1>28 DEF FailCommit, At, Goto
<1>29. CASE Crash(c)
  BY <1>0, <1>29 DEF Crash, Enter, Goto, UnlockAll, Freed
<1>30. ASSUME NEW p \in Pages, Acquire(c, p) PROVE Locks'
  BY <1>0, <1>30 DEF Acquire
<1>31. ASSUME NEW p \in Pages, Write(c, p) PROVE Locks'
  BY <1>0, <1>31 DEF Write, In, Enter, Writing
<1>32. ASSUME NEW p \in Pages, Stress(c, p) PROVE Locks'
  BY <1>0, <1>32 DEF Stress, In, Goto, Writing
<1> QED
  BY <1>1, <1>2, <1>3, <1>4, <1>5, <1>6, <1>7, <1>8, <1>9, <1>10, <1>11, <1>12, <1>13, <1>14, <1>15, <1>16, <1>17, <1>18, <1>19, <1>20, <1>21, <1>22, <1>23, <1>24, <1>25, <1>26, <1>27, <1>28, <1>29, <1>30, <1>31, <1>32 DEF Step, Call

-----------------------------------------------------------------------------
(* Types, and what a connection does not touch *)

\* Connection d is not touched.
SameOwn(d) ==
  /\ eState'[d] = eState[d] /\ pc'[d] = pc[d] /\ spilling'[d] = spilling[d]
  /\ cache'[d] = cache[d] /\ dirty'[d] = dirty[d] /\ needSync'[d] = needSync[d]
  /\ dbFileVers'[d] = dbFileVers[d] /\ counted'[d] = counted[d]
  /\ play'[d] = play[d] /\ txn'[d] = txn[d]

\* A connection leaves the state of the others alone.
LEMMA OwnStep ==
  ASSUME Types, NEW c \in Connections, Step(c) \/ Call(c) \/ Crash(c),
         NEW d \in Connections, d # c
  PROVE  SameOwn(d)
<1> USE DEF Types, TypesOfControl, TypesOfMemory, TypesOfNumbers, SameOwn, control, memory, numbers
<1>1. CASE LockShared(c)
  BY <1>1 DEF LockShared, Goto, In, MayShare
<1>2. CASE AccessJournal(c)
  BY <1>2 DEF AccessJournal, At, Goto
<1>3. CASE CheckReservedLock(c)
  BY <1>3 DEF CheckReservedLock, At, Goto
<1>4. CASE ReadFirstByte(c)
  BY <1>4 DEF ReadFirstByte, At, Goto
<1>5. CASE LockHot(c)
  BY <1>5 DEF LockHot, At, Goto, MayExclude, UnlockAll, Freed
<1>6. CASE OpenHotJournal(c)
  BY <1>6 DEF OpenHotJournal, At, Goto, UnlockToShared, Freed
<1>7. CASE SyncHotJournal(c)
  BY <1>7 DEF SyncHotJournal, At, Goto
<1>8. CASE NextSegment(c)
  BY <1>8 DEF NextSegment
<1>9. CASE PlayRecord(c)
  BY ZenonT(40), <1>9 DEF PlayRecord, WriteDb, Reset
<1>10. CASE EndPlayback(c)
  BY <1>10 DEF EndPlayback, SyncDb, Goto
<1>11. CASE EndRollback(c)
  BY <1>11 DEF EndRollback, EndTransaction, Enter, Goto
<1>12. CASE Validate(c)
  BY <1>12 DEF Validate, Reset, Enter, Goto
<1>13. CASE GetPage1(c)
  BY <1>13 DEF GetPage1, Fetch, Goto
<1>14. CASE LockExclusive(c)
  BY <1>14 DEF LockExclusive, At, Goto
<1>15. CASE SyncRecords(c)
  BY <1>15 DEF SyncRecords, At, Goto
<1>16. CASE WriteHeader(c)
  BY <1>16 DEF WriteHeader, At, Goto
<1>17. CASE SyncHeader(c)
  BY <1>17 DEF SyncHeader, At, Goto, Enter
<1>18. CASE Spill(c)
  BY <1>18 DEF Spill, At, WriteDb, Goto
<1>19. CASE WritePage(c)
  BY <1>19 DEF WritePage, At, WriteDb
<1>20. CASE PagerSync(c)
  BY <1>20 DEF PagerSync, SyncDb, Enter, Goto
<1>21. CASE CommitPhaseTwo(c)
  BY <1>21 DEF CommitPhaseTwo, EndTransaction, Enter, Goto
<1>22. CASE EndRead(c)
  BY <1>22 DEF EndRead, In, Enter, UnlockAll, Freed
<1>23. CASE Begin(c)
  BY <1>23 DEF Begin, In, Enter
<1>24. CASE EndUnwritten(c)
  BY <1>24 DEF EndUnwritten, In, Enter, UnlockToShared, Freed
<1>25. CASE CommitPhaseOne(c)
  BY <1>25 DEF CommitPhaseOne, MakeWritable, Goto
<1>26. CASE Rollback(c)
  BY <1>26 DEF Rollback, In, Goto, Writing
<1>27. CASE GiveUp(c)
  BY <1>27 DEF GiveUp, At, Goto
<1>28. CASE FailCommit(c)
  BY <1>28 DEF FailCommit, WriteDb, Goto
<1>29. CASE Crash(c)
  BY <1>29 DEF Crash, Enter, Goto, UnlockAll, Freed
<1>30. ASSUME NEW p \in Pages, Acquire(c, p) PROVE SameOwn(d)
  BY <1>30 DEF Acquire, Fetch
<1>31. ASSUME NEW p \in Pages, Write(c, p) PROVE SameOwn(d)
  BY <1>31 DEF Write, MakeWritable, Enter
<1>32. ASSUME NEW p \in Pages, Stress(c, p) PROVE SameOwn(d)
  BY <1>32 DEF Stress, In, Goto, Writing
<1> QED
  BY <1>1, <1>2, <1>3, <1>4, <1>5, <1>6, <1>7, <1>8, <1>9, <1>10, <1>11, <1>12, <1>13, <1>14, <1>15, <1>16, <1>17, <1>18, <1>19, <1>20, <1>21, <1>22, <1>23, <1>24, <1>25, <1>26, <1>27, <1>28, <1>29, <1>30, <1>31, <1>32 DEF Step, Call

\* What a playback reads of a sound journal.
LEMMA PlaysIs ==
  ASSUME Sound(journal), NEW c, NEW i
  PROVE  /\ Plays(c, i) <=> i \in 1 .. Len(journal.segs) /\ (Hot(c) => journal.segs[i].magic)
         /\ Plays(c, i) => NumRecords(c, i) = Len(journal.segs[i].recs)
<1>1. DOMAIN journal.segs = 1 .. Len(journal.segs)
  BY JournalTypes DEF Sound
<1>2. Plays(c, i) <=> i \in 1 .. Len(journal.segs) /\ (Hot(c) => journal.segs[i].magic)
  BY <1>1, HotIs DEF Plays
<1>3. ASSUME Plays(c, i) PROVE NumRecords(c, i) = Len(journal.segs[i].recs)
  BY <1>2, <1>3, HotIs DEF NumRecords
<1> QED
  BY <1>2, <1>3

\* The record a playback has reached.
LEMMA PlayedRecord ==
  ASSUME Types, Sound(journal), NEW c \in Connections, Plays(c, play[c][1]),
         play[c][2] <= NumRecords(c, play[c][1])
  PROVE  /\ play[c][1] \in Nat /\ play[c][2] \in Nat
         /\ Slot(journal, play[c][1], play[c][2])
         /\ journal.segs[play[c][1]].recs[play[c][2]] \in Record
         /\ journal.segs[play[c][1]].recs[play[c][2]] \in Recorded(journal)
         /\ journal.segs[play[c][1]].magic =>
              journal.segs[play[c][1]].recs[play[c][2]] \in Kept(journal)
<1>1. play[c][1] \in Nat \ {0} /\ play[c][2] \in Nat \ {0}
  BY DEF Types, TypesOfControl
<1>2. play[c][1] \in 1 .. Len(journal.segs) /\ NumRecords(c, play[c][1]) = Len(journal.segs[play[c][1]].recs)
  BY PlaysIs
<1>3. /\ Len(journal.segs[play[c][1]].recs) \in Nat
      /\ \A k \in 1 .. Len(journal.segs[play[c][1]].recs) : journal.segs[play[c][1]].recs[k] \in Record
  BY <1>2, JournalTypes DEF Sound
<1>4. play[c][2] \in 1 .. Len(journal.segs[play[c][1]].recs)
  BY <1>1, <1>2, <1>3
<1>5. Slot(journal, play[c][1], play[c][2]) /\ journal.segs[play[c][1]].recs[play[c][2]] \in Record
  BY <1>2, <1>3, <1>4 DEF Slot
<1> QED
  BY <1>1, <1>5 DEF Recorded, Kept

\* Contents are numbers, and NotCached is none of them.
LEMMA ContentsAre ==
  /\ Contents \subseteq Int /\ Written \subseteq Contents /\ Torn \in Contents /\ 0 \in Written
  /\ NotCached \in Int /\ NotCached \notin Contents /\ NotCached \notin Written /\ 1 \in Pages
  /\ \A n \in Written : n \in Int
BY PagerAssumption DEF Contents, Written, Torn, NotCached, Pages

\* The empty cache.
LEMMA UncachedIs == Uncached \in [Pages -> Int] /\ \A p \in Pages : Uncached[p] = NotCached
BY ContentsAre DEF Uncached

\* A dirty page has the content of the transaction.
LEMMA DirtyContent ==
  ASSUME Types, Locks, NEW c \in Connections, Conn(c), pc[c] \in {"spill", "write"},
         NEW p \in dirty[c]
  PROVE  p \in Pages /\ cache[c][p] = txn[c] /\ txn[c] \in Written
<1>1. eState[c] \in Writing
  BY DEF Locks, Control, Writing
<1>2. LivePages(c)
  BY <1>1 DEF Conn
<1> QED
  BY <1>2 DEF LivePages, Types, TypesOfMemory, TypesOfNumbers

\* The least dirty page.
LEMMA LeastDirty ==
  ASSUME Types, NEW c \in Connections, dirty[c] # {}
  PROVE  Min(dirty[c]) \in dirty[c] /\ \A p \in dirty[c] : Min(dirty[c]) <= p
<1>1. dirty[c] \subseteq 1 .. NumPages /\ dirty[c] \subseteq Nat
  BY PagerAssumption DEF Types, TypesOfMemory, Pages
<1>2. IsWellFoundedOn(OpToRel(<, Nat), Nat)
  BY NatLessThanWellFounded
<1>3. PICK m \in dirty[c] : \A p \in dirty[c] : ~(<<p, m>> \in OpToRel(<, Nat))
  BY <1>1, <1>2, WFMin
<1>4. ASSUME NEW p \in dirty[c] PROVE m <= p
  <2>1. p \in Nat /\ m \in Nat
    BY <1>1, <1>3
  <2>2. ~(p < m)
    BY <1>3, <2>1, Zenon DEF OpToRel
  <2> QED
    BY <2>1, <2>2
<1> QED
  BY <1>4 DEF Min

\* A page is written.
LEMMA WriteDbTypes ==
  ASSUME TypesOfFiles, NEW p \in Pages, NEW x \in Contents, WriteDb(p, x)
  PROVE  TypesOfFiles'
BY ContentsAre DEF TypesOfFiles, WriteDb

\* A page is read.
LEMMA FetchTypes ==
  ASSUME TypesOfFiles, TypesOfMemory, TypesOfNumbers, NEW c \in Connections, NEW p \in Pages,
         Fetch(c, p)
  PROVE  TypesOfMemory'
<1>1. db[p] \in Int /\ counterOf[db[1]] \in Int
  BY ContentsAre, UncachedIs DEF TypesOfFiles, TypesOfNumbers
<1>2. cache' \in [Connections -> [Pages -> Int]]
  BY <1>1 DEF Fetch, TypesOfMemory
<1>3. dbFileVers' \in [Connections -> Int]
  BY <1>1 DEF Fetch, TypesOfMemory
<1> QED
  BY <1>2, <1>3 DEF Fetch, TypesOfMemory

\* Every step keeps the types.
LEMMA TypesStep ==
  ASSUME Types, Locks, Files, NEW c \in Connections, Conn(c),
         Step(c) \/ Call(c) \/ Crash(c)
  PROVE  Types'
<1>0. /\ Contents \subseteq Int /\ Written \subseteq Contents /\ Torn \in Contents /\ 0 \in Written
      /\ NotCached \in Int /\ 1 \in Pages /\ Uncached \in [Pages -> Int]
      /\ \A n \in Written : n \in Int
  BY ContentsAre, UncachedIs
<1> USE DEF Types, TypesOfFiles, TypesOfControl, TypesOfMemory, TypesOfNumbers, files, control, memory, numbers, FirstRecord
<1>1. CASE LockShared(c)
  BY <1>0, <1>1 DEF LockShared, Goto, In, MayShare
<1>2. CASE AccessJournal(c)
  BY <1>0, <1>2 DEF AccessJournal, At, Goto
<1>3. CASE CheckReservedLock(c)
  BY <1>0, <1>3 DEF CheckReservedLock, At, Goto
<1>4. CASE ReadFirstByte(c)
  BY <1>0, <1>4 DEF ReadFirstByte, At, Goto
<1>5. CASE LockHot(c)
  BY <1>0, <1>5 DEF LockHot, At, Goto, MayExclude, UnlockAll, Freed
<1>6. CASE OpenHotJournal(c)
  BY <1>0, <1>6 DEF OpenHotJournal, At, Goto, UnlockToShared, Freed
<1>7. CASE SyncHotJournal(c)
  BY <1>0, <1>7 DEF SyncHotJournal, At, Goto
<1>8. CASE NextSegment(c)
  BY <1>0, <1>8 DEF NextSegment
<1>9. CASE PlayRecord(c)
  <2> DEFINE i == play[c][1]
             k == play[c][2]
             r == journal.segs[i].recs[k]
  <2>0. r \in Record /\ r.page \in Pages /\ r.old \in Contents /\ i \in Nat \ {0} /\ k \in Nat \ {0}
    BY <1>9, PlayedRecord DEF PlayRecord, Record, Files
  <2>10. /\ play' = [play EXCEPT ![c] = <<i, k + 1>>]
         /\ WriteDb(r.page, r.old) \/ UNCHANGED <<db, dbDisk>>
         /\ \/ Reset(c)
            \/ /\ cache' = [cache EXCEPT ![c][r.page] = IF @ = NotCached THEN @ ELSE r.old]
               /\ dirty' = [dirty EXCEPT ![c] = @ \ {r.page}]
               /\ needSync' = [needSync EXCEPT ![c] = @ \ {r.page}]
               /\ dbFileVers' = [dbFileVers EXCEPT ![c] = IF r.page = 1 THEN counterOf[r.old] ELSE @]
               /\ UNCHANGED counted
         /\ UNCHANGED <<control, numbers>>
    BY <1>9 DEF PlayRecord
  <2> HIDE DEF r, i, k
  <2>1. TypesOfFiles'
    <3>1. CASE WriteDb(r.page, r.old)
      BY <2>0, <3>1, WriteDbTypes
    <3>2. CASE UNCHANGED <<db, dbDisk>>
      BY <3>2
    <3> QED
      BY <2>10, <3>1, <3>2
  <2>2. TypesOfControl'
    BY <2>0, <2>10
  <2>3. TypesOfMemory'
    <3>1. CASE Reset(c)
      BY <1>0, <3>1 DEF Reset
    <3>2. CASE ~Reset(c)
      <4>1. counterOf[r.old] \in Int /\ r.old \in Int
        BY <1>0, <2>0
      <4>2. cache' \in [Connections -> [Pages -> Int]]
        <5> DEFINE p == r.page
                   old == IF cache[c][p] = NotCached THEN cache[c][p] ELSE r.old
        <5>1. p \in Pages /\ old \in Int /\ cache' = [cache EXCEPT ![c][p] = old]
          BY <2>0, <2>10, <3>2, <4>1
        <5> HIDE DEF p, old
        <5> QED
          BY <5>1
      <4>21. dirty' \in [Connections -> SUBSET Pages] /\ needSync' \in [Connections -> SUBSET Pages]
        <5>1. /\ dirty' = [dirty EXCEPT ![c] = @ \ {r.page}]
              /\ needSync' = [needSync EXCEPT ![c] = @ \ {r.page}]
          BY <2>10, <3>2
        <5>2. dirty[c] \ {r.page} \in SUBSET Pages /\ needSync[c] \ {r.page} \in SUBSET Pages
          OBVIOUS
        <5> QED
          BY <5>1, <5>2
      <4>3. dbFileVers' \in [Connections -> Int] /\ counted' \in [Connections -> BOOLEAN]
        BY <2>10, <3>2, <4>1
      <4> QED
        BY <4>2, <4>21, <4>3
    <3> QED
      BY <3>1, <3>2
  <2>4. TypesOfNumbers'
    BY <2>10
  <2> QED
    BY <2>1, <2>2, <2>3, <2>4
<1>10. CASE EndPlayback(c)
  BY <1>0, <1>10 DEF EndPlayback, SyncDb, Goto
<1>11. CASE EndRollback(c)
  BY <1>0, <1>11 DEF EndRollback, EndTransaction, Enter, Goto
<1>12. CASE Validate(c)
  BY <1>0, <1>12 DEF Validate, Reset, Enter, Goto
<1>13. CASE GetPage1(c)
  <2>1. TypesOfFiles'
    BY <1>0, <1>13 DEF GetPage1, Fetch, Goto
  <2>2. TypesOfControl'
    BY <1>0, <1>13 DEF GetPage1, Goto
  <2>3. TypesOfMemory'
    BY ONLY Types, c \in Connections, <1>0, <1>13, FetchTypes DEF GetPage1, Types
  <2>4. TypesOfNumbers'
    BY <1>0, <1>13 DEF GetPage1, Fetch, Goto
  <2> QED
    BY <2>1, <2>2, <2>3, <2>4
<1>14. CASE LockExclusive(c)
  BY <1>0, <1>14 DEF LockExclusive, At, Goto
<1>15. CASE SyncRecords(c)
  BY <1>0, <1>15 DEF SyncRecords, At, Goto
<1>16. CASE WriteHeader(c)
  BY <1>0, <1>16 DEF WriteHeader, At, Goto
<1>17. CASE SyncHeader(c)
  BY <1>0, <1>17 DEF SyncHeader, At, Goto, Enter
<1>18. CASE Spill(c)
  <2>0. spilling[c] \in Pages /\ cache[c][spilling[c]] \in Contents
    <3>1. eState[c] \in Writing
      BY <1>18 DEF Spill, At, Locks, Control, Writing
    <3>2. spilling[c] \in dirty[c]
      BY <1>18, <3>1 DEF Spill, At, Conn, LiveAt
    <3> QED
      BY <1>0, <1>18, <3>2, DirtyContent DEF Spill, At
  <2>1. TypesOfFiles'
    BY <1>0, <1>18, <2>0 DEF Spill, At, WriteDb, Goto
  <2>2. TypesOfControl'
    BY <1>0, <1>18, PagerAssumption DEF Spill, Goto
  <2>3. TypesOfMemory'
    BY <1>0, <1>18, <2>0 DEF Spill, At, WriteDb, Goto
  <2>4. TypesOfNumbers'
    BY <1>0, <1>18, <2>0 DEF Spill, At, WriteDb, Goto
  <2> QED
    BY <2>1, <2>2, <2>3, <2>4
<1>19. CASE WritePage(c)
  <2>0. Min(dirty[c]) \in Pages /\ cache[c][Min(dirty[c])] \in Contents
    BY <1>0, <1>19, LeastDirty, DirtyContent DEF WritePage, At
  <2>1. TypesOfFiles'
    BY <1>0, <1>19, <2>0 DEF WritePage, At, WriteDb
  <2>2. TypesOfControl'
    BY <1>0, <1>19, <2>0 DEF WritePage, At, WriteDb
  <2>3. TypesOfMemory'
    BY <1>0, <1>19, <2>0 DEF WritePage, At, WriteDb
  <2>4. TypesOfNumbers'
    <3>1. txn[c] \in Written /\ txn[c] \in Contents
      BY <1>0
    <3>2. ASSUME Min(dirty[c]) = 1 PROVE dbFileVers[c] + 1 >= 0
      <4>1. 1 \in dirty[c] /\ eState[c] \in Writing /\ pc[c] = "write"
        BY ZenonT(40), <1>19, <3>2, LeastDirty DEF WritePage, At, Locks, Control, Writing
      <4>2. dbFileVers[c] = Counter
        BY <4>1 DEF Conn, LiveCounter
      <4>3. Database[1] \in Written
        BY <1>0 DEF Files
      <4>4. Counter >= 0 /\ Counter \in Int
        BY <1>0, <4>3 DEF Counter
      <4> QED
        BY <4>2, <4>4
    <3>3. counterOf' = [counterOf EXCEPT ![txn[c]] = IF Min(dirty[c]) = 1 THEN dbFileVers[c] + 1 ELSE @]
      BY <1>19 DEF WritePage
    <3>4. counterOf' \in [Contents -> Int]
      BY <3>1, <3>3
    <3>5. ASSUME NEW t \in Written PROVE counterOf'[t] >= 0
      BY <1>0, <3>1, <3>2, <3>3
    <3> QED
      BY <1>19, <3>4, <3>5 DEF WritePage
  <2> QED
    BY <2>1, <2>2, <2>3, <2>4
<1>20. CASE PagerSync(c)
  BY <1>0, <1>20 DEF PagerSync, SyncDb, Enter, Goto
<1>21. CASE CommitPhaseTwo(c)
  BY <1>0, <1>21 DEF CommitPhaseTwo, EndTransaction, Enter, Goto
<1>22. CASE EndRead(c)
  BY <1>0, <1>22 DEF EndRead, In, Enter, UnlockAll, Freed
<1>23. CASE Begin(c)
  <2>1. TypesOfFiles'
    BY <1>0, <1>23, PagerAssumption DEF Begin, In, Enter
  <2>2. TypesOfControl'
    BY <1>0, <1>23, PagerAssumption DEF Begin, In, Enter
  <2>3. TypesOfMemory'
    BY <1>0, <1>23, PagerAssumption DEF Begin, In, Enter
  <2>4. TypesOfNumbers'
    BY <1>0, <1>23, PagerAssumption DEF Begin, Written
  <2> QED
    BY <2>1, <2>2, <2>3, <2>4
<1>24. CASE EndUnwritten(c)
  BY <1>0, <1>24 DEF EndUnwritten, In, Enter, UnlockToShared, Freed
<1>25. CASE CommitPhaseOne(c)
  <2>1. TypesOfFiles'
    BY <1>0, <1>25 DEF CommitPhaseOne, MakeWritable, Goto
  <2>2. TypesOfControl'
    BY <1>25, PagerAssumption DEF CommitPhaseOne, Goto
  <2>3. TypesOfMemory'
    <3>1. CASE counted[c]
      BY <1>25, <3>1 DEF CommitPhaseOne
    <3>2. CASE ~counted[c]
      <4>1. MakeWritable(c, 1) /\ counted' = [counted EXCEPT ![c] = TRUE] /\ UNCHANGED dbFileVers
        BY <1>25, <3>2 DEF CommitPhaseOne
      <4>2. txn[c] \in Int /\ 1 \in Pages
        BY <1>0
      <4> QED
        BY <4>1, <4>2 DEF MakeWritable
    <3> QED
      BY <3>1, <3>2
  <2>4. TypesOfNumbers'
    BY <1>0, <1>25 DEF CommitPhaseOne, MakeWritable, Goto
  <2> QED
    BY <2>1, <2>2, <2>3, <2>4
<1>26. CASE Rollback(c)
  BY <1>0, <1>26 DEF Rollback, In, Goto, Writing
<1>27. CASE GiveUp(c)
  BY <1>0, <1>27 DEF GiveUp, At, Goto
<1>28. CASE FailCommit(c)
  <2>1. TypesOfFiles'
    <3>1. CASE dirty[c] # {} /\ WriteDb(Min(dirty[c]), Torn)
      <4>1. Min(dirty[c]) \in Pages
        BY <3>1, LeastDirty
      <4> QED
        BY <1>0, <3>1, <4>1 DEF WriteDb
    <3>2. CASE UNCHANGED <<db, dbDisk>>
      BY <3>2
    <3> QED
      BY <1>28, <3>1, <3>2 DEF FailCommit
  <2>2. TypesOfControl'
    BY <1>0, <1>28, LeastDirty DEF FailCommit, WriteDb, Goto
  <2>3. TypesOfMemory'
    BY <1>0, <1>28, LeastDirty DEF FailCommit, WriteDb, Goto
  <2>4. TypesOfNumbers'
    BY <1>0, <1>28, LeastDirty DEF FailCommit, WriteDb, Goto
  <2> QED
    BY <2>1, <2>2, <2>3, <2>4
<1>29. CASE Crash(c)
  <2>1. TypesOfFiles'
    BY <1>0, <1>29, PagerAssumption DEF Crash, Enter, Goto, UnlockAll, Freed
  <2>2. TypesOfControl'
    BY <1>0, <1>29, PagerAssumption DEF Crash, Enter, Goto, UnlockAll, Freed
  <2>3. TypesOfMemory'
    BY <1>0, <1>29, PagerAssumption DEF Crash, Enter, Goto, UnlockAll, Freed
  <2>4. TypesOfNumbers'
    BY <1>0, <1>29, PagerAssumption DEF Crash, Enter, Goto, UnlockAll, Freed
  <2> QED
    BY <2>1, <2>2, <2>3, <2>4
<1>30. ASSUME NEW p \in Pages, Acquire(c, p) PROVE Types'
  <2>1. TypesOfMemory'
    BY ONLY Types, c \in Connections, p \in Pages, <1>30, FetchTypes DEF Acquire, Types
  <2> QED
    BY <2>1, <1>30 DEF Acquire
<1>31. ASSUME NEW p \in Pages, Write(c, p) PROVE Types'
  BY <1>0, <1>31 DEF Write, MakeWritable, Enter
<1>32. ASSUME NEW p \in Pages, Stress(c, p) PROVE Types'
  <2>1. TypesOfFiles'
    BY <1>0, <1>32, PagerAssumption DEF Stress, In, Goto, Pages
  <2>2. TypesOfControl'
    <3>1. p \in 0 .. NumPages
      BY <1>32, PagerAssumption DEF Pages
    <3> QED
      BY <1>32, <3>1 DEF Stress, Goto
  <2>3. TypesOfMemory'
    BY <1>0, <1>32, PagerAssumption DEF Stress, In, Goto, Pages
  <2>4. TypesOfNumbers'
    BY <1>0, <1>32, PagerAssumption DEF Stress, In, Goto, Pages
  <2> QED
    BY <2>1, <2>2, <2>3, <2>4
<1> QED
  BY <1>1, <1>2, <1>3, <1>4, <1>5, <1>6, <1>7, <1>8, <1>9, <1>10, <1>11, <1>12, <1>13, <1>14, <1>15, <1>16, <1>17, <1>18, <1>19, <1>20, <1>21, <1>22, <1>23, <1>24, <1>25, <1>26, <1>27, <1>28, <1>29, <1>30, <1>31, <1>32 DEF Step, Call

-----------------------------------------------------------------------------
(* The database *)

\* A file and a journal are a database D when the journal keeps contents of D
\* and the other pages have theirs.
LEMMA DatabaseIs ==
  ASSUME NEW file, NEW j, Sound(j), NEW S, NEW D \in [Pages -> S],
         \A r \in Kept(j) : r.old = D[r.page],
         \A p \in Pages : p \notin PagesOf(Kept(j)) => file[p] = D[p]
  PROVE  Restored(file, j) = D
<1>1. ASSUME NEW p \in Pages PROVE Restored(file, j)[p] = D[p]
  <2>1. CASE p \in PagesOf(Kept(j))
    <3>1. PICK r \in Kept(j) : r.page = p
      BY <2>1 DEF PagesOf
    <3> QED
      BY <3>1, RestoredIs
  <2>2. CASE p \notin PagesOf(Kept(j))
    BY <2>2, RestoredIs
  <2> QED
    BY <2>1, <2>2
<1>2. Restored(file, j) = [p \in Pages |-> Restored(file, j)[p]]
  BY RestoredIs
<1> QED
  BY <1>1, <1>2

\* The journal keeps contents of the database; the file has the others.
LEMMA KeptIs ==
  ASSUME Sound(journal)
  PROVE  /\ \A r \in Kept(journal) : r.page \in Pages /\ r.old = Database[r.page]
         /\ \A p \in Pages : p \notin PagesOf(Kept(journal)) => Database[p] = db[p]
BY RestoredIs DEF Database

\* Nothing is kept: the file is the database.
LEMMA NothingKept ==
  ASSUME Types, Files, Kept(journal) = {}
  PROVE  /\ Database = db /\ \A p \in Pages : db[p] = Database[p] /\ dbDisk[p] = {Database[p]}
         /\ Kept(journalDisk) = {}
<1>1. Kept(journalDisk) = {} /\ PagesOf(Kept(journalDisk)) = {}
  BY DEF Files, PagesOf
<1>2. \A p \in Pages : db[p] = Database[p] /\ dbDisk[p] = {Database[p]}
  BY <1>1 DEF Files
<1>3. Database = db
  BY <1>2 DEF Files, Types, TypesOfFiles
<1> QED
  BY <1>1, <1>2, <1>3

\* Values a power loss may restore.
Past == {Restored(db, j) : j \in undeleted} \ {Database}

\* Locks keep the other connections from writing, and from reading.
LEMMA Apart ==
  ASSUME Locks, NEW c \in Connections, NEW d \in Connections, d # c,
         reserved = c \/ exclusive = c
  PROVE  /\ eState[d] \in {"open", "reader"} /\ pc[d] \notin {"play", "end"}
         /\ exclusive = c => eState[d] = "open" /\ pc[d] = "idle" /\ ~Quiet(d)
BY PagerAssumption DEF Locks, Control, Holds, Excludes, Quiet

\* The files are not touched.
LEMMA FilesSame ==
  ASSUME Types, Files, Deleted, UNCHANGED files, txns' \in Int, txns' >= txns
  PROVE  /\ Files' /\ Deleted'
         /\ Database' = Database /\ Past' = Past
<1>1. UNCHANGED <<db, dbDisk, journal, journalDisk, undeleted>>
  BY DEF files
<1>2. Database' = Database
  BY <1>1 DEF Database
<1>3. Past' = Past
  BY <1>1, <1>2 DEF Past
<1>4. txns \in Int /\ Database[1] \in Int
  BY ContentsAre DEF Types, TypesOfNumbers, Files
<1>5. Database'[1] <= txns'
  BY <1>2, <1>4 DEF Files
<1>6. Files'
  BY <1>1, <1>2, <1>5 DEF Files, SyncedRecords
<1>7. ASSUME NEW j \in undeleted'
      PROVE  Sound(j) /\ Restored(db', j) \in [Pages -> Written] /\ Restored(db', j)[1] <= txns'
  <2>1. Sound(j) /\ Restored(db, j) \in [Pages -> Written] /\ Restored(db, j)[1] <= txns
    BY <1>1, <1>7 DEF Deleted
  <2>2. Restored(db, j)[1] \in Int
    BY <2>1, ContentsAre
  <2> QED
    BY <1>1, <1>4, <2>1, <2>2
<1>8. Deleted'
  BY <1>1, <1>7 DEF Deleted
<1> QED
  BY <1>2, <1>3, <1>6, <1>8

\* A connection stays what it is while nothing it depends on changes.
LEMMA ConnSame ==
  ASSUME NEW d \in Connections, Conn(d), SameOwn(d), UNCHANGED files, UNCHANGED counterOf,
         txns' = txns \/ ~Holds(d)
  PROVE  Conn(d)'
<1>1. UNCHANGED <<db, dbDisk, journal, journalDisk, undeleted>>
  BY DEF files
<1>2. Database' = Database /\ Counter' = Counter
  BY <1>1 DEF Database, Counter
<1>3. \A p \in Pages : Agrees(d, p)' <=> Agrees(d, p)
  BY <1>2 DEF Agrees, SameOwn
<1>4. Quiet(d)' <=> Quiet(d)
  BY DEF Quiet, SameOwn
<1>5. Outside(d) => Outside(d)'
  BY <1>2, <1>3 DEF Outside, SameOwn
<1>6. (Holds(d)' <=> Holds(d)) /\ (Holds(d) /\ Owns(d) => Owns(d)')
  BY <1>2 DEF Owns, Holds, SameOwn
<1>7. Owner(d) => Owner(d)'
  BY <1>1, <1>2 DEF Owner, SameOwn
<1>8. LivePages(d) => LivePages(d)'
  BY <1>1 DEF LivePages, SameOwn
<1>9. LiveAt(d) => LiveAt(d)'
  BY <1>1 DEF LiveAt, SameOwn
<1>10. LiveCounter(d) => LiveCounter(d)'
  BY <1>1, <1>2 DEF LiveCounter, SameOwn
<1>11. \A p \in Pages : (Ahead(d, p)' <=> Ahead(d, p)) /\ (AheadHot(d, p)' <=> AheadHot(d, p))
  BY <1>1 DEF Ahead, AheadHot, SameOwn
<1>12. Undone(d) => Undone(d)'
  BY <1>1, <1>2, <1>3, <1>11 DEF Undone, SameOwn
<1>13. Ended(d) => Ended(d)'
  BY <1>1, <1>2, <1>3 DEF Ended, SameOwn
<1>14. Finished(d) => Finished(d)'
  BY <1>1, <1>2 DEF Finished, SameOwn
<1> QED
  BY <1>1, <1>4, <1>5, <1>6, <1>7, <1>8, <1>9, <1>10, <1>12, <1>13, <1>14 DEF Conn, SameOwn

\* A connection outside depends on the database and its counter alone.
LEMMA ConnOutside ==
  ASSUME NEW d \in Connections, Conn(d), SameOwn(d),
         eState[d] \in {"open", "reader"}, pc[d] \notin {"play", "end"},
         Database' = Database, Counter' = Counter, Quiet(d) => Kept(journal') = {}
  PROVE  Conn(d)'
<1>1. \A p \in Pages : Agrees(d, p)' <=> Agrees(d, p)
  BY DEF Agrees, SameOwn
<1>2. Quiet(d)' <=> Quiet(d)
  BY DEF Quiet, SameOwn
<1>3. Outside(d)'
  BY <1>1 DEF Outside, SameOwn, Conn
<1> QED
  BY <1>2, <1>3 DEF Conn, SameOwn, Holds, Writing

-----------------------------------------------------------------------------
(* Steps that do not touch the files *)

\* A connection that only reads is what it is outside.
LEMMA ConnReads ==
  ASSUME NEW c \in Connections, Outside(c)', eState'[c] \in {"open", "reader"},
         pc'[c] \notin {"play", "end"}, play'[c] = FirstRecord,
         Quiet(c)' => Kept(journal') = {}
  PROVE  Conn(c)'
BY DEF Conn, Holds, Writing

\* The cache does not change.
LEMMA OutsideSame ==
  ASSUME NEW c \in Connections, Outside(c), eState'[c] = "open",
         UNCHANGED <<cache, dirty, dbFileVers, counted>>, Database' = Database, Counter' = Counter
  PROVE  Outside(c)'
BY DEF Outside, Agrees

\* At the start of a playback it has everything ahead.
LEMMA AllAhead ==
  ASSUME Sound(journal), NEW c \in Connections, play[c] = FirstRecord
  PROVE  \A p \in Pages : /\ Ahead(c, p) <=> p \in PagesOf(Recorded(journal))
                          /\ AheadHot(c, p) <=> p \in PagesOf(Kept(journal))
<1>1. play[c][1] = 1 /\ play[c][2] = 1
  BY DEF FirstRecord
<1>2. \A i, k \in Nat : Slot(journal, i, k) =>
        /\ i > 1 \/ (i = 1 /\ k >= 1)
        /\ journal.segs[i].recs[k] \in Record
  BY JournalTypes DEF Slot, Sound
<1>3. ASSUME NEW p \in Pages PROVE Ahead(c, p) <=> p \in PagesOf(Recorded(journal))
  BY <1>1, <1>2 DEF Ahead, PagesOf, Recorded
<1>4. ASSUME NEW p \in Pages PROVE AheadHot(c, p) <=> p \in PagesOf(Kept(journal))
  BY <1>1, <1>2 DEF AheadHot, PagesOf, Kept
<1> QED
  BY <1>3, <1>4

\* Behind the last record of a segment comes the first of the next.
LEMMA SegmentPlayed ==
  ASSUME Types, Sound(journal), NEW c \in Connections, UNCHANGED journal,
         Plays(c, play[c][1]), play[c][2] > NumRecords(c, play[c][1]),
         play'[c] = <<play[c][1] + 1, 1>>
  PROVE  \A p \in Pages : (Ahead(c, p)' <=> Ahead(c, p)) /\ (AheadHot(c, p)' <=> AheadHot(c, p))
<1>1. play[c][1] \in Nat /\ play[c][2] \in Nat /\ play'[c][1] = play[c][1] + 1 /\ play'[c][2] = 1
  BY DEF Types, TypesOfControl
<1>2. play[c][2] > Len(journal.segs[play[c][1]].recs) /\ Len(journal.segs[play[c][1]].recs) \in Nat
  BY PlaysIs, JournalTypes DEF Sound
<1>3. \A i, k \in Nat : Slot(journal, i, k) =>
        (i > play'[c][1] \/ (i = play'[c][1] /\ k >= play'[c][2])
           <=> i > play[c][1] \/ (i = play[c][1] /\ k >= play[c][2]))
  <2> DEFINE m == play[c][1]
             n == play[c][2]
             last == Len(journal.segs[m].recs)
  <2>1. m \in Nat /\ n \in Nat /\ last \in Nat /\ n > last
    BY <1>1, <1>2
  <2>2. SUFFICES ASSUME NEW i \in Nat, NEW k \in Nat, Slot(journal, i, k)
                 PROVE  i > m + 1 \/ (i = m + 1 /\ k >= 1) <=> i > m \/ (i = m /\ k >= n)
    BY <1>1
  <2>3. k >= 1 /\ (i = m => k <= last)
    BY <2>1, <2>2 DEF Slot
  <2> HIDE DEF m, n, last
  <2> QED
    BY <2>1, <2>3
<1> QED
  BY <1>3 DEF Ahead, AheadHot

\* A transaction that rolls back has not changed what it has no record of.
LEMMA LiveUndone ==
  ASSUME Files, NEW c \in Connections, LivePages(c), LiveCounter(c), eState[c] \in Writing,
         pc[c] = "idle" \/ 1 \in PagesOf(Recorded(journal)),
         UNCHANGED <<eState, cache, dbFileVers, journal, play>>,
         \A p \in Pages : p \notin PagesOf(Kept(journal)) => db'[p] = db[p],
         Database' = Database, Counter' = Counter, play[c] = FirstRecord
  PROVE  Undone(c)'
<1>0. \A p \in Pages : /\ Ahead(c, p) <=> p \in PagesOf(Recorded(journal))
                       /\ AheadHot(c, p) <=> p \in PagesOf(Kept(journal))
  BY AllAhead DEF Files
<1>1. \A p \in Pages : (Ahead(c, p)' <=> Ahead(c, p)) /\ (AheadHot(c, p)' <=> AheadHot(c, p))
  BY DEF Ahead, AheadHot
<1>2. ASSUME NEW p \in Pages, p \notin PagesOf(Kept(journal)) PROVE db[p] = Database[p]
  BY <1>2, KeptIs DEF Files
<1>3. ASSUME NEW p \in Pages, p \notin PagesOf(Recorded(journal))
      PROVE  Agrees(c, p) /\ (p = 1 => dbFileVers[c] = Counter)
  <2>1. p \notin PagesOf(Kept(journal))
    BY <1>3, KeptRecords DEF Files, PagesOf
  <2> QED
    BY <1>2, <1>3, <2>1 DEF LivePages, LiveCounter, Agrees
<1> QED
  BY <1>0, <1>1, <1>2, <1>3 DEF Undone, Agrees, Writing

\* A step that reads or locks keeps what its connection is.
LEMMA ReadingStep ==
  ASSUME PagerInv, NEW c \in Connections,
         \/ LockShared(c) \/ AccessJournal(c) \/ CheckReservedLock(c) \/ ReadFirstByte(c)
         \/ LockHot(c) \/ OpenHotJournal(c) \/ Validate(c) \/ GetPage1(c)
         \/ EndRead(c) \/ Begin(c) \/ EndUnwritten(c) \/ LockExclusive(c) \/ GiveUp(c)
         \/ Rollback(c) \/ NextSegment(c) \/ Crash(c)
         \/ \E p \in Pages : Acquire(c, p) \/ Stress(c, p)
  PROVE  Conn(c)'
<1>0. /\ Types /\ Locks /\ Files /\ Conn(c)
      /\ UNCHANGED files /\ UNCHANGED counterOf
  BY DEF PagerInv, LockShared, AccessJournal, CheckReservedLock, ReadFirstByte, LockHot,
         OpenHotJournal, Validate, GetPage1, EndRead, Begin, EndUnwritten, LockExclusive,
         GiveUp, Rollback, NextSegment, Crash, Acquire, Stress, numbers
<1>00. UNCHANGED <<db, dbDisk, journal, journalDisk, undeleted>>
  BY <1>0 DEF files
<1>01. Database' = Database /\ Counter' = Counter
  BY <1>0, <1>00 DEF Database, Counter
<1>02. /\ eState \in [Connections -> {"open", "reader", "locked", "cachemod", "dbmod", "finished"}]
       /\ pc \in [Connections -> {"idle", "access", "reserved", "first", "hotLock", "openHot", "syncHot",
                                  "play", "end", "validate", "page1", "exclusive", "syncRecords",
                                  "header", "syncHeader", "spill", "write", "commit"}]
       /\ Control(c)
  BY <1>0 DEF Types, TypesOfControl, Locks
<1>03. pc[c] # "play" => play[c] = FirstRecord
  BY <1>0 DEF Conn
<1>1. CASE LockShared(c)
  BY <1>0, <1>00, <1>01, <1>1 DEF LockShared, Goto, In, MayShare, Conn, Quiet, Holds, Outside, Owns, Owner, LivePages, LiveAt, LiveCounter, Ended, Finished, Agrees, Writing, Types, TypesOfControl, TypesOfMemory, TypesOfNumbers, Locks, Control, control, memory, numbers
<1>2. CASE AccessJournal(c)
  <2>1. eState[c] = "open" /\ eState'[c] = "open" /\ Outside(c) /\ pc[c] \notin {"play", "idle"}
    BY <1>0, <1>02, <1>2 DEF AccessJournal, At, Conn, Control
  <2>2. /\ UNCHANGED memory /\ UNCHANGED play
        /\ pc'[c] \notin {"play", "end"} /\ (pc'[c] = "validate" => Kept(journal) = {})
    <3>1. ~journal.exists => Kept(journal) = {}
      BY <1>0, KeptRecords DEF Files
    <3> QED
      BY <1>02, <1>2, <3>1 DEF AccessJournal, At, Goto
  <2>3. Outside(c)'
    BY <1>01, <2>1, <2>2, OutsideSame DEF memory
  <2>4. play'[c] = FirstRecord
    BY <1>03, <2>1, <2>2
  <2>5. Quiet(c)' => pc'[c] = "validate"
    BY <2>1 DEF Quiet
  <2> QED
    BY <1>00, <2>1, <2>2, <2>3, <2>4, <2>5, ConnReads
<1>3. CASE CheckReservedLock(c)
  <2>1. eState[c] = "open" /\ eState'[c] = "open" /\ Outside(c) /\ pc[c] \notin {"play", "idle"}
    BY <1>0, <1>02, <1>3 DEF CheckReservedLock, At, Conn, Control
  <2>2. /\ UNCHANGED memory /\ UNCHANGED play
        /\ pc'[c] \notin {"play", "end"} /\ (pc'[c] = "validate" => Kept(journal) = {})
    <3>1. ASSUME reserved # NoOne PROVE Kept(journal) = {}
      <4>1. reserved \in Connections /\ Holds(reserved) /\ reserved # c /\ c \in shared
        BY <1>0, <1>3, <2>1, <3>1 DEF CheckReservedLock, At, Locks, Holds
      <4>2. ~Excludes(reserved)
        BY <1>0, <4>1 DEF Locks
      <4>3. Quiet(reserved)
        BY <1>0, <4>1, <4>2 DEF Excludes, Locks, Holds, Quiet
      <4> QED
        BY <4>1, <4>3 DEF PagerInv, Conn
    <3> QED
      BY <1>02, <1>3, <3>1 DEF CheckReservedLock, At, Goto
  <2>3. Outside(c)'
    BY <1>01, <2>1, <2>2, OutsideSame DEF memory
  <2>4. play'[c] = FirstRecord
    BY <1>03, <2>1, <2>2
  <2>5. Quiet(c)' => pc'[c] = "validate"
    BY <2>1 DEF Quiet
  <2> QED
    BY <1>00, <2>1, <2>2, <2>3, <2>4, <2>5, ConnReads
<1>4. CASE ReadFirstByte(c)
  <2>1. eState[c] = "open" /\ eState'[c] = "open" /\ Outside(c) /\ pc[c] \notin {"play", "idle"}
    BY <1>0, <1>02, <1>4 DEF ReadFirstByte, At, Conn, Control
  <2>2. /\ UNCHANGED memory /\ UNCHANGED play
        /\ pc'[c] \notin {"play", "end"} /\ (pc'[c] = "validate" => Kept(journal) = {})
    <3>1. ~LooksHot => Kept(journal) = {}
      BY <1>0, KeptRecords DEF Files, LooksHot, Sound
    <3> QED
      BY <1>02, <1>4, <3>1 DEF ReadFirstByte, At, Goto
  <2>3. Outside(c)'
    BY <1>01, <2>1, <2>2, OutsideSame DEF memory
  <2>4. play'[c] = FirstRecord
    BY <1>03, <2>1, <2>2
  <2>5. Quiet(c)' => pc'[c] = "validate"
    BY <2>1 DEF Quiet
  <2> QED
    BY <1>00, <2>1, <2>2, <2>3, <2>4, <2>5, ConnReads
<1>5. CASE LockHot(c)
  BY <1>0, <1>00, <1>01, <1>5 DEF LockHot, At, Goto, MayExclude, UnlockAll, Freed, Conn, Quiet, Holds, Outside, Owns, Owner, LivePages, LiveAt, LiveCounter, Ended, Finished, Agrees, Writing, Types, TypesOfControl, TypesOfMemory, TypesOfNumbers, Locks, Control, control, memory, numbers
<1>6. CASE OpenHotJournal(c)
  <2>1. eState[c] = "open" /\ eState'[c] = "open" /\ Outside(c) /\ pc[c] \notin {"play", "idle"}
    BY <1>0, <1>02, <1>6 DEF OpenHotJournal, At, Conn, Control
  <2>2. /\ UNCHANGED memory /\ UNCHANGED play
        /\ pc'[c] \notin {"play", "end"} /\ (pc'[c] = "validate" => Kept(journal) = {})
    <3>1. ~journal.exists => Kept(journal) = {}
      BY <1>0, KeptRecords DEF Files
    <3> QED
      BY <1>02, <1>6, <3>1 DEF OpenHotJournal, At, Goto
  <2>3. Outside(c)'
    BY <1>01, <2>1, <2>2, OutsideSame DEF memory
  <2>4. play'[c] = FirstRecord
    BY <1>03, <2>1, <2>2
  <2>5. Quiet(c)' => pc'[c] = "validate"
    BY <2>1 DEF Quiet
  <2> QED
    BY <1>00, <2>1, <2>2, <2>3, <2>4, <2>5, ConnReads
<1>7. CASE Validate(c)
  <2>1. /\ eState[c] = "open" /\ pc[c] = "validate" /\ Outside(c)
        /\ eState'[c] = "reader" /\ pc'[c] = "page1" /\ Kept(journal) = {}
    BY <1>0, <1>02, <1>7 DEF Validate, At, Enter, Goto, Conn, Control, Quiet
  <2>2. Database = db /\ counterOf[db[1]] = Counter
    BY <1>0, <2>1, NothingKept DEF Counter
  <2>3. /\ UNCHANGED <<dirty, dbFileVers, counted, play>>
        /\ cache'[c] = IF cache[c] # Uncached /\ dbFileVers[c] # Counter THEN Uncached ELSE cache[c]
    BY <1>0, <1>7, <2>2 DEF Validate, Reset, memory, Types, TypesOfMemory
  <2>4. cache'[c] # Uncached => dbFileVers[c] = Counter /\ cache'[c] = cache[c]
    BY <2>3
  <2>5. \A p \in Pages : cache'[c][p] \in {NotCached, Database[p]}
    BY <2>1, <2>4, UncachedIs DEF Outside, Agrees
  <2>6. Outside(c)'
    BY <1>01, <2>1, <2>3, <2>4, <2>5 DEF Outside, Agrees
  <2> QED
    BY <1>00, <1>03, <2>1, <2>3, <2>6, ConnReads
<1>8. CASE GetPage1(c)
  <2>1. /\ eState[c] = "reader" /\ pc[c] = "page1" /\ Outside(c) /\ Kept(journal) = {}
        /\ eState'[c] = "reader" /\ pc'[c] = "idle"
        /\ Fetch(c, 1) /\ UNCHANGED play
    BY <1>0, <1>02, <1>8 DEF GetPage1, At, Goto, Conn, Control, Quiet
  <2>2. Outside(c)'
    <3>1. Database = db /\ counterOf[db[1]] = Counter
      BY <1>0, <2>1, NothingKept DEF Counter
    <3>2. CASE cache[c][1] = NotCached
      <4>1. cache[c] = Uncached
        BY <2>1, <3>2 DEF Outside
      <4>2. /\ cache'[c] = [Uncached EXCEPT ![1] = Database[1]] /\ dbFileVers'[c] = Counter
            /\ UNCHANGED <<dirty, counted>>
        BY <1>0, <2>1, <3>1, <3>2, <4>1 DEF Fetch, Types, TypesOfMemory
      <4>3. /\ cache'[c][1] = Database[1] /\ Database[1] # NotCached
            /\ \A p \in Pages : cache'[c][p] \in {NotCached, Database[p]}
        BY <1>0, <4>2, UncachedIs, ContentsAre DEF Files
      <4>4. cache'[c] # Uncached
        BY <4>3, UncachedIs, ContentsAre
      <4>5. Counter \in Int
        BY <1>0, ContentsAre DEF Files, Counter, Types, TypesOfNumbers
      <4> QED
        BY <1>01, <2>1, <4>2, <4>3, <4>4, <4>5 DEF Outside, Agrees
    <3>3. CASE cache[c][1] # NotCached
      <4>1. UNCHANGED <<dirty, counted>> /\ cache'[c] = cache[c] /\ dbFileVers'[c] = dbFileVers[c]
        BY <1>0, <2>1, <3>3 DEF Fetch, Types, TypesOfMemory
      <4>2. cache[c] # Uncached
        BY <3>3, UncachedIs, ContentsAre
      <4> QED
        BY <1>01, <2>1, <4>1, <4>2 DEF Outside, Agrees
    <3> QED
      BY <3>2, <3>3
  <2> QED
    BY <1>00, <1>03, <2>1, <2>2, ConnReads
<1>9. CASE EndRead(c)
  BY <1>0, <1>00, <1>01, <1>9 DEF EndRead, In, Enter, UnlockAll, Freed, Conn, Quiet, Holds, Outside, Owns, Owner, LivePages, LiveAt, LiveCounter, Ended, Finished, Agrees, Writing, Types, TypesOfControl, TypesOfMemory, TypesOfNumbers, Locks, Control, control, memory, numbers
<1>10. CASE Begin(c)
  <2>1. /\ eState[c] = "reader" /\ pc[c] = "idle" /\ Outside(c) /\ Kept(journal) = {}
        /\ eState'[c] = "locked" /\ pc'[c] = "idle" /\ UNCHANGED <<play, memory>>
        /\ txns' = txns + 1 /\ txn'[c] = txns + 1
    BY <1>0, <1>02, <1>10 DEF Begin, In, Enter, Conn, Quiet, Types, TypesOfNumbers
  <2>2. Outside(c)'
    BY <1>01, <2>1 DEF memory, Outside, Agrees
  <2>3. Owns(c)'
    <3>1. Database[1] \in Int /\ txns \in Int /\ Database[1] <= txns
      BY <1>0, ContentsAre DEF Files, Types, TypesOfNumbers
    <3> QED
      BY <1>01, <2>1, <3>1 DEF Owns
  <2> QED
    BY <1>00, <1>03, <2>1, <2>2, <2>3 DEF Conn, Writing
<1>11. CASE EndUnwritten(c)
  BY <1>0, <1>00, <1>01, <1>11 DEF EndUnwritten, In, Enter, UnlockToShared, Freed, Conn, Quiet, Holds, Outside, Owns, Owner, LivePages, LiveAt, LiveCounter, Ended, Finished, Agrees, Writing, Types, TypesOfControl, TypesOfMemory, TypesOfNumbers, Locks, Control, control, memory, numbers
<1>12. CASE LockExclusive(c)
  BY <1>0, <1>00, <1>01, <1>12 DEF LockExclusive, At, Goto, Conn, Quiet, Holds, Outside, Owns, Owner, LivePages, LiveAt, LiveCounter, Ended, Finished, Agrees, Writing, Types, TypesOfControl, TypesOfMemory, TypesOfNumbers, Locks, Control, control, memory, numbers
<1>13. CASE GiveUp(c)
  BY <1>0, <1>00, <1>01, <1>13 DEF GiveUp, At, Goto, Conn, Quiet, Holds, Outside, Owns, Owner, LivePages, LiveAt, LiveCounter, Ended, Finished, Agrees, Writing, Types, TypesOfControl, TypesOfMemory, TypesOfNumbers, Locks, Control, control, memory, numbers
<1>14. CASE Rollback(c)
  <2>1. /\ eState[c] \in Writing /\ pc[c] = "idle" /\ pc'[c] = "play"
        /\ UNCHANGED <<eState, memory, play, txn, txns>>
    BY <1>02, <1>14 DEF Rollback, In, Goto, numbers
  <2>2. LivePages(c) /\ LiveCounter(c) /\ Owner(c) /\ Owns(c) /\ play[c] = FirstRecord
    BY <1>0, <2>1 DEF Conn, Holds, Writing
  <2>3. Undone(c)'
    <3>1. UNCHANGED <<eState, cache, dbFileVers, db, journal, play>>
      BY <1>00, <2>1 DEF memory
    <3> QED
      BY <1>0, <1>00, <1>01, <2>1, <2>2, <3>1, LiveUndone
  <2>4. (Owner(c) /\ Owns(c))'
    BY <1>00, <1>01, <2>1, <2>2 DEF Owner, Owns, memory, Writing
  <2>5. ~Quiet(c)' \/ Quiet(c)
    BY <2>1 DEF Quiet, Writing
  <2> QED
    BY <1>0, <1>00, <2>1, <2>3, <2>4, <2>5 DEF Conn, Writing
<1>15. CASE NextSegment(c)
  <2>1. /\ pc[c] = "play" /\ UNCHANGED <<eState, pc, memory, txn, txns>>
        /\ play'[c] = <<play[c][1] + 1, 1>>
    BY <1>0, <1>15 DEF NextSegment, At, control, numbers, Types, TypesOfControl
  <2>2. \A p \in Pages : (Ahead(c, p)' <=> Ahead(c, p)) /\ (AheadHot(c, p)' <=> AheadHot(c, p))
    BY <1>0, <1>00, <1>15, <2>1, SegmentPlayed DEF NextSegment, Files
  <2>3. Undone(c)'
    BY <1>0, <1>00, <1>01, <2>1, <2>2 DEF Undone, Agrees, memory, Conn
  <2>4. Outside(c) => Outside(c)'
    BY <1>01, <2>1 DEF Outside, Agrees, memory
  <2>5. /\ Owner(c) => Owner(c)'
        /\ Owns(c) => Owns(c)'
    BY <1>00, <1>01, <2>1 DEF Owner, Owns, memory
  <2>6. Quiet(c)' <=> Quiet(c)
    BY <2>1 DEF Quiet
  <2> QED
    BY <1>0, <1>00, <1>02, <2>1, <2>3, <2>4, <2>5, <2>6 DEF Conn, Writing, Holds, Control
<1>16. CASE Crash(c)
  <2>1. /\ eState'[c] = "open" /\ pc'[c] = "idle" /\ cache'[c] = Uncached /\ dirty'[c] = {}
        /\ dbFileVers'[c] = 0 /\ counted'[c] = FALSE /\ play'[c] = FirstRecord
    BY <1>0, <1>02, <1>16 DEF Crash, Enter, Goto, Types, TypesOfMemory, TypesOfControl
  <2>2. Counter >= 0
    BY <1>0, ContentsAre DEF Files, Counter, Types, TypesOfNumbers
  <2>3. Outside(c)'
    BY <1>01, <2>1, <2>2, UncachedIs DEF Outside, Agrees
  <2> QED
    BY <2>1, <2>3, ConnReads DEF Quiet
<1>17. ASSUME NEW p \in Pages, Acquire(c, p) PROVE Conn(c)'
  <2>1. /\ pc[c] = "idle" /\ eState[c] \in {"reader", "locked", "cachemod", "dbmod"}
        /\ UNCHANGED <<eState, pc, spilling, play, txn, txns, dirty, needSync, counted>>
        /\ cache[c][p] = NotCached /\ cache'[c] = [cache[c] EXCEPT ![p] = db[p]]
        /\ p # 1 => dbFileVers'[c] = dbFileVers[c]
    BY <1>0, <1>17 DEF Acquire, In, Fetch, control, numbers, Writing, Types, TypesOfMemory
  <2>2. cache[c][1] # NotCached
    BY <1>0, <2>1 DEF Conn, Outside, Owner, Writing
  <2>3. /\ p # 1 /\ dbFileVers'[c] = dbFileVers[c] /\ cache'[c][1] # NotCached
        /\ \A q \in Pages : cache'[c][q] = IF q = p THEN db[p] ELSE cache[c][q]
    BY <1>0, <2>1, <2>2, ContentsAre DEF Types, TypesOfMemory
  <2>4. CASE eState[c] \in {"reader", "locked"}
    <3>1. Outside(c) /\ Kept(journal) = {} /\ Database = db
      BY <1>0, <2>4, NothingKept DEF Conn, Quiet
    <3>2. Outside(c)'
      BY <1>01, <2>1, <2>2, <2>3, <2>4, <3>1, UncachedIs, ContentsAre DEF Outside, Agrees
    <3>3. Owns(c) => Owns(c)'
      BY <1>01, <2>1 DEF Owns
    <3> QED
      BY <1>0, <1>00, <1>03, <2>1, <2>4, <3>1, <3>2, <3>3 DEF Conn, Holds, Writing
  <2>5. CASE eState[c] \in Writing
    <3>1. Owner(c) /\ Owns(c) /\ LivePages(c) /\ LiveAt(c) /\ LiveCounter(c)
      BY <1>0, <2>1, <2>5 DEF Conn, Holds, Writing
    <3>2. (Owner(c) /\ Owns(c))'
      BY <1>00, <1>01, <2>1, <2>3, <3>1 DEF Owner, Owns
    <3>3. p \notin dirty[c]
      BY <1>0, <2>1, <3>1, ContentsAre DEF LivePages, Types, TypesOfNumbers
    <3>4. LivePages(c)'
      BY <1>00, <2>1, <2>3, <3>1, <3>3 DEF LivePages
    <3>5. LiveAt(c)' /\ LiveCounter(c)'
      BY <1>00, <1>01, <2>1, <2>3, <3>1 DEF LiveAt, LiveCounter
    <3>6. Quiet(c)' <=> Quiet(c)
      BY <2>1 DEF Quiet
    <3> QED
      BY <1>0, <1>00, <1>03, <2>1, <2>5, <3>2, <3>4, <3>5, <3>6 DEF Conn, Writing
  <2> QED
    BY <2>1, <2>4, <2>5 DEF Writing
<1>18. ASSUME NEW p \in Pages, Stress(c, p) PROVE Conn(c)'
  <2>1. /\ pc[c] = "idle" /\ eState[c] \in Writing /\ p \in dirty[c] \ {1} /\ spilling'[c] = p
        /\ pc'[c] = (IF p \in needSync[c] \/ eState[c] = "cachemod" THEN "exclusive" ELSE "spill")
        /\ UNCHANGED <<eState, memory, play, txn, txns>>
    BY <1>0, <1>02, <1>18 DEF Stress, In, Goto, numbers, Types, TypesOfControl
  <2>2. Owner(c) /\ Owns(c) /\ LivePages(c) /\ LiveAt(c) /\ LiveCounter(c)
    BY <1>0, <2>1 DEF Conn, Holds, Writing
  <2>3. (Owner(c) /\ Owns(c))'
    BY <1>00, <1>01, <2>1, <2>2 DEF Owner, Owns, memory, Writing
  <2>4. LivePages(c)'
    BY <1>00, <2>1, <2>2 DEF LivePages, memory
  <2>5. p # 0 /\ (p \notin needSync[c] => p \in PagesOf(Kept(journal)))
    BY <2>1, <2>2, PagerAssumption DEF LivePages, Pages
  <2>6. LiveAt(c)' /\ LiveCounter(c)'
    BY <1>00, <1>01, <2>1, <2>2, <2>5 DEF LiveAt, LiveCounter, memory
  <2>7. ~Quiet(c)' \/ Quiet(c)
    BY <2>1 DEF Quiet, Writing
  <2> QED
    BY <1>0, <1>00, <1>03, <2>1, <2>3, <2>4, <2>6, <2>7 DEF Conn, Writing
<1> QED
  BY <1>1, <1>2, <1>3, <1>4, <1>5, <1>6, <1>7, <1>8, <1>9, <1>10, <1>11, <1>12, <1>13, <1>14, <1>15, <1>16, <1>17, <1>18

-----------------------------------------------------------------------------
(* Steps that change the files and keep the database *)

\* The files keep their invariant and the database.
FilesStill == Files' /\ Deleted' /\ Database' = Database

\* The files are still the database when the journal keeps contents of it, and
\* the file and what a power loss leaves of it agree with it elsewhere.
LEMMA FilesNext ==
  ASSUME Files, Sound(journal'), Sound(journalDisk'), UNCHANGED txns,
         \A r \in Kept(journal') : r.old = Database[r.page],
         Kept(journalDisk') \subseteq Kept(journal'),
         \A p \in Pages : p \notin PagesOf(Kept(journalDisk')) =>
           db'[p] = Database[p] /\ dbDisk'[p] = {Database[p]},
         journal'.exists /\ LastMagic(journal') => SyncedRecords' >= Len(Last(journal'.segs).recs)
  PROVE  Database' = Database /\ Files'
<1>1. \A p \in Pages : p \notin PagesOf(Kept(journal')) => db'[p] = Database[p]
  BY DEF PagesOf
<1>2. Restored(db', journal') = Database
  BY <1>1, DatabaseIs DEF Files
<1>3. Database' = Database
  BY <1>2 DEF Database
<1> QED
  BY <1>3 DEF Files

\* No journal may come back, or those that may do are as they were.
LEMMA DeletedNext ==
  ASSUME Deleted, UNCHANGED txns,
         undeleted' = {} \/ (UNCHANGED <<db, undeleted>> /\ Kept(journal') = Kept(journal))
  PROVE  Deleted'
BY DEF Deleted

\* What may come back of deleted journals restores what it did.
LEMMA PastSame ==
  ASSUME Database' = Database,
         (undeleted = {} /\ undeleted' = {}) \/ UNCHANGED <<db, undeleted>>
  PROVE  Past' = Past
<1>1. CASE undeleted = {} /\ undeleted' = {}
  BY <1>1 DEF Past
<1>2. CASE UNCHANGED <<db, undeleted>>
  BY <1>2 DEF Past
<1> QED
  BY <1>1, <1>2

\* The number of synced records depends on the journals alone.
LEMMA SyncedSame ==
  ASSUME UNCHANGED <<journal, journalDisk>>
  PROVE  SyncedRecords' = SyncedRecords
BY DEF SyncedRecords

\* A page that the synced journal keeps is written to the database file.
LEMMA PageWritten ==
  ASSUME Types, Files, Deleted, NEW p \in PagesOf(Kept(journalDisk)), NEW x, WriteDb(p, x),
         UNCHANGED <<journal, journalDisk, undeleted, txns>>
  PROVE  FilesStill /\ Past' = Past /\ undeleted = {}
<1>1. Kept(journal) # {} /\ undeleted = {}
  BY DEF Files, Deleted, PagesOf
<1>2. Sound(journal) /\ Sound(journalDisk) /\ UNCHANGED txns /\ UNCHANGED <<journal, journalDisk>>
  BY DEF Files
<1>3. \A q \in Pages : q # p => db'[q] = db[q] /\ dbDisk'[q] = dbDisk[q]
  BY DEF WriteDb, Types, TypesOfFiles
<1>4. \A q \in Pages : q \notin PagesOf(Kept(journalDisk)) =>
         db'[q] = Database[q] /\ dbDisk'[q] = {Database[q]}
  BY <1>3 DEF Files
<1>5. \A r \in Kept(journal) : r.old = Database[r.page]
  BY <1>2, KeptIs
<1>6. Database' = Database /\ Files'
  BY <1>2, <1>4, <1>5, FilesNext, SyncedSame DEF Files
<1>7. Deleted'
  BY <1>1, DeletedNext
<1>8. Past' = Past
  BY <1>1, <1>6, PastSame
<1> QED
  BY <1>1, <1>6, <1>7, <1>8 DEF FilesStill

\* The database file is synced, or not.
LEMMA DbSynced ==
  ASSUME Types, Files, Deleted, SyncDb \/ UNCHANGED dbDisk,
         UNCHANGED <<db, journal, journalDisk, undeleted, txns>>
  PROVE  FilesStill /\ Past' = Past
<1>1. Sound(journal) /\ Sound(journalDisk) /\ UNCHANGED txns /\ UNCHANGED <<journal, journalDisk>>
  BY DEF Files
<1>2. \A q \in Pages : q \notin PagesOf(Kept(journalDisk)) =>
         db'[q] = Database[q] /\ dbDisk'[q] = {Database[q]}
  BY DEF Files, SyncDb
<1>3. \A r \in Kept(journal) : r.old = Database[r.page]
  BY <1>1, KeptIs
<1>4. Database' = Database /\ Files'
  BY <1>1, <1>2, <1>3, FilesNext, SyncedSame DEF Files
<1>5. Deleted'
  BY DeletedNext
<1>6. Past' = Past
  BY <1>4, PastSame
<1> QED
  BY <1>4, <1>5, <1>6 DEF FilesStill

\* The journal changes behind what it keeps.
LEMMA JournalGrown ==
  ASSUME Types, Files, Deleted, Sound(journal'), Kept(journal') = Kept(journal),
         ~LastMagic(journal'), UNCHANGED <<db, dbDisk, journalDisk, undeleted, txns>>
  PROVE  FilesStill /\ Past' = Past
<1>1. /\ Sound(journal) /\ Sound(journalDisk') /\ UNCHANGED txns
      /\ Kept(journalDisk') \subseteq Kept(journal')
  BY DEF Files
<1>2. \A q \in Pages : q \notin PagesOf(Kept(journalDisk')) =>
         db'[q] = Database[q] /\ dbDisk'[q] = {Database[q]}
  BY DEF Files
<1>3. \A r \in Kept(journal') : r.old = Database[r.page]
  BY <1>1, KeptIs
<1>4. Database' = Database /\ Files'
  BY <1>1, <1>2, <1>3, FilesNext
<1>5. Deleted'
  BY DeletedNext
<1>6. Past' = Past
  BY <1>4, PastSame
<1> QED
  BY <1>4, <1>5, <1>6 DEF FilesStill

\* The journal is synced, and perhaps a new segment begun.
LEMMA JournalSynced ==
  ASSUME Types, Files, Deleted, journalDisk' = journal, Sound(journal'),
         Kept(journal') = Kept(journal), journal' = journal \/ ~LastMagic(journal'),
         UNCHANGED <<db, dbDisk, txns>>, undeleted' \in {undeleted, {}}
  PROVE  FilesStill /\ (undeleted' = undeleted => Past' = Past)
<1>1. /\ Sound(journal) /\ Sound(journalDisk') /\ UNCHANGED txns
      /\ Kept(journalDisk') \subseteq Kept(journal')
  BY DEF Files
<1>2. \A q \in Pages : q \notin PagesOf(Kept(journalDisk')) =>
         db'[q] = Database[q] /\ dbDisk'[q] = {Database[q]}
  BY DEF Files, PagesOf
<1>3. \A r \in Kept(journal') : r.old = Database[r.page]
  BY <1>1, KeptIs
<1>4. journal'.exists /\ LastMagic(journal') => SyncedRecords' >= Len(Last(journal'.segs).recs)
  <2>1. SUFFICES ASSUME journal' = journal, journal.exists
                 PROVE  SyncedRecords' >= Len(Last(journal'.segs).recs)
    OBVIOUS
  <2>2. Len(journal.segs) \in Nat /\ Len(journal.segs) \in 1 .. Len(journal.segs)
    BY <1>1, <2>1, JournalTypes DEF Sound
  <2>3. Len(Last(journal.segs).recs) \in Nat
    BY <1>1, <2>2, JournalTypes DEF Last, Sound
  <2>4. SyncedRecords' = Len(Last(journal.segs).recs)
    BY <2>1, <2>2 DEF SyncedRecords
  <2> QED
    BY <2>1, <2>3, <2>4
<1>5. Database' = Database /\ Files'
  BY <1>1, <1>2, <1>3, <1>4, FilesNext
<1>6. Deleted'
  <2>1. CASE undeleted' = {}
    BY <2>1, DeletedNext
  <2>2. CASE undeleted' = undeleted
    BY <2>2, DeletedNext
  <2> QED
    BY <2>1, <2>2
<1>7. undeleted' = undeleted => Past' = Past
  BY <1>5, PastSame
<1> QED
  BY <1>5, <1>6, <1>7 DEF FilesStill

-----------------------------------------------------------------------------
(* A transaction writes *)

\* A step of a connection that keeps the others from writing.
Changes(c) ==
  /\ FilesStill /\ Counter' = Counter
  /\ reserved = c \/ exclusive = c
  /\ Kept(journal') \in {Kept(journal), {}} \/ exclusive = c
  /\ Conn(c)'

\* The others do not notice it.
LEMMA OthersKept ==
  ASSUME PagerInv, NEW c \in Connections, Step(c) \/ Call(c) \/ Crash(c), Changes(c)
  PROVE  \A d \in Connections : Conn(d)'
<1> SUFFICES ASSUME NEW d \in Connections, d # c PROVE Conn(d)'
  BY DEF Changes
<1>1. Types /\ Locks /\ Conn(d)
  BY DEF PagerInv
<1>2. SameOwn(d)
  BY <1>1, OwnStep
<1>3. /\ eState[d] \in {"open", "reader"} /\ pc[d] \notin {"play", "end"}
      /\ exclusive = c => ~Quiet(d)
  BY <1>1, Apart DEF Changes
<1>4. Quiet(d) => Kept(journal') = {}
  BY <1>1, <1>3 DEF Changes, Conn
<1>5. Database' = Database /\ Counter' = Counter
  BY DEF Changes, FilesStill
<1> QED
  BY <1>1, <1>2, <1>3, <1>4, <1>5, ConnOutside

\* What is known of a connection that writes.
LEMMA WriterIs ==
  ASSUME PagerInv, NEW c \in Connections, eState[c] \in Writing
  PROVE  /\ Types /\ Locks /\ Files /\ Deleted /\ Sound(journal) /\ reserved = c
         /\ Owns(c) /\ Owner(c)
         /\ pc[c] \notin {"play", "end"} => LivePages(c) /\ LiveAt(c) /\ LiveCounter(c)
         /\ pc[c] # "play" => play[c] = FirstRecord
         /\ txn[c] \in Written /\ Database[1] \in Written /\ txn[c] # Database[1]
<1>1. Types /\ Locks /\ Files /\ Deleted /\ Conn(c) /\ Sound(journal) /\ reserved = c /\ Holds(c)
  BY DEF PagerInv, Files, Locks, Holds, Writing
<1>2. txn[c] \in Written /\ Database[1] \in Written
  BY <1>1, ContentsAre DEF Types, TypesOfNumbers, Files
<1>3. Owns(c) /\ Database[1] < txn[c] /\ Database[1] \in Int
  BY <1>1, <1>2, ContentsAre DEF Conn, Owns
<1> QED
  BY <1>1, <1>2, <1>3 DEF Conn

\* pager_write: the page has its old content in the journal before it changes.
LEMMA MadeWritable ==
  ASSUME PagerInv, NEW c \in Connections, NEW p \in Pages, pc[c] = "idle",
         eState[c] \in {"locked"} \cup Writing, cache[c][p] # NotCached,
         MakeWritable(c, p), UNCHANGED <<txn, txns>>
  PROVE  /\ FilesStill /\ Past' = Past /\ Kept(journal') = Kept(journal)
         /\ journal'.exists /\ ~LastMagic(journal') /\ UNCHANGED <<db, journalDisk, undeleted>>
         /\ \A r \in Recorded(journal') : r.old = Database[r.page]
         /\ p \in PagesOf(Recorded(journal'))
         /\ eState[c] \in Writing => PagesOf(Recorded(journal)) \subseteq PagesOf(Recorded(journal'))
         /\ LivePages(c)' /\ dirty'[c] = dirty[c] \cup {p} /\ cache'[c][1] # NotCached
<1> DEFINE j == IF eState[c] = "locked" THEN [exists |-> TRUE, segs |-> <<NewSegment>>] ELSE journal
           there == eState[c] # "locked" /\ InJournal(p)
           old == cache[c][p]
<1>1. Types /\ Locks /\ Files /\ Deleted /\ Sound(journal) /\ Conn(c) /\ UNCHANGED <<db, dbDisk, journalDisk, undeleted>>
  BY DEF PagerInv, Files, MakeWritable
<1>2. /\ Sound(j) /\ j.exists /\ ~LastMagic(j) /\ Kept(j) = Kept(journal)
      /\ \A r \in Recorded(j) : r.old = Database[r.page]
      /\ dirty[c] \subseteq PagesOf(Recorded(j))
      /\ PagesOf(Recorded(j)) \subseteq PagesOf(Kept(journal)) \cup needSync[c]
      /\ \A q \in Pages : /\ db[q] \in Written
                          /\ q \in dirty[c] => cache[c][q] = txn[c]
                          /\ q \notin dirty[c] => cache[c][q] \in {NotCached, db[q]}
      /\ cache[c][1] # NotCached
      /\ eState[c] \in Writing => j = journal
  <2>1. CASE eState[c] = "locked"
    <3>1. Outside(c) /\ Kept(journal) = {} /\ dirty[c] = {} /\ cache[c] # Uncached
      BY <1>1, <2>1 DEF Conn, Quiet, Outside
    <3>2. Sound(j) /\ j.exists /\ ~LastMagic(j) /\ Kept(j) = {} /\ Recorded(j) = {}
      BY <2>1, OpenedIs
    <3>3. Database = db /\ PagesOf(Recorded(j)) = {}
      BY <1>1, <3>1, <3>2, NothingKept DEF PagesOf
    <3>4. \A q \in Pages : db[q] \in Written /\ cache[c][q] \in {NotCached, db[q]}
      BY <1>1, <2>1, <3>1, <3>3 DEF Files, Outside, Agrees
    <3>5. cache[c][1] # NotCached
      BY <3>1 DEF Outside
    <3> QED
      BY <2>1, <3>1, <3>2, <3>3, <3>4, <3>5 DEF Writing
  <2>2. CASE eState[c] \in Writing
    <3>1. j = journal
      BY <2>2 DEF Writing
    <3>2. Owner(c) /\ LivePages(c) /\ LiveAt(c)
      BY <2>2, WriterIs
    <3>3. journal.exists /\ ~LastMagic(journal)
      BY <3>2 DEF Owner, LiveAt
    <3> QED
      BY <1>1, <3>1, <3>2, <3>3 DEF Owner, LivePages
  <2> QED
    BY <2>1, <2>2
<1>3. /\ journal' = IF there THEN j ELSE Journalled(j, p, old)
      /\ needSync' = [needSync EXCEPT ![c] = IF there THEN @ ELSE @ \cup {p}]
      /\ dirty' = [dirty EXCEPT ![c] = @ \cup {p}]
      /\ cache' = [cache EXCEPT ![c][p] = txn[c]]
  BY DEF MakeWritable
<1> HIDE DEF j
<1>4. /\ Sound(journal') /\ journal'.exists /\ ~LastMagic(journal') /\ Kept(journal') = Kept(journal)
      /\ \A r \in Recorded(journal') : r.old = Database[r.page]
      /\ PagesOf(Recorded(journal')) = PagesOf(Recorded(j)) \cup {p}
      /\ PagesOf(Recorded(journal')) \subseteq PagesOf(Kept(journal)) \cup needSync'[c]
  <2>1. CASE there
    <3>1. j = journal /\ journal' = j /\ needSync' = needSync
      BY <1>1, <1>3, <2>1 DEF j, Types, TypesOfMemory
    <3>2. p \in PagesOf(Recorded(j))
      BY <1>1, <2>1, <3>1, InJournalIs
    <3> QED
      BY <1>2, <3>1, <3>2
  <2>2. CASE ~there
    <3>1. p \notin PagesOf(Recorded(j))
      <4>1. CASE eState[c] = "locked"
        BY <4>1, OpenedIs DEF j, PagesOf
      <4>2. CASE eState[c] # "locked"
        BY <1>1, <2>2, <4>2, InJournalIs DEF j
      <4> QED
        BY <4>1, <4>2
    <3>2. p \notin PagesOf(Kept(journal)) /\ p \notin dirty[c]
      BY <1>2, <3>1, KeptRecords DEF PagesOf
    <3>3. old = db[p] /\ db[p] = Database[p] /\ old \in Contents
      BY <1>1, <1>2, <3>2, KeptIs, ContentsAre
    <3>4. journal' = Journalled(j, p, old)
      BY <1>3, <2>2
    <3> DEFINE r == [page |-> p, old |-> old]
    <3>5. /\ Sound(journal') /\ journal'.exists /\ ~LastMagic(journal') /\ Kept(journal') = Kept(j)
          /\ Recorded(journal') = Recorded(j) \cup {r}
      BY <1>2, <3>3, <3>4, JournalledIs
    <3>6. r.page = p /\ r.old = Database[r.page]
      BY <3>3
    <3>7. PagesOf(Recorded(journal')) = PagesOf(Recorded(j)) \cup {p}
      BY <3>5, <3>6 DEF PagesOf
    <3>8. needSync'[c] = needSync[c] \cup {p}
      BY <1>1, <1>3, <2>2 DEF Types, TypesOfMemory
    <3> QED
      BY <1>2, <3>5, <3>6, <3>7, <3>8
  <2> QED
    BY <2>1, <2>2
<1>5. FilesStill /\ Past' = Past
  BY <1>1, <1>4, JournalGrown
<1>6. /\ dirty'[c] = dirty[c] \cup {p}
      /\ \A q \in Pages : cache'[c][q] = IF q = p THEN txn[c] ELSE cache[c][q]
  BY <1>1, <1>3 DEF Types, TypesOfMemory
<1>7. LivePages(c)'
  BY <1>1, <1>2, <1>4, <1>6 DEF LivePages
<1>8. cache'[c][1] # NotCached
  BY <1>1, <1>2, <1>6, ContentsAre DEF Types, TypesOfNumbers
<1> QED
  BY <1>1, <1>2, <1>4, <1>5, <1>6, <1>7, <1>8

\* pager_write in a transaction.
LEMMA WriteStep ==
  ASSUME PagerInv, NEW c \in Connections, NEW p \in Pages, Write(c, p)
  PROVE  Changes(c) /\ Past' = Past
<1>1. /\ pc[c] = "idle" /\ eState[c] \in {"locked"} \cup Writing /\ cache[c][p] # NotCached
      /\ p \notin dirty[c] /\ MakeWritable(c, p)
      /\ UNCHANGED <<pc, spilling, dbFileVers, counted, play, txn, txns, counterOf>>
  BY DEF Write, In, numbers
<1>2. eState'[c] = IF eState[c] = "locked" THEN "cachemod" ELSE eState[c]
  BY DEF Write, Enter, PagerInv, Types, TypesOfControl
<1>3. /\ FilesStill /\ Past' = Past /\ Kept(journal') = Kept(journal)
      /\ journal'.exists /\ ~LastMagic(journal') /\ UNCHANGED <<db, journalDisk, undeleted>>
      /\ \A r \in Recorded(journal') : r.old = Database[r.page]
      /\ p \in PagesOf(Recorded(journal'))
      /\ eState[c] \in Writing => PagesOf(Recorded(journal)) \subseteq PagesOf(Recorded(journal'))
      /\ LivePages(c)' /\ dirty'[c] = dirty[c] \cup {p} /\ cache'[c][1] # NotCached
  BY <1>1, MadeWritable
<1>4. Database' = Database /\ Counter' = Counter
  BY <1>1, <1>3 DEF FilesStill, Counter
<1>5. Conn(c) /\ Holds(c) /\ reserved = c /\ Owns(c) /\ play[c] = FirstRecord
  BY <1>1 DEF PagerInv, Holds, Locks, Conn, Writing
<1>6. Owns(c)'
  BY <1>1, <1>4, <1>5 DEF Owns
<1>7. Owner(c)'
  BY <1>1, <1>2, <1>3, <1>4, <1>5 DEF Owner, Conn, Writing
<1>8. LiveAt(c)'
  BY <1>1, <1>3 DEF LiveAt
<1>9. LiveCounter(c)'
  <2>1. CASE eState[c] = "locked"
    <3>1. Outside(c) /\ cache[c] # Uncached
      BY <1>1, <1>5, <2>1 DEF Conn, Outside
    <3> QED
      BY <1>1, <1>4, <2>1, <3>1 DEF Outside, LiveCounter
  <2>2. CASE eState[c] \in Writing
    <3>1. LiveCounter(c)
      BY <1>1, <2>2, WriterIs
    <3> QED
      BY <1>1, <1>3, <1>4, <2>2, <3>1 DEF LiveCounter
  <2> QED
    BY <1>1, <2>1, <2>2
<1>10. Quiet(c)' => Quiet(c)
  BY <1>1, <1>2 DEF Quiet, Writing
<1>11. Conn(c)'
  BY <1>1, <1>2, <1>3, <1>5, <1>6, <1>7, <1>8, <1>9, <1>10 DEF Conn, Writing
<1> QED
  BY <1>3, <1>4, <1>5, <1>11 DEF Changes

\* A commit makes page 1 part of the transaction.
LEMMA CommitPhaseOneStep ==
  ASSUME PagerInv, NEW c \in Connections, CommitPhaseOne(c)
  PROVE  Changes(c) /\ Past' = Past
<1>1. /\ pc[c] = "idle" /\ eState[c] \in Writing /\ pc'[c] = "exclusive"
      /\ counted'[c] = TRUE /\ spilling'[c] = 0
      /\ UNCHANGED <<eState, dbFileVers, play, txn, txns, counterOf>>
  BY DEF CommitPhaseOne, In, Goto, numbers, PagerInv, Types, TypesOfControl, TypesOfMemory
<1>2. /\ Types /\ Locks /\ Files /\ Deleted /\ Sound(journal) /\ reserved = c /\ Conn(c) /\ 1 \in Pages
      /\ Owns(c) /\ Owner(c) /\ LivePages(c) /\ LiveAt(c) /\ LiveCounter(c) /\ play[c] = FirstRecord
  BY <1>1, WriterIs, ContentsAre DEF PagerInv
<1>3. /\ FilesStill /\ Past' = Past /\ Kept(journal') = Kept(journal)
      /\ journal'.exists /\ ~LastMagic(journal') /\ UNCHANGED <<db, journalDisk, undeleted>>
      /\ \A r \in Recorded(journal') : r.old = Database[r.page]
      /\ 1 \in PagesOf(Recorded(journal')) /\ 1 \in dirty'[c]
      /\ LivePages(c)' /\ cache'[c][1] # NotCached
  <2>1. CASE counted[c]
    <3>1. UNCHANGED <<db, dbDisk, journal, journalDisk, undeleted, cache, dirty, needSync>>
      BY <2>1 DEF CommitPhaseOne, files
    <3>2. FilesStill /\ Past' = Past
      BY <1>1, <1>2, <3>1, DbSynced
    <3>3. LivePages(c)'
      BY <1>1, <1>2, <3>1 DEF LivePages
    <3> QED
      BY <1>1, <1>2, <2>1, <3>1, <3>2, <3>3 DEF LiveAt, LiveCounter, Owner
  <2>2. CASE ~counted[c]
    <3>1. MakeWritable(c, 1) /\ cache[c][1] # NotCached
      BY <1>2, <2>2 DEF CommitPhaseOne, Owner
    <3> QED
      BY <1>1, <1>2, <3>1, MadeWritable
  <2> QED
    BY <2>1, <2>2
<1>4. Database' = Database /\ Counter' = Counter
  BY <1>1, <1>3 DEF FilesStill, Counter
<1>5. Owns(c)'
  BY <1>1, <1>2, <1>4 DEF Owns
<1>6. Owner(c)'
  BY <1>1, <1>2, <1>3, <1>4 DEF Owner
<1>7. LiveAt(c)'
  BY <1>1, <1>3 DEF LiveAt
<1>8. LiveCounter(c)'
  BY <1>1, <1>2, <1>3, <1>4 DEF LiveCounter
<1>9. Quiet(c)' => Quiet(c)
  BY <1>1 DEF Quiet
<1>10. Conn(c)'
  BY <1>1, <1>2, <1>3, <1>5, <1>6, <1>7, <1>8, <1>9 DEF Conn, Writing
<1> QED
  BY <1>2, <1>3, <1>4, <1>10 DEF Changes

\* The records are synced, and with them the directory entry.
LEMMA SyncRecordsStep ==
  ASSUME PagerInv, NEW c \in Connections, SyncRecords(c)
  PROVE  Changes(c) /\ undeleted' = {} /\ UNCHANGED <<db, txns>>
<1>1. /\ pc[c] = "syncRecords" /\ pc'[c] = "header" /\ journalDisk' = journal /\ undeleted' = {}
      /\ UNCHANGED <<db, dbDisk, journal, eState, spilling, cache, dirty, needSync, dbFileVers,
                     counted, play, txn, txns, counterOf>>
  BY DEF SyncRecords, At, Goto, memory, numbers, PagerInv, Types, TypesOfControl
<1>2. eState[c] \in Writing
  BY <1>1 DEF PagerInv, Locks, Control, Writing
<1>3. /\ Types /\ Locks /\ Files /\ Deleted /\ Sound(journal) /\ reserved = c /\ Conn(c)
      /\ Owns(c) /\ Owner(c) /\ LivePages(c) /\ LiveAt(c) /\ LiveCounter(c) /\ play[c] = FirstRecord
  BY <1>1, <1>2, WriterIs DEF PagerInv
<1>4. FilesStill
  BY <1>1, <1>3, JournalSynced
<1>5. Database' = Database /\ Counter' = Counter
  BY <1>1, <1>4 DEF FilesStill, Counter
<1>6. Owns(c)' /\ Owner(c)'
  BY <1>1, <1>3, <1>5 DEF Owns, Owner
<1>7. LivePages(c)' /\ LiveAt(c)'
  BY <1>1, <1>3 DEF LivePages, LiveAt
<1>8. LiveCounter(c)'
  BY <1>1, <1>3, <1>5 DEF LiveCounter
<1>9. Quiet(c)' => Quiet(c)
  BY <1>1 DEF Quiet
<1>10. Conn(c)'
  BY <1>1, <1>2, <1>3, <1>6, <1>7, <1>8, <1>9 DEF Conn, Writing
<1> QED
  BY <1>1, <1>3, <1>4, <1>5, <1>10 DEF Changes

\* The header makes the journal hot: it keeps all its records from now on.
LEMMA WriteHeaderStep ==
  ASSUME PagerInv, NEW c \in Connections, WriteHeader(c)
  PROVE  Changes(c) /\ Past' = Past
<1>1. /\ pc[c] = "header" /\ pc'[c] = "syncHeader"
      /\ journal' = [journal EXCEPT !.segs[Len(journal.segs)].magic = TRUE,
                                    !.segs[Len(journal.segs)].nRec = Len(journal.segs[Len(journal.segs)].recs)]
      /\ UNCHANGED <<db, dbDisk, journalDisk, undeleted, eState, spilling, cache, dirty, needSync,
                     dbFileVers, counted, play, txn, txns, counterOf>>
  BY DEF WriteHeader, At, Goto, memory, numbers, PagerInv, Types, TypesOfControl
<1>2. eState[c] \in Writing /\ exclusive = c
  BY <1>1 DEF PagerInv, Locks, Control, Excludes, Writing
<1>3. /\ Types /\ Locks /\ Files /\ Deleted /\ Sound(journal) /\ reserved = c /\ Conn(c)
      /\ Owns(c) /\ Owner(c) /\ LivePages(c) /\ LiveAt(c) /\ LiveCounter(c) /\ play[c] = FirstRecord
  BY <1>1, <1>2, WriterIs DEF PagerInv
<1>4. journal.exists /\ ~LastMagic(journal) /\ journalDisk = journal /\ undeleted = {}
  BY <1>1, <1>3 DEF Owner, LiveAt
<1>5. \A r \in Recorded(journal) : r.page \in Pages /\ r.old = Database[r.page] /\ r.old \in Written
  BY <1>3, LoggedPages DEF Owner, Files
<1>6. \A r, s \in Recorded(journal) : r.page = s.page => r = s
  BY <1>5, LoggedPages
<1>7. /\ Sound(journal') /\ journal'.exists /\ LastMagic(journal')
      /\ Kept(journal') = Recorded(journal) /\ Recorded(journal') = Recorded(journal)
      /\ Len(journal'.segs) = Len(journal.segs) /\ Last(journal'.segs).recs = Last(journal.segs).recs
  BY <1>1, <1>3, <1>4, <1>5, <1>6, HeaderIs
<1>8. Database' = Database /\ Files'
  <2>1. \A q \in Pages : q \notin PagesOf(Kept(journalDisk')) =>
           db'[q] = Database[q] /\ dbDisk'[q] = {Database[q]}
    BY <1>1, <1>3 DEF Files
  <2>2. Kept(journalDisk') \subseteq Kept(journal') /\ Sound(journalDisk')
    BY <1>1, <1>3, <1>4, <1>7, KeptRecords
  <2>3. SyncedRecords' >= Len(Last(journal'.segs).recs)
    <3>1. Len(journal.segs) \in Nat /\ Len(journal.segs) \in 1 .. Len(journal.segs)
      BY <1>3, <1>4, JournalTypes DEF Sound
    <3>2. Len(Last(journal.segs).recs) \in Nat
      BY <1>3, <3>1, JournalTypes DEF Last, Sound
    <3>3. SyncedRecords' = Len(Last(journal.segs).recs)
      BY <1>1, <1>4, <1>7, <3>1 DEF SyncedRecords
    <3> QED
      BY <1>7, <3>2, <3>3
  <2> QED
    BY <1>1, <1>3, <1>5, <1>7, <2>1, <2>2, <2>3, FilesNext
<1>9. Deleted' /\ Past' = Past
  BY <1>1, <1>3, <1>4, <1>8, DeletedNext, PastSame
<1>10. Counter' = Counter
  BY <1>1, <1>8 DEF Counter
<1>11. Owns(c)' /\ Owner(c)'
  BY <1>1, <1>3, <1>4, <1>7, <1>8 DEF Owns, Owner
<1>12. LivePages(c)' /\ LiveAt(c)'
  BY <1>1, <1>3, <1>7 DEF LivePages, LiveAt
<1>13. LiveCounter(c)'
  BY <1>1, <1>3, <1>7, <1>8, <1>10 DEF LiveCounter
<1>14. ~Quiet(c)'
  BY <1>1, <1>2 DEF Quiet, Writing
<1>15. Conn(c)'
  BY <1>1, <1>2, <1>3, <1>11, <1>12, <1>13, <1>14 DEF Conn, Writing
<1> QED
  BY <1>2, <1>8, <1>9, <1>10, <1>15 DEF Changes, FilesStill

\* The header is synced: the database file may be written.
LEMMA SyncHeaderStep ==
  ASSUME PagerInv, NEW c \in Connections, SyncHeader(c)
  PROVE  Changes(c) /\ Past' = Past
<1>1. /\ pc[c] = "syncHeader" /\ pc'[c] = (IF spilling[c] = 0 THEN "write" ELSE "spill")
      /\ journalDisk' = journal /\ needSync'[c] = {} /\ eState'[c] = "dbmod"
      /\ journal' = IF spilling[c] = 0 THEN journal ELSE [journal EXCEPT !.segs = Append(@, NewSegment)]
      /\ UNCHANGED <<db, dbDisk, undeleted, spilling, cache, dirty,
                     dbFileVers, counted, play, txn, txns, counterOf>>
  BY DEF SyncHeader, At, Goto, Enter, numbers, PagerInv, Types, TypesOfControl, TypesOfMemory
<1>2. eState[c] \in Writing /\ exclusive = c
  BY <1>1 DEF PagerInv, Locks, Control, Excludes, Writing
<1>3. /\ Types /\ Locks /\ Files /\ Deleted /\ Sound(journal) /\ reserved = c /\ Conn(c)
      /\ Owns(c) /\ Owner(c) /\ LivePages(c) /\ LiveAt(c) /\ LiveCounter(c) /\ play[c] = FirstRecord
  BY <1>1, <1>2, WriterIs DEF PagerInv
<1>4. journal.exists /\ LastMagic(journal) /\ undeleted = {} /\ Kept(journal) = Recorded(journal)
  BY <1>1, <1>3, KeptRecords DEF Owner, LiveAt
<1>5. /\ Sound(journal') /\ journal'.exists /\ Kept(journal') = Kept(journal) /\ Recorded(journal') = Recorded(journal)
      /\ IF spilling[c] = 0 THEN journal' = journal ELSE ~LastMagic(journal')
  <2>1. CASE spilling[c] = 0
    BY <1>1, <1>3, <1>4, <2>1
  <2>2. CASE spilling[c] # 0
    BY <1>1, <1>3, <1>4, <2>2, SegmentAdded
  <2> QED
    BY <2>1, <2>2
<1>6. FilesStill /\ Past' = Past
  BY <1>1, <1>3, <1>5, JournalSynced
<1>7. Database' = Database /\ Counter' = Counter
  BY <1>1, <1>6 DEF FilesStill, Counter
<1>8. Owns(c)' /\ Owner(c)'
  BY <1>1, <1>3, <1>4, <1>5, <1>7 DEF Owns, Owner
<1>9. LivePages(c)'
  BY <1>1, <1>3, <1>4, <1>5 DEF LivePages
<1>10. LiveAt(c)'
  BY <1>1, <1>3, <1>4, <1>5 DEF LiveAt, LivePages
<1>11. LiveCounter(c)'
  BY <1>1, <1>3, <1>5, <1>7 DEF LiveCounter, LiveAt
<1>12. ~Quiet(c)'
  BY <1>1 DEF Quiet
<1>13. Conn(c)'
  BY <1>1, <1>3, <1>8, <1>9, <1>10, <1>11, <1>12 DEF Conn, Writing
<1> QED
  BY <1>3, <1>5, <1>6, <1>7, <1>13 DEF Changes

\* The page of pagerStress goes to the database file and leaves the cache.
LEMMA SpillStep ==
  ASSUME PagerInv, NEW c \in Connections, Spill(c)
  PROVE  Changes(c) /\ Past' = Past
<1> DEFINE p == spilling[c]
           x == cache[c][p]
<1>1. /\ pc[c] = "spill" /\ pc'[c] = "idle" /\ WriteDb(p, x)
      /\ dirty'[c] = dirty[c] \ {p} /\ spilling'[c] = 0
      /\ cache' = [cache EXCEPT ![c][p] = NotCached]
      /\ UNCHANGED <<journal, journalDisk, undeleted, eState, needSync,
                     dbFileVers, counted, play, txn, txns, counterOf>>
  BY DEF Spill, At, Goto, numbers, PagerInv, Types, TypesOfControl, TypesOfMemory
<1>2. eState[c] = "dbmod" /\ eState[c] \in Writing
  BY <1>1 DEF PagerInv, Locks, Control, Writing
<1>3. /\ Types /\ Locks /\ Files /\ Deleted /\ Sound(journal) /\ reserved = c /\ Conn(c)
      /\ Owns(c) /\ Owner(c) /\ LivePages(c) /\ LiveAt(c) /\ LiveCounter(c) /\ play[c] = FirstRecord
      /\ txn[c] \in Written
  BY <1>1, <1>2, WriterIs DEF PagerInv
<1>4. p \in dirty[c] /\ p # 1 /\ p \in Pages /\ x = txn[c] /\ p \in PagesOf(Kept(journalDisk))
  BY <1>1, <1>2, <1>3, DirtyContent DEF LiveAt, Owner
<1> HIDE DEF p, x
<1>5. FilesStill /\ Past' = Past
  BY <1>1, <1>3, <1>4, PageWritten
<1>6. Database' = Database /\ Counter' = Counter
  BY <1>1, <1>5 DEF FilesStill, Counter
<1>7. \A q \in Pages : /\ cache'[c][q] = IF q = p THEN NotCached ELSE cache[c][q]
                       /\ db'[q] = IF q = p THEN txn[c] ELSE db[q]
  BY <1>1, <1>3, <1>4 DEF WriteDb, Types, TypesOfMemory, TypesOfFiles
<1>8. Owns(c)' /\ Owner(c)'
  BY <1>1, <1>2, <1>3, <1>4, <1>6, <1>7, ContentsAre DEF Owns, Owner
<1>9. LivePages(c)'
  BY <1>1, <1>3, <1>4, <1>7 DEF LivePages
<1>10. LiveAt(c)' /\ LiveCounter(c)'
  BY <1>1, <1>3, <1>4, <1>6 DEF LiveAt, LiveCounter
<1>11. ~Quiet(c)'
  BY <1>1, <1>2 DEF Quiet
<1>12. Conn(c)'
  BY <1>1, <1>2, <1>3, <1>8, <1>9, <1>10, <1>11 DEF Conn, Writing
<1> QED
  BY <1>1, <1>3, <1>5, <1>6, <1>12 DEF Changes

\* A commit writes its pages; page 1 comes first and has the next change counter.
LEMMA WritePageStep ==
  ASSUME PagerInv, NEW c \in Connections, WritePage(c)
  PROVE  Changes(c) /\ Past' = Past
<1> DEFINE p == Min(dirty[c])
           x == cache[c][p]
<1>1. /\ pc[c] = "write" /\ pc'[c] = "write" /\ dirty[c] # {} /\ WriteDb(p, x)
      /\ dirty'[c] = dirty[c] \ {p}
      /\ counterOf' = [counterOf EXCEPT ![txn[c]] = IF p = 1 THEN dbFileVers[c] + 1 ELSE @]
      /\ dbFileVers'[c] = IF p = 1 THEN dbFileVers[c] + 1 ELSE dbFileVers[c]
      /\ UNCHANGED <<journal, journalDisk, undeleted, eState, spilling, cache, needSync,
                     counted, play, txn, txns>>
  BY DEF WritePage, At, control, PagerInv, Types, TypesOfControl, TypesOfMemory
<1>2. eState[c] = "dbmod" /\ eState[c] \in Writing
  BY <1>1 DEF PagerInv, Locks, Control, Writing
<1>3. /\ Types /\ Locks /\ Files /\ Deleted /\ Sound(journal) /\ reserved = c /\ Conn(c)
      /\ Owns(c) /\ Owner(c) /\ LivePages(c) /\ LiveAt(c) /\ LiveCounter(c) /\ play[c] = FirstRecord
      /\ txn[c] \in Written /\ Database[1] \in Written /\ txn[c] # Database[1]
  BY <1>1, <1>2, WriterIs DEF PagerInv
<1>4. p \in dirty[c] /\ \A q \in dirty[c] : p <= q
  BY <1>1, <1>3, LeastDirty
<1>5. p \in Pages /\ x = txn[c] /\ cache[c][p] = txn[c]
  BY <1>1, <1>3, <1>4, DirtyContent
<1>6. p \in PagesOf(Kept(journalDisk))
  <2>1. LastMagic(journal) /\ journal.exists /\ Kept(journalDisk) = Kept(journal)
    BY <1>1, <1>2, <1>3 DEF LiveAt, Owner
  <2>2. Kept(journal) = Recorded(journal)
    BY <1>3, <2>1, KeptRecords
  <2> QED
    BY <1>3, <1>4, <2>1, <2>2 DEF LivePages
<1> HIDE DEF p, x
<1>7. FilesStill /\ Past' = Past
  BY <1>1, <1>3, <1>6, PageWritten
<1>8. Database' = Database /\ Counter' = Counter
  <2>1. Database' = Database
    BY <1>7 DEF FilesStill
  <2>2. counterOf'[Database[1]] = counterOf[Database[1]]
    BY <1>1, <1>3, ContentsAre DEF Types, TypesOfNumbers
  <2> QED
    BY <2>1, <2>2 DEF Counter
<1>9. \A q \in Pages : db'[q] = IF q = p THEN txn[c] ELSE db[q]
  BY <1>1, <1>3, <1>5 DEF WriteDb, Types, TypesOfFiles
<1>10. Owns(c)' /\ Owner(c)'
  BY <1>1, <1>2, <1>3, <1>8 DEF Owns, Owner
<1>11. LivePages(c)'
  BY <1>1, <1>3, <1>5, <1>9 DEF LivePages
<1>12. LiveAt(c)'
  BY <1>1, <1>3 DEF LiveAt
<1>13. LiveCounter(c)'
  <2>1. CASE p = 1
    <3>1. /\ dbFileVers[c] = Counter /\ dbFileVers'[c] = dbFileVers[c] + 1
          /\ counterOf'[txn[c]] = dbFileVers[c] + 1 /\ db'[1] = txn[c] /\ 1 \notin dirty'[c]
          /\ 1 \in PagesOf(Recorded(journal))
      BY <1>1, <1>3, <1>4, <1>5, <1>9, <2>1, ContentsAre DEF LiveCounter, LiveAt, Types, TypesOfNumbers
    <3> QED
      BY <1>1, <1>8, <3>1 DEF LiveCounter
  <2>2. CASE p # 1
    <3>1. 1 \notin dirty[c]
      BY <1>4, <1>5, <2>2, PagerAssumption DEF Pages
    <3>2. /\ dbFileVers'[c] = dbFileVers[c] /\ counterOf'[txn[c]] = counterOf[txn[c]] /\ db'[1] = db[1]
      BY <1>1, <1>3, <1>9, <2>2, ContentsAre DEF Types, TypesOfNumbers
    <3> QED
      BY <1>1, <1>3, <1>8, <3>1, <3>2 DEF LiveCounter
  <2> QED
    BY <2>1, <2>2
<1>14. ~Quiet(c)'
  BY <1>1, <1>2 DEF Quiet
<1>15. Conn(c)'
  BY <1>1, <1>2, <1>3, <1>10, <1>11, <1>12, <1>13, <1>14 DEF Conn, Writing
<1> QED
  BY <1>1, <1>3, <1>7, <1>8, <1>15 DEF Changes

\* The database file is synced: all of the transaction is on the disk.
LEMMA PagerSyncStep ==
  ASSUME PagerInv, NEW c \in Connections, PagerSync(c)
  PROVE  Changes(c) /\ Past' = Past
<1>1. /\ pc[c] = "write" /\ dirty[c] = {} /\ SyncDb /\ eState'[c] = "finished" /\ pc'[c] = "commit"
      /\ UNCHANGED <<db, journal, journalDisk, undeleted, cache, dbFileVers, play, txn, txns, counterOf>>
  BY DEF PagerSync, At, Enter, Goto, memory, numbers, PagerInv, Types, TypesOfControl
<1>2. eState[c] = "dbmod" /\ eState[c] \in Writing
  BY <1>1 DEF PagerInv, Locks, Control, Writing
<1>3. /\ Types /\ Locks /\ Files /\ Deleted /\ Sound(journal) /\ reserved = c /\ Conn(c)
      /\ Owns(c) /\ Owner(c) /\ LivePages(c) /\ LiveAt(c) /\ LiveCounter(c) /\ play[c] = FirstRecord
  BY <1>1, <1>2, WriterIs DEF PagerInv
<1>4. FilesStill /\ Past' = Past
  BY <1>1, <1>3, DbSynced
<1>5. Database' = Database /\ Counter' = Counter
  BY <1>1, <1>4 DEF FilesStill, Counter
<1>6. \A q \in Pages : db[q] \in Written /\ dbDisk'[q] = {db[q]} /\ cache[c][q] \in {NotCached, db[q]}
  BY <1>1, <1>3 DEF LivePages, SyncDb
<1>7. Finished(c)'
  BY <1>1, <1>2, <1>3, <1>5, <1>6 DEF Finished, Owner, LiveAt, LiveCounter
<1>8. Owns(c)'
  BY <1>1, <1>3, <1>5 DEF Owns
<1>9. Conn(c)'
  BY <1>1, <1>3, <1>7, <1>8 DEF Conn, Writing, Quiet
<1> QED
  BY <1>1, <1>3, <1>4, <1>5, <1>9 DEF Changes

\* A commit that fails is rolled back, from a file that may have a torn page.
LEMMA FailCommitStep ==
  ASSUME PagerInv, NEW c \in Connections, FailCommit(c)
  PROVE  Changes(c) /\ Past' = Past
<1>1. /\ pc[c] = "write" /\ pc'[c] = "play"
      /\ (dirty[c] # {} /\ WriteDb(Min(dirty[c]), Torn)) \/ UNCHANGED <<db, dbDisk>>
      /\ UNCHANGED <<journal, journalDisk, undeleted, eState, spilling, cache, dirty, needSync, dbFileVers,
                     counted, play, txn, txns, counterOf>>
  BY DEF FailCommit, At, Goto, memory, numbers, PagerInv, Types, TypesOfControl
<1>2. eState[c] = "dbmod" /\ eState[c] \in Writing
  BY <1>1 DEF PagerInv, Locks, Control, Writing
<1>3. /\ Types /\ Locks /\ Files /\ Deleted /\ Sound(journal) /\ reserved = c /\ Conn(c)
      /\ Owns(c) /\ Owner(c) /\ LivePages(c) /\ LiveAt(c) /\ LiveCounter(c) /\ play[c] = FirstRecord
  BY <1>1, <1>2, WriterIs DEF PagerInv
<1>4. /\ FilesStill /\ Past' = Past
      /\ \A q \in Pages : q \notin PagesOf(Kept(journal)) => db'[q] = db[q]
  <2>1. CASE UNCHANGED <<db, dbDisk>>
    BY <1>1, <1>3, <2>1, DbSynced
  <2>2. CASE dirty[c] # {} /\ WriteDb(Min(dirty[c]), Torn)
    <3>1. Min(dirty[c]) \in dirty[c]
      BY <1>3, <2>2, LeastDirty
    <3>2. /\ LastMagic(journal) /\ journal.exists /\ Kept(journalDisk) = Kept(journal)
          /\ Kept(journal) = Recorded(journal)
      BY <1>1, <1>2, <1>3, KeptRecords DEF LiveAt, Owner
    <3>3. Min(dirty[c]) \in PagesOf(Kept(journalDisk)) /\ Min(dirty[c]) \in PagesOf(Kept(journal))
      BY <1>3, <3>1, <3>2 DEF LivePages
    <3>4. FilesStill /\ Past' = Past
      BY <1>1, <1>3, <2>2, <3>3, PageWritten
    <3>5. \A q \in Pages : q # Min(dirty[c]) => db'[q] = db[q]
      BY <1>3, <2>2 DEF WriteDb, Types, TypesOfFiles
    <3> QED
      BY <3>3, <3>4, <3>5
  <2> QED
    BY <1>1, <2>1, <2>2
<1>5. Database' = Database /\ Counter' = Counter
  BY <1>1, <1>4 DEF FilesStill, Counter
<1>6. 1 \in PagesOf(Recorded(journal))
  BY <1>1, <1>3 DEF LiveAt, LiveCounter
<1>7. Undone(c)'
  BY <1>1, <1>2, <1>3, <1>4, <1>5, <1>6, LiveUndone
<1>8. Owns(c)' /\ Owner(c)'
  BY <1>1, <1>2, <1>3, <1>5 DEF Owns, Owner
<1>9. ~Quiet(c)'
  BY <1>1, <1>2 DEF Quiet
<1>10. Conn(c)'
  BY <1>1, <1>2, <1>7, <1>8, <1>9 DEF Conn, Writing
<1> QED
  BY <1>1, <1>3, <1>4, <1>5, <1>10 DEF Changes

-----------------------------------------------------------------------------
(* Playing back *)

\* A hot journal is synced before it is played back.
LEMMA SyncHotJournalStep ==
  ASSUME PagerInv, NEW c \in Connections, SyncHotJournal(c)
  PROVE  Changes(c) /\ Past' = Past
<1>1. /\ pc[c] = "syncHot" /\ pc'[c] = "play" /\ journalDisk' = journal
      /\ UNCHANGED <<db, dbDisk, journal, undeleted, eState, cache, dirty, needSync, dbFileVers,
                     counted, play, txn, txns, counterOf>>
  BY DEF SyncHotJournal, At, Goto, memory, numbers, PagerInv, Types, TypesOfControl
<1>2. /\ Types /\ Locks /\ Files /\ Deleted /\ Sound(journal) /\ Conn(c) /\ exclusive = c
      /\ eState[c] = "open" /\ Outside(c) /\ play[c] = FirstRecord
  BY <1>1 DEF PagerInv, Locks, Control, Excludes, Files, Conn
<1>3. FilesStill /\ Past' = Past
  BY <1>1, <1>2, JournalSynced
<1>4. Database' = Database /\ Counter' = Counter
  BY <1>1, <1>3 DEF FilesStill, Counter
<1>5. Outside(c)'
  BY <1>1, <1>2, <1>4, OutsideSame
<1>6. Undone(c)'
  <2>1. \A p \in Pages : AheadHot(c, p)' <=> p \in PagesOf(Kept(journal))
    <3>1. \A p \in Pages : AheadHot(c, p)' <=> AheadHot(c, p)
      BY <1>1 DEF AheadHot
    <3> QED
      BY <1>2, <3>1, AllAhead
  <2>2. \A p \in Pages : p \notin PagesOf(Kept(journal)) => db[p] = Database[p]
    BY <1>2, KeptIs
  <2> QED
    BY <1>1, <1>2, <1>4, <2>1, <2>2 DEF Undone
<1>7. Conn(c)'
  BY <1>1, <1>2, <1>5, <1>6 DEF Conn, Writing, Holds, Quiet
<1> QED
  BY <1>1, <1>2, <1>3, <1>4, <1>7 DEF Changes

\* What is known of a connection that plays back.
LEMMA PlayerIs ==
  ASSUME PagerInv, NEW c \in Connections, pc[c] \in {"play", "end"}
  PROVE  /\ Types /\ Locks /\ Files /\ Deleted /\ Conn(c) /\ Sound(journal)
         /\ eState[c] \in {"open", "cachemod", "dbmod"}
         /\ eState[c] = "open" => exclusive = c /\ Outside(c)
         /\ eState[c] \in {"cachemod", "dbmod"} => reserved = c /\ Owner(c) /\ Owns(c)
         /\ eState[c] = "cachemod" => Kept(journal) = {}
         /\ eState[c] = "dbmod" => Kept(journalDisk) = Kept(journal)
         /\ pc[c] = "play" => Undone(c)
         /\ pc[c] = "end" => Ended(c) /\ play[c] = FirstRecord
<1>1. Types /\ Locks /\ Files /\ Deleted /\ Conn(c) /\ Sound(journal)
  BY DEF PagerInv, Files
<1>2. eState[c] \in {"open", "cachemod", "dbmod"}
  BY <1>1 DEF Locks, Control
<1>3. CASE eState[c] = "open"
  BY <1>1, <1>2, <1>3 DEF Locks, Excludes, Conn
<1>4. CASE eState[c] \in {"cachemod", "dbmod"}
  <2>1. Owner(c) /\ Owns(c)
    BY <1>1, <1>4 DEF Conn, Writing, Holds
  <2>2. Quiet(c) <=> eState[c] = "cachemod"
    BY <1>4 DEF Quiet
  <2> QED
    BY <1>1, <1>4, <2>1, <2>2 DEF Locks, Holds, Conn, Owner
<1> QED
  BY <1>2, <1>3, <1>4

\* One record is played back: its page is not ahead any more.
LEMMA RecordPlayed ==
  ASSUME Types, Sound(journal), NEW c \in Connections, UNCHANGED journal,
         Plays(c, play[c][1]), play[c][2] <= NumRecords(c, play[c][1]),
         play'[c] = <<play[c][1], play[c][2] + 1>>, NEW p \in Pages,
         journal.segs[play[c][1]].recs[play[c][2]].page # p
  PROVE  (Ahead(c, p)' <=> Ahead(c, p)) /\ (AheadHot(c, p)' <=> AheadHot(c, p))
<1> DEFINE m == play[c][1]
           n == play[c][2]
<1>1. m \in Nat /\ n \in Nat /\ play'[c][1] = m /\ play'[c][2] = n + 1
  BY DEF Types, TypesOfControl
<1>2. \A i, k \in Nat : Slot(journal, i, k) /\ journal.segs[i].recs[k].page = p =>
        (i > play'[c][1] \/ (i = play'[c][1] /\ k >= play'[c][2]) <=> i > m \/ (i = m /\ k >= n))
  <2>1. SUFFICES ASSUME NEW i \in Nat, NEW k \in Nat, ~(i = m /\ k = n)
                 PROVE  i > m \/ (i = m /\ k >= n + 1) <=> i > m \/ (i = m /\ k >= n)
    BY <1>1
  <2> HIDE DEF m, n
  <2> QED
    BY <1>1, <2>1
<1> QED
  BY <1>2 DEF Ahead, AheadHot

\* The page is not ahead any more but for a record under no header.
LEMMA RecordReached ==
  ASSUME Types, NEW c \in Connections, UNCHANGED journal,
         play'[c] = <<play[c][1], play[c][2] + 1>>, NEW p, AheadHot(c, p), ~AheadHot(c, p)'
  PROVE  journal.segs[play[c][1]].magic
<1> DEFINE m == play[c][1]
           n == play[c][2]
<1>1. m \in Nat /\ n \in Nat /\ play'[c][1] = m /\ play'[c][2] = n + 1
  BY DEF Types, TypesOfControl
<1>2. PICK i \in Nat, k \in Nat :
        /\ Slot(journal, i, k) /\ journal.segs[i].recs[k].page = p
        /\ i > m \/ (i = m /\ k >= n)
        /\ journal.segs[i].magic
  BY DEF AheadHot
<1>3. ~(i > m \/ (i = m /\ k >= n + 1))
  BY <1>1, <1>2 DEF AheadHot
<1> HIDE DEF m, n
<1>4. i = m
  BY <1>1, <1>2, <1>3
<1> QED
  BY <1>2, <1>4 DEF m

\* Behind the last record nothing is ahead.
LEMMA NothingAhead ==
  ASSUME Types, Sound(journal), NEW c \in Connections, ~Plays(c, play[c][1]), NEW p \in Pages
  PROVE  ~AheadHot(c, p) /\ (~Hot(c) => ~Ahead(c, p))
<1> DEFINE m == play[c][1]
<1>1. m \in Nat /\ m >= 1 /\ Len(journal.segs) \in Nat
  BY JournalTypes DEF Types, TypesOfControl, Sound
<1>2. m > Len(journal.segs) \/ (m \in 1 .. Len(journal.segs) /\ Hot(c) /\ ~journal.segs[m].magic)
  BY <1>1, PlaysIs
<1>3. CASE m > Len(journal.segs)
  BY <1>1, <1>3 DEF Ahead, AheadHot, Slot
<1>4. CASE m \in 1 .. Len(journal.segs) /\ Hot(c) /\ ~journal.segs[m].magic
  <2>1. m = Len(journal.segs)
    BY <1>4 DEF Sound
  <2> QED
    BY <1>1, <1>4, <2>1 DEF AheadHot, Slot
<1> QED
  BY <1>2, <1>3, <1>4

\* pager_playback_one_page.
LEMMA PlayRecordStep ==
  ASSUME PagerInv, NEW c \in Connections, PlayRecord(c)
  PROVE  Changes(c) /\ Past' = Past
<1> DEFINE i == play[c][1]
           k == play[c][2]
           r == journal.segs[i].recs[k]
           q == r.page
           written == journal.segs[i].magic /\ eState[c] \in {"open", "dbmod"}
<1>1. /\ pc[c] = "play" /\ Plays(c, i) /\ k <= NumRecords(c, i)
      /\ IF written THEN WriteDb(q, r.old) ELSE UNCHANGED <<db, dbDisk>>
      /\ Hot(c) => Reset(c)
      /\ ~Hot(c) =>
           /\ cache' = [cache EXCEPT ![c][q] = IF @ = NotCached THEN @ ELSE r.old]
           /\ dbFileVers' = [dbFileVers EXCEPT ![c] = IF q = 1 THEN counterOf[r.old] ELSE @]
      /\ UNCHANGED <<journal, journalDisk, undeleted, eState, pc, txn, txns, counterOf>>
  BY DEF PlayRecord, At, control, numbers
<1>2. play'[c] = <<play[c][1], play[c][2] + 1>>
  BY DEF PlayRecord, PagerInv, Types, TypesOfControl
<1>3. /\ Types /\ Locks /\ Files /\ Deleted /\ Conn(c) /\ Sound(journal) /\ Undone(c)
      /\ eState[c] \in {"open", "cachemod", "dbmod"}
      /\ eState[c] = "open" => exclusive = c /\ Outside(c)
      /\ eState[c] \in {"cachemod", "dbmod"} => reserved = c /\ Owner(c) /\ Owns(c)
      /\ eState[c] = "cachemod" => Kept(journal) = {}
      /\ eState[c] = "dbmod" => Kept(journalDisk) = Kept(journal)
  BY <1>1, PlayerIs
<1>4. r \in Record /\ r \in Recorded(journal) /\ (journal.segs[i].magic => r \in Kept(journal))
  BY <1>1, <1>3, PlayedRecord
<1>5. q \in Pages /\ r.old \in Contents /\ q = r.page
  BY <1>4 DEF Record
<1>6. journal.segs[i].magic \/ ~Hot(c) => r.old = Database[q]
  BY <1>3, <1>4, KeptIs DEF Hot, Owner
<1>7. \A p \in Pages : p # q => (Ahead(c, p)' <=> Ahead(c, p)) /\ (AheadHot(c, p)' <=> AheadHot(c, p))
  BY <1>1, <1>2, <1>3, RecordPlayed
<1>8. Hot(c) => journal.segs[i].magic
  BY <1>1, <1>3, PlaysIs
<1>9. ASSUME NEW p \in Pages, AheadHot(c, p), ~AheadHot(c, p)' PROVE journal.segs[i].magic
  BY <1>1, <1>2, <1>3, <1>9, RecordReached
<1>10. written => q \in PagesOf(Kept(journalDisk))
  BY <1>3, <1>4, <1>5 DEF Undone, PagesOf
<1>11. written <=> journal.segs[i].magic
  BY <1>3, <1>4
<1> HIDE DEF r, q, i, k, written
<1>12. FilesStill /\ Past' = Past
  <2>1. CASE written
    BY <1>1, <1>3, <1>10, <2>1, PageWritten
  <2>2. CASE ~written
    BY <1>1, <1>3, <2>2, DbSynced
  <2> QED
    BY <2>1, <2>2
<1>13. Database' = Database /\ Counter' = Counter
  BY <1>1, <1>12 DEF FilesStill, Counter
<1>14. \A p \in Pages : ~AheadHot(c, p)' => db'[p] = Database[p]
  <2>1. \A p \in Pages : db'[p] = IF written /\ p = q THEN r.old ELSE db[p]
    BY <1>1, <1>3, <1>5 DEF WriteDb, Types, TypesOfFiles
  <2>2. ASSUME NEW p \in Pages, ~AheadHot(c, p)', p # q PROVE db'[p] = Database[p]
    BY <1>3, <1>7, <2>1, <2>2 DEF Undone
  <2>3. ASSUME NEW p \in Pages, ~AheadHot(c, p)', p = q PROVE db'[p] = Database[p]
    <3>1. CASE written
      BY <1>5, <1>6, <1>11, <2>1, <2>3, <3>1
    <3>2. CASE ~written
      <4>1. ~AheadHot(c, p)
        BY <1>9, <1>11, <2>3, <3>2
      <4> QED
        BY <1>3, <2>1, <3>2, <4>1 DEF Undone
    <3> QED
      BY <3>1, <3>2
  <2> QED
    BY <2>2, <2>3
<1>15. CASE Hot(c)
  <2>1. eState[c] = "open" /\ cache'[c] = Uncached /\ UNCHANGED <<dirty, dbFileVers, counted>>
    BY <1>1, <1>3, <1>15 DEF Hot, Reset, Types, TypesOfMemory
  <2>2. Outside(c)'
    BY <1>1, <1>3, <1>13, <2>1, UncachedIs DEF Outside, Agrees
  <2>3. Undone(c)'
    BY <1>1, <1>3, <1>13, <1>14, <2>1 DEF Undone
  <2>4. Conn(c)'
    BY <1>1, <2>1, <2>2, <2>3 DEF Conn, Writing, Holds, Quiet
  <2> QED
    BY <1>1, <1>3, <1>12, <1>13, <2>1, <2>4 DEF Changes
<1>16. CASE ~Hot(c)
  <2>1. eState[c] \in {"cachemod", "dbmod"} /\ Owner(c) /\ Owns(c) /\ r.old = Database[q]
    BY <1>3, <1>6, <1>16 DEF Hot
  <2>2. /\ \A p \in Pages : cache'[c][p] = IF p = q /\ cache[c][p] # NotCached THEN r.old ELSE cache[c][p]
        /\ dbFileVers'[c] = IF q = 1 THEN counterOf[r.old] ELSE dbFileVers[c]
    BY <1>1, <1>3, <1>5, <1>16 DEF Types, TypesOfMemory
  <2>3. Database[q] # NotCached /\ 1 \in Pages
    BY <1>3, <1>5, ContentsAre DEF Files
  <2>4. (Owner(c) /\ Owns(c))'
    BY <1>1, <1>13, <2>1, <2>2, <2>3 DEF Owner, Owns
  <2>5. ASSUME NEW p \in Pages, ~Ahead(c, p)'
        PROVE  cache'[c][p] \in {NotCached, Database[p]} /\ (p = 1 => dbFileVers'[c] = Counter)
    <3>1. CASE p = q
      BY <2>1, <2>2, <3>1 DEF Counter
    <3>2. CASE p # q
      <4>1. Agrees(c, p) /\ (p = 1 => dbFileVers[c] = Counter)
        BY <1>3, <1>7, <2>1, <2>5, <3>2 DEF Undone
      <4> QED
        BY <2>2, <3>2, <4>1 DEF Agrees
    <3> QED
      BY <3>1, <3>2
  <2>6. Undone(c)'
    BY <1>1, <1>3, <1>13, <1>14, <2>1, <2>5 DEF Undone, Agrees
  <2>7. Quiet(c)' <=> Quiet(c)
    BY <1>1 DEF Quiet
  <2>8. Conn(c)'
    BY <1>1, <1>3, <2>1, <2>4, <2>6, <2>7 DEF Conn, Writing
  <2> QED
    BY <1>1, <1>3, <1>12, <1>13, <2>1, <2>8 DEF Changes
<1> QED
  BY <1>15, <1>16

\* The end of a playback: the file is the database, and synced.
LEMMA EndPlaybackStep ==
  ASSUME PagerInv, NEW c \in Connections, EndPlayback(c)
  PROVE  Changes(c) /\ Past' = Past
<1>1. /\ pc[c] = "play" /\ ~Plays(c, play[c][1])
      /\ IF eState[c] \in {"open", "dbmod"} THEN SyncDb ELSE UNCHANGED dbDisk
      /\ counted'[c] = FALSE /\ play'[c] = FirstRecord /\ pc'[c] = "end"
      /\ UNCHANGED <<db, journal, journalDisk, undeleted, eState, cache, dirty, dbFileVers, txn, txns, counterOf>>
  BY DEF EndPlayback, At, Goto, numbers, PagerInv, Types, TypesOfControl, TypesOfMemory
<1>2. /\ Types /\ Locks /\ Files /\ Deleted /\ Conn(c) /\ Sound(journal) /\ Undone(c)
      /\ eState[c] \in {"open", "cachemod", "dbmod"}
      /\ eState[c] = "open" => exclusive = c /\ Outside(c)
      /\ eState[c] \in {"cachemod", "dbmod"} => reserved = c /\ Owner(c) /\ Owns(c)
      /\ eState[c] = "cachemod" => Kept(journal) = {}
  BY <1>1, PlayerIs
<1>3. FilesStill /\ Past' = Past
  BY <1>1, <1>2, DbSynced
<1>4. Database' = Database /\ Counter' = Counter
  BY <1>1, <1>3 DEF FilesStill, Counter
<1>5. \A p \in Pages : ~AheadHot(c, p) /\ (eState[c] # "open" => ~Ahead(c, p))
  BY <1>1, <1>2, NothingAhead DEF Hot
<1>6. \A p \in Pages : db[p] = Database[p] /\ dbDisk'[p] = {Database[p]}
  <2>1. \A p \in Pages : db[p] = Database[p]
    BY <1>2, <1>5 DEF Undone
  <2>2. CASE eState[c] \in {"open", "dbmod"}
    BY <1>1, <2>1, <2>2 DEF SyncDb
  <2>3. CASE eState[c] = "cachemod"
    BY <1>1, <1>2, <2>1, <2>3, NothingKept
  <2> QED
    BY <1>2, <2>2, <2>3
<1>7. eState[c] # "open" => (\A p \in Pages : Agrees(c, p)) /\ dbFileVers[c] = Counter
  BY <1>2, <1>5, ContentsAre DEF Undone
<1>8. Ended(c)'
  BY <1>1, <1>4, <1>6, <1>7 DEF Ended, Agrees
<1>9. eState[c] = "open" => Outside(c)'
  BY <1>1, <1>2, <1>4 DEF Outside, Agrees
<1>10. eState[c] # "open" => (Owner(c) /\ Owns(c))'
  BY <1>1, <1>2, <1>4 DEF Owner, Owns
<1>11. Quiet(c)' => Quiet(c)
  BY <1>1 DEF Quiet
<1>12. Conn(c)'
  BY <1>1, <1>2, <1>8, <1>9, <1>10, <1>11 DEF Conn, Writing, Holds
<1> QED
  BY <1>1, <1>2, <1>3, <1>4, <1>12 DEF Changes

-----------------------------------------------------------------------------
(* The end of a transaction *)

\* The journal is deleted: the file is the database.
LEMMA JournalDeleted ==
  ASSUME Types, Files, Deleted, NEW c, EndTransaction(c), UNCHANGED txns,
         \A p \in Pages : db[p] \in Written /\ dbDisk[p] = {db[p]}, db[1] <= txns
  PROVE  /\ Files' /\ Deleted' /\ Database' = db /\ UNCHANGED db /\ Kept(journal') = {}
         /\ undeleted' = undeleted \cup Undeletable(journal)
<1>1. /\ journal' = NoJournal /\ journalDisk' = NoJournal /\ UNCHANGED <<db, dbDisk>>
      /\ undeleted' = undeleted \cup Undeletable(journal)
  BY DEF EndTransaction
<1>2. db \in [Pages -> Written]
  BY DEF Types, TypesOfFiles
<1>3. Database' = db
  <2>1. Restored(db, NoJournal) = db
    BY <1>2, NoJournalIs, DatabaseIs
  <2> QED
    BY <1>1, <2>1 DEF Database
<1>4. Files'
  BY <1>1, <1>2, <1>3, NoJournalIs DEF Files
<1>5. ASSUME NEW j \in undeleted'
      PROVE  Sound(j) /\ Restored(db', j) \in [Pages -> Written] /\ Restored(db', j)[1] <= txns'
  <2>1. CASE j \in undeleted
    BY <1>1, <2>1 DEF Deleted
  <2>2. CASE j = journal
    BY <1>1, <2>2 DEF Files, Database
  <2> QED
    BY <1>1, <1>5, <2>1, <2>2 DEF Undeletable
<1>6. Deleted'
  BY <1>1, <1>5, NoJournalIs DEF Deleted
<1> QED
  BY <1>1, <1>3, <1>4, <1>6, NoJournalIs

\* A rollback deletes the journal.
LEMMA EndRollbackStep ==
  ASSUME PagerInv, NEW c \in Connections, EndRollback(c)
  PROVE  Changes(c) /\ Past' = Past
<1>1. /\ pc[c] = "end" /\ EndTransaction(c)
      /\ dirty'[c] = {} /\ counted'[c] = FALSE
      /\ UNCHANGED <<db, dbDisk, cache, dbFileVers, play, txns, counterOf>>
  BY DEF EndRollback, EndTransaction, At, PagerInv, Types, TypesOfMemory
<1>2. IF eState[c] = "open" THEN pc'[c] = "validate" /\ eState'[c] = "open"
                            ELSE pc'[c] = "idle" /\ eState'[c] = "reader"
  BY DEF EndRollback, Goto, Enter, PagerInv, Types, TypesOfControl
<1>3. /\ Types /\ Locks /\ Files /\ Deleted /\ Conn(c) /\ Sound(journal)
      /\ eState[c] \in {"open", "cachemod", "dbmod"}
      /\ eState[c] = "open" => exclusive = c /\ Outside(c)
      /\ eState[c] \in {"cachemod", "dbmod"} => reserved = c /\ Owner(c) /\ Owns(c)
      /\ Ended(c) /\ play[c] = FirstRecord
  BY <1>1, PlayerIs
<1>4. \A p \in Pages : db[p] = Database[p] /\ db[p] \in Written /\ dbDisk[p] = {db[p]}
  BY <1>3 DEF Ended, Files
<1>5. db[1] <= txns
  BY <1>3, <1>4, ContentsAre DEF Files
<1>6. db = Database
  BY <1>3, <1>4 DEF Files, Types, TypesOfFiles
<1>7. /\ Files' /\ Deleted' /\ Database' = Database /\ Kept(journal') = {}
      /\ undeleted' = undeleted \cup Undeletable(journal)
  BY <1>1, <1>3, <1>4, <1>5, <1>6, JournalDeleted
<1>8. Past' = Past
  <2>1. ASSUME NEW j \in undeleted', j \notin undeleted PROVE Restored(db, j) = Database
    BY <1>7, <2>1 DEF Undeletable, Database
  <2>2. {Restored(db, j) : j \in undeleted'} \ {Database} = {Restored(db, j) : j \in undeleted} \ {Database}
    BY <1>7, <2>1
  <2> QED
    BY <1>1, <1>7, <2>2 DEF Past
<1>9. Counter' = Counter
  BY <1>1, <1>7 DEF Counter
<1>10. Outside(c)'
  <2>1. CASE eState[c] = "open"
    BY <1>1, <1>2, <1>3, <1>7, <1>9, <2>1 DEF Outside, Agrees
  <2>2. CASE eState[c] # "open"
    <3>1. /\ cache[c][1] # NotCached /\ cache[c] # Uncached /\ dbFileVers[c] = Counter
          /\ Counter \in Int /\ \A p \in Pages : Agrees(c, p)
      BY ZenonT(40), <1>3, <2>2, ContentsAre, UncachedIs DEF Owner, Ended, Counter, Files, Types, TypesOfNumbers
    <3> QED
      BY <1>1, <1>2, <1>7, <1>9, <2>2, <3>1 DEF Outside, Agrees
  <2> QED
    BY <2>1, <2>2
<1>11. Conn(c)'
  BY <1>1, <1>2, <1>3, <1>7, <1>10, ConnReads
<1> QED
  BY <1>3, <1>7, <1>8, <1>9, <1>11 DEF Changes, FilesStill

\* What a commit does to the database: no other connection reads, the value
\* before it is what a power loss may restore.
Commits(c) ==
  /\ Files' /\ Deleted' /\ Database' = db /\ UNCHANGED db
  /\ Past' = {Database} \ {Database'}
  /\ exclusive = c /\ eState[c] = "finished" /\ eState'[c] = "reader"
  /\ Conn(c)' /\ \A d \in Connections : d # c => Conn(d)' /\ eState[d] = "open" /\ eState'[d] = "open"

\* The deletion of the journal is the commit.
LEMMA CommitPhaseTwoStep ==
  ASSUME PagerInv, NEW c \in Connections, CommitPhaseTwo(c)
  PROVE  Commits(c)
<1>1. /\ pc[c] = "commit" /\ EndTransaction(c)
      /\ dirty'[c] = {} /\ counted'[c] = FALSE /\ eState'[c] = "reader" /\ pc'[c] = "idle"
      /\ UNCHANGED <<db, dbDisk, cache, dbFileVers, play, txns, counterOf>>
  BY DEF CommitPhaseTwo, EndTransaction, At, Enter, Goto, PagerInv, Types, TypesOfMemory, TypesOfControl
<1>2. /\ Types /\ Locks /\ Files /\ Deleted /\ Conn(c) /\ Sound(journal)
      /\ exclusive = c /\ eState[c] = "finished" /\ Finished(c) /\ Owns(c) /\ play[c] = FirstRecord
  BY <1>1 DEF PagerInv, Locks, Control, Excludes, Files, Conn, Holds
<1>3. /\ \A p \in Pages : db[p] \in Written /\ dbDisk[p] = {db[p]}
      /\ db[1] = txns /\ db[1] <= txns /\ undeleted = {}
  BY <1>2, ContentsAre DEF Finished, Owns, Types, TypesOfNumbers
<1>4. /\ Files' /\ Deleted' /\ Database' = db /\ UNCHANGED db /\ Kept(journal') = {}
      /\ undeleted' = undeleted \cup Undeletable(journal)
  BY <1>1, <1>2, <1>3, JournalDeleted
<1>5. undeleted' = {journal}
  <2>1. Len(journal.segs) \in 1 .. Len(journal.segs) /\ journal.segs[Len(journal.segs)].magic
    BY <1>2, JournalTypes DEF Finished, LastMagic, Last, Sound
  <2>2. HotSegments(journal) # {}
    BY <1>2, <2>1, HotIs
  <2> QED
    BY <1>3, <1>4, <2>2 DEF Undeletable
<1>6. Past' = {Database} \ {Database'}
  BY <1>1, <1>5 DEF Past, Database
<1>7. /\ Counter' = Counter + 1 /\ dbFileVers[c] = Counter + 1 /\ Counter \in Int
  BY <1>1, <1>2, <1>4, ContentsAre DEF Finished, Counter, Files, Types, TypesOfNumbers
<1>8. Outside(c)'
  <2>1. \A p \in Pages : cache[c][p] \in {NotCached, db[p]}
    BY <1>2 DEF Finished
  <2>2. cache[c][1] # NotCached /\ cache[c] # Uncached
    BY <1>2, ContentsAre, UncachedIs DEF Finished
  <2> QED
    BY <1>1, <1>4, <1>7, <2>1, <2>2 DEF Outside, Agrees
<1>9. Conn(c)'
  BY <1>1, <1>2, <1>4, <1>8, ConnReads
<1>10. ASSUME NEW d \in Connections, d # c PROVE Conn(d)' /\ eState[d] = "open" /\ eState'[d] = "open"
  <2>1. eState[d] = "open" /\ pc[d] = "idle" /\ Conn(d)
    BY <1>2, <1>10, Apart DEF PagerInv
  <2>2. SameOwn(d)
    BY <1>2, <1>10, OwnStep DEF Step
  <2>3. Outside(d) /\ play[d] = FirstRecord
    BY <2>1 DEF Conn
  <2>4. Outside(d)'
    BY <1>2, <1>7, <2>1, <2>2, <2>3 DEF Outside, SameOwn, Types, TypesOfMemory
  <2> QED
    BY <1>4, <2>1, <2>2, <2>3, <2>4, ConnReads DEF SameOwn
<1> QED
  BY <1>1, <1>2, <1>4, <1>6, <1>9, <1>10 DEF Commits

-----------------------------------------------------------------------------
(* A power loss *)

\* The journal that is left is one that restores the database, or one that
\* has been deleted.
LEMMA PowerLossStep ==
  ASSUME PagerInv, PowerLoss
  PROVE  PagerInv' /\ Database' \in {Database} \cup Past /\ Past' = {}
<1>1. /\ db' \in [Pages -> Contents] /\ \A p \in Pages : db'[p] \in dbDisk[p]
      /\ dbDisk' = [p \in Pages |-> {db'[p]}] /\ journal' \in JournalsLeft
      /\ journalDisk' = journal' /\ undeleted' = {} /\ UNCHANGED <<txns, counterOf>>
      /\ shared' = {} /\ reserved' = NoOne /\ pending' = NoOne /\ exclusive' = NoOne
      /\ eState' = [c \in Connections |-> "open"] /\ pc' = [c \in Connections |-> "idle"]
      /\ spilling' = [c \in Connections |-> 0] /\ cache' = [c \in Connections |-> Uncached]
      /\ dirty' = [c \in Connections |-> {}] /\ needSync' = [c \in Connections |-> {}]
      /\ dbFileVers' = [c \in Connections |-> 0] /\ counted' = [c \in Connections |-> FALSE]
      /\ play' = [c \in Connections |-> FirstRecord] /\ txn' = [c \in Connections |-> 0]
  BY DEF PowerLoss
<1>2. Types /\ Files /\ Deleted /\ Sound(journal) /\ Sound(journalDisk)
  BY DEF PagerInv, Files
<1>3. Types'
  <2>1. 0 \in Written /\ 0 \in 0 .. NumPages /\ 0 \in Int /\ FirstRecord \in (Nat \ {0}) \X (Nat \ {0})
    BY PagerAssumption, ContentsAre DEF FirstRecord
  <2>2. TypesOfFiles'
    BY <1>1 DEF TypesOfFiles
  <2>3. TypesOfControl'
    BY <1>1, <2>1 DEF TypesOfControl
  <2>4. TypesOfMemory'
    BY <1>1, <2>1, UncachedIs DEF TypesOfMemory
  <2>5. TypesOfNumbers'
    BY <1>1, <1>2, <2>1 DEF TypesOfNumbers, Types
  <2> QED
    BY <2>2, <2>3, <2>4, <2>5 DEF Types
<1>4. Locks'
  BY <1>1, PagerAssumption DEF Locks, Control, Holds, Excludes
<1>5. /\ Sound(journal')
      /\ \/ Kept(journal') \subseteq Kept(journal) /\ Kept(journalDisk) \subseteq Kept(journal')
         \/ journal' \in undeleted
  <2>1. CASE journal' = journalDisk
    BY <1>2, <2>1 DEF Files
  <2>2. CASE journal.segs # <<>> /\ \E k \in SyncedRecords .. Len(Last(journal.segs).recs) : journal' = DamagedFrom(k)
    <3>1. PICK k \in SyncedRecords .. Len(Last(journal.segs).recs) : journal' = DamagedFrom(k)
      BY <2>2
    <3>2. Len(Last(journal.segs).recs) \in Nat
      BY <1>2, <2>2, JournalTypes DEF Last, Sound
    <3>3. SyncedRecords \in Nat
      <4>1. CASE Len(journalDisk.segs) < Len(journal.segs)
        BY <4>1 DEF SyncedRecords
      <4>2. CASE ~(Len(journalDisk.segs) < Len(journal.segs))
        <5>1. Len(journalDisk.segs) \in Nat /\ Len(journal.segs) \in Nat /\ Len(journal.segs) > 0
          BY <1>2, <2>2, JournalTypes DEF Sound
        <5>2. Len(journalDisk.segs) \in 1 .. Len(journalDisk.segs)
          BY <4>2, <5>1
        <5>3. Len(Last(journalDisk.segs).recs) \in Nat
          BY <1>2, <5>2, JournalTypes DEF Last, Sound
        <5> QED
          BY <4>2, <5>3 DEF SyncedRecords
      <4> QED
        BY <4>1, <4>2
    <3>4. k \in Nat /\ k >= SyncedRecords
      BY <3>2, <3>3
    <3>5. LastMagic(journal) => k >= Len(Last(journal.segs).recs)
      BY <1>2, <2>2, <3>2, <3>3, <3>4 DEF Files, Sound
    <3>6. Sound(journal') /\ Kept(journal') = Kept(journal)
      BY <1>2, <2>2, <3>1, <3>4, <3>5, DamagedIs
    <3> QED
      BY <1>2, <3>6 DEF Files
  <2>3. CASE journal' \in undeleted
    BY <1>2, <2>3 DEF Deleted
  <2> QED
    BY <1>1, <2>1, <2>2, <2>3 DEF JournalsLeft
<1>6. \A p \in Pages : p \notin PagesOf(Kept(journalDisk)) => db'[p] = Database[p]
  BY <1>1, <1>2 DEF Files
<1>7. Restored(db', journal') \in {Database} \cup Past /\ Restored(db', journal') \in [Pages -> Written]
      /\ Restored(db', journal')[1] <= txns
  <2>1. CASE Kept(journal') \subseteq Kept(journal) /\ Kept(journalDisk) \subseteq Kept(journal')
    <3>1. \A r \in Kept(journal') : r.old = Database[r.page]
      BY <1>2, <2>1, KeptIs
    <3>2. \A p \in Pages : p \notin PagesOf(Kept(journal')) => db'[p] = Database[p]
      BY <1>6, <2>1 DEF PagesOf
    <3>3. Restored(db', journal') = Database
      BY <1>2, <1>5, <3>1, <3>2, DatabaseIs DEF Files
    <3> QED
      BY <1>2, <3>3 DEF Files
  <2>2. CASE journal' \in undeleted
    <3>1. Kept(journal) = {}
      BY <1>2, <2>2 DEF Deleted
    <3>2. \A p \in Pages : db[p] = Database[p] /\ dbDisk[p] = {Database[p]}
      BY <1>2, <3>1, NothingKept
    <3>3. db' = db
      <4>1. db \in [Pages -> Contents]
        BY <1>2 DEF Types, TypesOfFiles
      <4>2. \A p \in Pages : db'[p] = db[p]
        BY <1>1, <3>2
      <4> QED
        BY <1>1, <4>1, <4>2
    <3> QED
      BY <1>2, <2>2, <3>3 DEF Deleted, Past
  <2> QED
    BY <1>5, <2>1, <2>2
<1>8. Database' = Restored(db', journal')
  BY DEF Database
<1>9. Files'
  <2>1. \A p \in Pages : p \notin PagesOf(Kept(journal')) => db'[p] = Database'[p] /\ dbDisk'[p] = {Database'[p]}
    BY <1>1, <1>5, <1>8, RestoredIs
  <2>2. journal'.exists /\ LastMagic(journal') => SyncedRecords' >= Len(Last(journal'.segs).recs)
    <3>1. SUFFICES ASSUME journal'.exists PROVE SyncedRecords' >= Len(Last(journal'.segs).recs)
      OBVIOUS
    <3>2. Len(journal'.segs) \in 1 .. Len(journal'.segs)
      BY <1>5, <3>1, JournalTypes DEF Sound
    <3>3. Len(Last(journal'.segs).recs) \in Nat
      BY <1>5, <3>2, JournalTypes DEF Sound, Last
    <3>4. SyncedRecords' = Len(Last(journal'.segs).recs)
      BY <1>1, <3>2 DEF SyncedRecords
    <3> QED
      BY <3>3, <3>4
  <2>3. Kept(journalDisk') = Kept(journal') /\ Sound(journalDisk')
    BY <1>1, <1>5
  <2> QED
    BY <1>1, <1>5, <1>7, <1>8, <2>1, <2>2, <2>3 DEF Files
<1>10. Deleted'
  BY <1>1 DEF Deleted
<1>11. Past' = {}
  BY <1>1 DEF Past
<1>12. ASSUME NEW c \in Connections PROVE Conn(c)'
  <2>1. Counter' \in Int /\ Counter' >= 0
    <3>1. Database'[1] \in Written
      BY <1>7, <1>8, ContentsAre
    <3> QED
      BY <1>3, <3>1, ContentsAre DEF Counter, Types, TypesOfNumbers
  <2>2. \A p \in Pages : Agrees(c, p)'
    BY <1>1, UncachedIs DEF Agrees
  <2>3. Outside(c)'
    BY <1>1, <2>1, <2>2 DEF Outside
  <2>4. eState'[c] = "open" /\ pc'[c] = "idle" /\ play'[c] = FirstRecord /\ ~Quiet(c)'
    BY <1>1 DEF Quiet
  <2> QED
    BY <2>3, <2>4, ConnReads
<1> QED
  BY <1>3, <1>4, <1>7, <1>8, <1>9, <1>10, <1>11, <1>12 DEF PagerInv

-----------------------------------------------------------------------------
(* The invariant *)

\* It holds of an empty database that nobody has opened.
LEMMA InitInv ==
  ASSUME Init
  PROVE  PagerInv /\ Database = [p \in Pages |-> 0] /\ Past = {}
<1>1. /\ db = [p \in Pages |-> 0] /\ dbDisk = [p \in Pages |-> {0}]
      /\ journal = NoJournal /\ journalDisk = NoJournal /\ undeleted = {}
      /\ shared = {} /\ reserved = NoOne /\ pending = NoOne /\ exclusive = NoOne
      /\ eState = [c \in Connections |-> "open"] /\ pc = [c \in Connections |-> "idle"]
      /\ spilling = [c \in Connections |-> 0] /\ cache = [c \in Connections |-> Uncached]
      /\ dirty = [c \in Connections |-> {}] /\ needSync = [c \in Connections |-> {}]
      /\ dbFileVers = [c \in Connections |-> 0] /\ counted = [c \in Connections |-> FALSE]
      /\ play = [c \in Connections |-> FirstRecord] /\ txn = [c \in Connections |-> 0]
      /\ txns = 0 /\ counterOf = [t \in Contents |-> IF t = Torn THEN -1 ELSE 0]
  BY DEF Init
<1>2. /\ 0 \in Written /\ 0 \in Contents /\ 0 \in 0 .. NumPages /\ 0 \in Int /\ -1 \in Int
      /\ FirstRecord \in (Nat \ {0}) \X (Nat \ {0}) /\ Torn \notin Written /\ Written \subseteq Contents
      /\ 1 \in Pages
  BY PagerAssumption, ContentsAre DEF FirstRecord, Torn, Written
<1>3. Types
  <2>1. TypesOfFiles
    BY <1>1, <1>2 DEF TypesOfFiles
  <2>2. TypesOfControl
    BY <1>1, <1>2 DEF TypesOfControl
  <2>3. TypesOfMemory
    BY <1>1, <1>2, UncachedIs DEF TypesOfMemory
  <2>4. counterOf \in [Contents -> Int] /\ \A t \in Written : counterOf[t] = 0
    BY <1>1, <1>2
  <2>5. TypesOfNumbers
    BY <1>1, <1>2, <2>4 DEF TypesOfNumbers
  <2> QED
    BY <2>1, <2>2, <2>3, <2>5 DEF Types
<1>4. Locks
  BY <1>1, PagerAssumption DEF Locks, Control, Holds, Excludes
<1>5. Database = db
  <2>1. db \in [Pages -> Written]
    BY <1>1, <1>2
  <2>2. Restored(db, NoJournal) = db
    BY <2>1, NoJournalIs, DatabaseIs
  <2> QED
    BY <1>1, <2>2 DEF Database
<1>6. Files
  BY <1>1, <1>2, <1>5, NoJournalIs DEF Files
<1>7. Deleted /\ Past = {}
  BY <1>1 DEF Deleted, Past
<1>8. ASSUME NEW c \in Connections PROVE Conn(c)
  <2>1. Counter = 0
    BY <1>1, <1>2, <1>5 DEF Counter
  <2>2. Outside(c)
    BY <1>1, <2>1, UncachedIs DEF Outside, Agrees
  <2> QED
    BY <1>1, <2>2 DEF Conn, Quiet, Holds, Writing
<1> QED
  BY <1>1, <1>3, <1>4, <1>5, <1>6, <1>7, <1>8 DEF PagerInv

\* The actions that leave the files alone.
Reads(c) ==
  \/ LockShared(c) \/ AccessJournal(c) \/ CheckReservedLock(c) \/ ReadFirstByte(c)
  \/ LockHot(c) \/ OpenHotJournal(c) \/ Validate(c) \/ GetPage1(c)
  \/ EndRead(c) \/ Begin(c) \/ EndUnwritten(c) \/ LockExclusive(c) \/ GiveUp(c)
  \/ Rollback(c) \/ NextSegment(c) \/ Crash(c)
  \/ \E p \in Pages : Acquire(c, p) \/ Stress(c, p)

\* Only a Begin counts a transaction, where nobody writes.
LEMMA ReadsFrame ==
  ASSUME Types, Locks, NEW c \in Connections, Reads(c)
  PROVE  /\ UNCHANGED files /\ UNCHANGED counterOf
         /\ txns' \in Int /\ txns' >= txns
         /\ txns' = txns \/ \A d \in Connections : ~Holds(d)
<1>1. txns \in Int
  BY ContentsAre DEF Types, TypesOfNumbers
<1>2. CASE Begin(c)
  <2>1. \A d \in Connections : ~Holds(d)
    BY <1>2, PagerAssumption DEF Begin, Locks
  <2> QED
    BY <1>1, <1>2, <2>1 DEF Begin
<1>3. CASE Reads(c) /\ ~Begin(c)
  <2>1. UNCHANGED <<files, counterOf, txns>>
    BY <1>3 DEF Reads, LockShared, AccessJournal, CheckReservedLock, ReadFirstByte, LockHot,
                OpenHotJournal, Validate, GetPage1, EndRead, EndUnwritten, LockExclusive, GiveUp,
                Rollback, NextSegment, Crash, Acquire, Stress, numbers
  <2> QED
    BY <1>1, <2>1
<1> QED
  BY <1>2, <1>3

\* They keep the invariant, the database and what a power loss may bring back.
LEMMA ReadsKept ==
  ASSUME PagerInv, NEW c \in Connections, Step(c) \/ Call(c) \/ Crash(c), Reads(c)
  PROVE  PagerInv' /\ Database' = Database /\ Past' = Past
<1>1. Types /\ TypesOfControl /\ Locks /\ Files /\ Deleted /\ \A d \in Connections : Conn(d)
  BY DEF PagerInv, Types
<1>2. /\ UNCHANGED files /\ UNCHANGED counterOf
      /\ txns' \in Int /\ txns' >= txns
      /\ txns' = txns \/ \A d \in Connections : ~Holds(d)
  BY <1>1, ReadsFrame
<1>3. Types' /\ Locks'
  BY <1>1, TypesStep, LocksStep
<1>4. Files' /\ Deleted' /\ Database' = Database /\ Past' = Past
  BY <1>1, <1>2, FilesSame
<1>5. Conn(c)'
  BY ReadingStep DEF Reads
<1>6. ASSUME NEW d \in Connections, d # c PROVE Conn(d)'
  <2>1. SameOwn(d)
    BY <1>1, <1>6, OwnStep
  <2> QED
    BY <1>1, <1>2, <2>1, ConnSame
<1> QED
  BY <1>3, <1>4, <1>5, <1>6 DEF PagerInv

\* So do the actions that write a file for a transaction or a playback.
LEMMA ChangesKept ==
  ASSUME PagerInv, NEW c \in Connections, Step(c) \/ Call(c) \/ Crash(c), Changes(c)
  PROVE  PagerInv' /\ Database' = Database
<1>1. Types /\ TypesOfControl /\ Locks /\ Files /\ Conn(c)
  BY DEF PagerInv, Types
<1>2. Types' /\ Locks'
  BY <1>1, TypesStep, LocksStep
<1>3. Files' /\ Deleted' /\ Database' = Database
  BY DEF Changes, FilesStill
<1>4. \A d \in Connections : Conn(d)'
  BY OthersKept
<1> QED
  BY <1>2, <1>3, <1>4 DEF PagerInv

\* What the steps of a connection are.
LEMMA StepsAre ==
  ASSUME PagerInv, NEW c \in Connections, Step(c) \/ Call(c) \/ Crash(c)
  PROVE  \/ Reads(c)
         \/ Changes(c) /\ Past' = Past
         \/ SyncRecords(c)
         \/ CommitPhaseTwo(c)
<1>1. CASE SyncHotJournal(c)
  BY <1>1, SyncHotJournalStep
<1>2. CASE PlayRecord(c)
  BY <1>2, PlayRecordStep
<1>3. CASE EndPlayback(c)
  BY <1>3, EndPlaybackStep
<1>4. CASE EndRollback(c)
  BY <1>4, EndRollbackStep
<1>5. CASE WriteHeader(c)
  BY <1>5, WriteHeaderStep
<1>6. CASE SyncHeader(c)
  BY <1>6, SyncHeaderStep
<1>7. CASE Spill(c)
  BY <1>7, SpillStep
<1>8. CASE WritePage(c)
  BY <1>8, WritePageStep
<1>9. CASE PagerSync(c)
  BY <1>9, PagerSyncStep
<1>10. CASE CommitPhaseOne(c)
  BY <1>10, CommitPhaseOneStep
<1>11. CASE FailCommit(c)
  BY <1>11, FailCommitStep
<1>12. CASE \E p \in Pages : Write(c, p)
  BY <1>12, WriteStep
<1> QED
  BY <1>1, <1>2, <1>3, <1>4, <1>5, <1>6, <1>7, <1>8, <1>9, <1>10, <1>11, <1>12 DEF Step, Call, Reads

\* A commit keeps the invariant.
LEMMA CommitKept ==
  ASSUME PagerInv, NEW c \in Connections, CommitPhaseTwo(c)
  PROVE  PagerInv' /\ Commits(c)
<1>1. Types /\ TypesOfControl /\ Locks /\ Files /\ Conn(c) /\ Step(c)
  BY DEF PagerInv, Types, Step
<1>2. Types' /\ Locks'
  BY <1>1, TypesStep, LocksStep
<1>3. Commits(c)
  BY CommitPhaseTwoStep
<1> QED
  BY <1>2, <1>3 DEF PagerInv, Commits

\* Every step of a connection keeps the invariant.
LEMMA StepInv ==
  ASSUME PagerInv, NEW c \in Connections, Step(c) \/ Call(c) \/ Crash(c)
  PROVE  PagerInv'
<1>1. CASE Reads(c)
  BY <1>1, ReadsKept
<1>2. CASE Changes(c)
  BY <1>2, ChangesKept
<1>3. CASE SyncRecords(c)
  BY <1>3, SyncRecordsStep, ChangesKept
<1>4. CASE CommitPhaseTwo(c)
  BY <1>4, CommitKept
<1> QED
  BY <1>1, <1>2, <1>3, <1>4, StepsAre

\* A step of nobody changes nothing.
LEMMA StutterInv ==
  ASSUME PagerInv, UNCHANGED vars
  PROVE  PagerInv' /\ Database' = Database /\ Past' = Past /\ UNCHANGED eState
<1>1. /\ UNCHANGED files /\ UNCHANGED locks /\ UNCHANGED <<control, memory, numbers, play>>
      /\ UNCHANGED <<counterOf, txns, eState>>
  BY DEF vars, numbers, control
<1>2. Types /\ Locks /\ Files /\ Deleted /\ \A d \in Connections : Conn(d)
  BY DEF PagerInv
<1>3. Types'
  BY <1>1, <1>2 DEF Types, TypesOfFiles, TypesOfControl, TypesOfMemory, TypesOfNumbers,
                    files, control, memory, numbers
<1>4. Locks'
  BY <1>1, <1>2 DEF Locks, Control, Holds, Excludes, locks, control
<1>5. txns' \in Int /\ txns' >= txns
  BY <1>1, <1>2, ContentsAre DEF Types, TypesOfNumbers
<1>6. Files' /\ Deleted' /\ Database' = Database /\ Past' = Past
  BY <1>1, <1>2, <1>5, FilesSame
<1>7. ASSUME NEW d \in Connections PROVE Conn(d)'
  <2>1. SameOwn(d)
    BY <1>1 DEF SameOwn, control, memory, numbers
  <2> QED
    BY <1>1, <1>2, <2>1, ConnSame
<1> QED
  BY <1>1, <1>3, <1>4, <1>6, <1>7 DEF PagerInv

\* PagerInv is inductive.
LEMMA NextInv == PagerInv /\ [Next]_vars => PagerInv'
<1> SUFFICES ASSUME PagerInv, [Next]_vars PROVE PagerInv'
  OBVIOUS
<1>1. CASE UNCHANGED vars
  BY <1>1, StutterInv
<1>2. CASE PowerLoss
  BY <1>2, PowerLossStep
<1>3. ASSUME NEW c \in Connections, Step(c) \/ Call(c) \/ Crash(c) PROVE PagerInv'
  BY <1>3, StepInv
<1> QED
  BY <1>1, <1>2, <1>3 DEF Next

-----------------------------------------------------------------------------
(* Theorems *)

\* PagerInv holds in every state: the values have their types, at most one
\* connection is between RESERVED and the end of its transaction and only the
\* holder of EXCLUSIVE touches the database file (sqlite3PagerBegin,
\* pagerLockDb), and what the file and its journal lack of the database is
\* always synced in the journal (syncJournal before pager_write_pagelist).
THEOREM PagerInvariant == Spec => []PagerInv
<1>1. Init => PagerInv
  BY InitInv
<1> QED
  BY <1>1, NextInv, PTL DEF Spec

\* The change counter tells a stale cache (sqlite3PagerSharedLock).
THEOREM CounterTells == Spec => []CounterTellsStaleness
<1>1. PagerInv => CounterTellsStaleness
  BY DEF PagerInv, Conn, Outside, Agrees, Counter, CounterTellsStaleness
<1> QED
  BY <1>1, PagerInvariant, PTL

\* What the connections see, and what that is: nothing outside a transaction,
\* and the database from the end of sqlite3PagerSharedLock on.
SeenBy ==
  [c \in Connections |->
     IF eState[c] \in {"reader", "locked"} THEN Seen(c)
     ELSE IF eState[c] = "open" THEN Nothing ELSE Database]
View == [c \in Connections |-> IF eState[c] = "open" THEN Nothing ELSE Database]

\* A reader's cache and the file behind it are the database.
LEMMA ViewIs ==
  PagerInv => SeenBy = View /\ Database \in [Pages -> 0 .. MaxTxns] /\ Database # Nothing
<1> SUFFICES ASSUME PagerInv
             PROVE  SeenBy = View /\ Database \in [Pages -> 0 .. MaxTxns] /\ Database # Nothing
  OBVIOUS
<1>1. ASSUME NEW c \in Connections, eState[c] \in {"reader", "locked"} PROVE Seen(c) = Database
  <2>1. Types /\ Files /\ Kept(journal) = {} /\ Outside(c)
    BY <1>1 DEF PagerInv, Conn, Quiet
  <2>2. \A p \in Pages : db[p] = Database[p] /\ cache[c][p] \in {NotCached, Database[p]}
    BY <1>1, <2>1, NothingKept DEF Outside, Agrees
  <2>3. Database = [p \in Pages |-> Database[p]]
    BY <2>1 DEF Files
  <2>4. Seen(c) = [p \in Pages |-> Database[p]]
    BY <2>2 DEF Seen
  <2> QED
    BY <2>3, <2>4
<1>2. Database \in [Pages -> 0 .. MaxTxns]
  BY DEF PagerInv, Files, Written
<1>3. SeenBy = View
  BY <1>1 DEF SeenBy, View
<1> QED
  BY <1>2, <1>3, PagerAssumption

\* A step that changes neither the database nor what a power loss may bring
\* back begins a transaction of one connection, ends it, or is not seen.
LEMMA ViewStep ==
  ASSUME PagerInv, PagerInv', NEW c \in Connections, Step(c) \/ Call(c) \/ Crash(c),
         Database' = Database
  PROVE  \/ View' = View
         \/ View[c] = Nothing /\ View' = [View EXCEPT ![c] = Database]
         \/ View[c] # Nothing /\ View' = [View EXCEPT ![c] = Nothing]
<1>1. \A d \in Connections : d # c => eState'[d] = eState[d]
  BY OwnStep DEF SameOwn, PagerInv
<1>2. \A d \in Connections : d # c => View'[d] = View[d]
  BY <1>1 DEF View
<1>3. /\ View[c] = IF eState[c] = "open" THEN Nothing ELSE Database
      /\ View'[c] = IF eState'[c] = "open" THEN Nothing ELSE Database
  BY DEF View
<1>4. View = [d \in Connections |-> View[d]] /\ View' = [d \in Connections |-> View'[d]]
  BY DEF View
<1>5. Database # Nothing
  BY ViewIs
<1>6. CASE View'[c] = View[c]
  BY <1>2, <1>4, <1>6
<1>7. CASE View[c] = Nothing /\ View'[c] = Database
  BY <1>2, <1>4, <1>7
<1>8. CASE View[c] = Database /\ View'[c] = Nothing
  BY <1>2, <1>4, <1>5, <1>8
<1> QED
  BY <1>3, <1>6, <1>7, <1>8

\* A commit is made by the only connection that sees anything.
LEMMA CommitView ==
  ASSUME PagerInv, NEW c \in Connections, Commits(c)
  PROVE  /\ View[c] # Nothing
         /\ \A d \in Connections \ {c} : View[d] = Nothing
         /\ View' = [View EXCEPT ![c] = Database']
<1>1. /\ eState[c] # "open" /\ eState'[c] # "open"
      /\ \A d \in Connections : d # c => eState[d] = "open" /\ eState'[d] = "open"
  BY DEF Commits
<1> QED
  BY <1>1, ViewIs DEF View

\* The pager implements the atomic store: readers see one committed state
\* from beginning to end, whatever a writer, a rollback, a process that died
\* or a power loss has left in the files (pager_playback, hasHotJournal,
\* sqlite3PagerCommitPhaseTwo).
THEOREM Atomic == Spec => IsAtomic
<1>1. Init => Store!Init
  <2> SUFFICES ASSUME Init PROVE Store!Init
    OBVIOUS
  <2>1. PagerInv /\ Database = [p \in Pages |-> 0] /\ Past = {}
    BY InitInv
  <2>2. View = [c \in Connections |-> Nothing]
    BY DEF View, Init
  <2>3. SeenBy = [c \in Connections |-> Nothing]
    BY <2>1, <2>2, ViewIs
  <2> QED
    BY <2>1, <2>3 DEF Store!Init, Past, SeenBy
<1>2. PagerInv' => (SeenBy = View /\ Database \in [Pages -> 0 .. MaxTxns] /\ Database # Nothing)'
  BY ViewIs, PTL
<1>3. PagerInv /\ PagerInv' /\ [Next]_vars => [Store!Next]_(Store!vars)
  <2> SUFFICES ASSUME PagerInv, PagerInv', [Next]_vars PROVE [Store!Next]_(Store!vars)
    OBVIOUS
  <2>1. /\ SeenBy = View /\ SeenBy' = View'
        /\ Database' \in [Pages -> 0 .. MaxTxns]
    BY <1>2, ViewIs
  <2>2. ASSUME NEW c \in Connections, Step(c) \/ Call(c) \/ Crash(c),
               Database' = Database, Past' = Past
        PROVE  [Store!Next]_(Store!vars)
    <3>1. CASE View' = View
      BY <2>1, <2>2, <3>1 DEF Store!vars, SeenBy, Past
    <3>2. CASE View[c] = Nothing /\ View' = [View EXCEPT ![c] = Database]
      <4>1. Store!Begin(c)
        BY <2>1, <2>2, <3>2 DEF Store!Begin, SeenBy, Past
      <4> QED
        BY <4>1 DEF Store!Next
    <3>3. CASE View[c] # Nothing /\ View' = [View EXCEPT ![c] = Nothing]
      <4>1. Store!End(c)
        BY <2>1, <2>2, <3>3 DEF Store!End, SeenBy, Past
      <4> QED
        BY <4>1 DEF Store!Next
    <3> QED
      BY <2>2, <3>1, <3>2, <3>3, ViewStep
  <2>3. ASSUME NEW c \in Connections, SyncRecords(c) PROVE Store!Next
    <3>1. Changes(c) /\ undeleted' = {}
      BY <2>3, SyncRecordsStep
    <3>2. Database' = Database /\ Past' = {}
      BY <3>1 DEF Changes, FilesStill, Past
    <3>3. View' = View
      BY <2>3, <3>2 DEF SyncRecords, View
    <3>4. Store!Settle
      BY <2>1, <3>2, <3>3 DEF Store!Settle, SeenBy, Past
    <3> QED
      BY <3>4 DEF Store!Next
  <2>4. ASSUME NEW c \in Connections, CommitPhaseTwo(c) PROVE Store!Next
    <3>1. Commits(c)
      BY <2>4, CommitPhaseTwoStep
    <3>2. Past' = {Database} \ {Database'}
      BY <3>1 DEF Commits
    <3>3. Store!Commit(c)
      BY <2>1, <3>1, <3>2, CommitView DEF Store!Commit, SeenBy, Past
    <3> QED
      BY <3>3 DEF Store!Next
  <2>5. CASE PowerLoss
    <3>1. Database' \in {Database} \cup Past /\ Past' = {}
      BY <2>5, PowerLossStep
    <3>2. View' = [c \in Connections |-> Nothing]
      BY <2>5 DEF PowerLoss, View
    <3>3. Store!PowerLoss
      BY <2>1, <3>1, <3>2 DEF Store!PowerLoss, SeenBy, Past
    <3> QED
      BY <3>3 DEF Store!Next
  <2>6. CASE UNCHANGED vars
    <3>1. Database' = Database /\ Past' = Past /\ UNCHANGED eState
      BY <2>6, StutterInv
    <3>2. View' = View
      BY <3>1 DEF View
    <3> QED
      BY <2>1, <3>1, <3>2 DEF Store!vars, SeenBy, Past
  <2>7. ASSUME NEW c \in Connections, Step(c) \/ Call(c) \/ Crash(c)
        PROVE  [Store!Next]_(Store!vars)
    <3>1. CASE Reads(c)
      BY <2>2, <2>7, <3>1, ReadsKept
    <3>2. CASE Changes(c) /\ Past' = Past
      BY <2>2, <2>7, <3>2 DEF Changes, FilesStill
    <3>3. CASE SyncRecords(c)
      BY <2>3, <3>3
    <3>4. CASE CommitPhaseTwo(c)
      BY <2>4, <3>4
    <3> QED
      BY <2>7, <3>1, <3>2, <3>3, <3>4, StepsAre
  <2> QED
    BY <2>5, <2>6, <2>7 DEF Next
<1> QED
  BY <1>1, <1>3, PagerInvariant, PTL DEF Spec, IsAtomic, Store!Spec
=============================================================================
