-------------------------- MODULE BoostCacheProofs --------------------------
(***************************************************************************)
(* Proofs about BoostCache for every set of clones, toolchains and every   *)
(* number of pieces of the Boost tree.                                     *)
(*                                                                         *)
(* SourceComplete is not inductive: file(RENAME) publishes whatever is in  *)
(* boost_unzip.  UnzipInv says what is there at each step of the clone     *)
(* that owns the folder, and Solo that only one clone does.                *)
(***************************************************************************)
EXTENDS BoostCache, TLAPS

\* No two clones configure in one directory at the same time.
Solo ==
  \A c, o \in Clones :
    c # o /\ BoostCacheDir(c) = BoostCacheDir(o) => ~(Running(c) /\ Running(o))

\* What a clone's extraction folder holds at each step of its extraction.
UnzipInv ==
  \A c \in Clones :
    /\ pc[c] \in {"copy", "tar"} => Unzip(c).tree = {}
    /\ pc[c] = "extracting" => Unzip(c).tree = 1 .. progress[c]
    /\ pc[c] \in {"rmtar", "glob", "rename"} => Unzip(c).tree = Parts

\* The inductive invariant.
SourceInv == TypeOK /\ Solo /\ UnzipInv /\ SourceComplete

\* Either developers take turns in a directory or no directory is shared.
Exclusive ==
  Overlap => \A c, o \in Clones :
                c # o => BoostCacheDir(c) # BoostCacheDir(o)

-----------------------------------------------------------------------------
(* Types *)

\* A clone's Boost directory is one of the modelled directories
\* (add_boost.cmake:48-75).
LEMMA DirType ==
  ASSUME NEW c \in Clones
  PROVE  BoostCacheDir(c) \in Dirs /\ Toolchain[c] \in Toolchains
BY BoostAssumption DEF BoostCacheDir, Dirs

\* What a step writes to one clone's state keeps the types.
LEMMA WriteTypes ==
  ASSUME TypeOK, NEW c \in Clones
  PROVE  /\ Unzip(c) \in UnzipFolder /\ Source(c) \in SourceFolder
         /\ \A l \in Resting \cup Busy :
              Goto(c, l) => pc' \in [Clones -> Resting \cup Busy]
         /\ \A u \in UnzipFolder :
              SetUnzip(c, u) => unzip' \in [Dirs -> UnzipFolder]
         /\ \A s \in SourceFolder :
              SetSource(c, s) => src' \in [Dirs -> [Toolchains -> SourceFolder]]
<1>0. BoostCacheDir(c) \in Dirs /\ Toolchain[c] \in Toolchains
  BY DirType
<1>1. Unzip(c) \in UnzipFolder
  BY <1>0 DEF TypeOK, Unzip
<1>2. Source(c) \in SourceFolder
  BY <1>0 DEF TypeOK, Source
<1>3. ASSUME NEW l \in Resting \cup Busy, Goto(c, l)
      PROVE  pc' \in [Clones -> Resting \cup Busy]
  BY <1>3 DEF TypeOK, Goto
<1>4. ASSUME NEW u \in UnzipFolder, SetUnzip(c, u)
      PROVE  unzip' \in [Dirs -> UnzipFolder]
  BY <1>0, <1>4 DEF TypeOK, SetUnzip
<1>5. ASSUME NEW s \in SourceFolder, SetSource(c, s)
      PROVE  src' \in [Dirs -> [Toolchains -> SourceFolder]]
  BY <1>0, <1>5 DEF TypeOK, SetSource
<1> QED
  BY <1>1, <1>2, <1>3, <1>4, <1>5

\* No step leaves the types.
LEMMA TypeStep == TypeOK /\ [Next]_vars => TypeOK'
<1> SUFFICES ASSUME TypeOK, [Next]_vars PROVE TypeOK'
  OBVIOUS
<1>1. ASSUME NEW c \in Clones, Start(c) PROVE TypeOK'
  BY <1>1, WriteTypes DEF TypeOK, Busy, Start, local, files
<1>2. ASSUME NEW c \in Clones, Configure(c) PROVE TypeOK'
  <2>0. BoostCacheDir(c) \in Dirs /\ Toolchain[c] \in Toolchains
    BY DirType
  <2>1. CASE Download(c)
    <3>1. Goto(c, "downloaded") \/ Goto(c, "downloading")
      BY <2>1 DEF Download
    <3>2. fresh' \in [Clones -> BOOLEAN]
      BY <2>1 DEF TypeOK, Download
    <3>3. zip' \in [Dirs -> Content] /\ writer' \in [Dirs -> Clones \cup {NoClone}]
      BY <2>0, <2>1 DEF TypeOK, Download, Content
    <3> QED
      BY <2>1, <3>1, <3>2, <3>3, WriteTypes DEF TypeOK, Busy, Download
  <2>2. CASE EndDownload(c)
    BY <2>0, <2>2 DEF TypeOK, Resting, Busy, Content, EndDownload, Goto, Zip
  <2>3. CASE CheckExtract(c)
    BY <2>3, WriteTypes DEF TypeOK, Busy, CheckExtract, local, files
  <2>4. CASE RemoveExtractFolder(c)
    <3>1. EmptyUnzip \in UnzipFolder
      BY DEF EmptyUnzip, UnzipFolder, Content
    <3> QED
      BY <2>4, <3>1, WriteTypes DEF TypeOK, Busy, RemoveExtractFolder
  <2>5. CASE CopyZip(c)
    <3>1. [Unzip(c) EXCEPT !.tar = Zip(c)] \in UnzipFolder
      BY <2>0, WriteTypes DEF TypeOK, UnzipFolder, Zip
    <3>2. unzip' \in [Dirs -> UnzipFolder]
      BY <2>5, <3>1, WriteTypes DEF CopyZip, TypeOK
    <3>3. Goto(c, "failed") \/ Goto(c, "tar")
      BY <2>5 DEF CopyZip
    <3> QED
      BY <2>5, <3>2, <3>3, WriteTypes DEF TypeOK, Resting, Busy, CopyZip, local
  <2>6. CASE StartTar(c)
    <3>1. Goto(c, "failed") \/ Goto(c, "extracting")
      BY <2>6 DEF StartTar
    <3>2. progress' \in [Clones -> 0 .. NumParts]
      BY <2>6, BoostAssumption DEF TypeOK, StartTar
    <3>3. cwd' \in [Clones -> BOOLEAN]
      BY <2>6 DEF TypeOK, StartTar
    <3> QED
      BY <2>6, <3>1, <3>2, <3>3, WriteTypes
      DEF TypeOK, Resting, Busy, StartTar, files
  <2>7. CASE ExtractPart(c)
    <3>1. progress[c] + 1 \in Parts
      BY <2>7, BoostAssumption DEF TypeOK, ExtractPart, Parts
    <3>2. [Unzip(c) EXCEPT !.tree = @ \cup {progress[c] + 1}] \in UnzipFolder
      BY <3>1, WriteTypes DEF UnzipFolder
    <3>3. unzip' \in [Dirs -> UnzipFolder]
      BY <2>7, <3>2, WriteTypes DEF ExtractPart, TypeOK
    <3>4. progress' \in [Clones -> 0 .. NumParts]
      BY <2>7, BoostAssumption DEF TypeOK, ExtractPart
    <3>5. pc' \in [Clones -> Resting \cup Busy]
      BY <2>7, WriteTypes DEF TypeOK, Resting, ExtractPart
    <3> QED
      BY <2>7, <3>3, <3>4, <3>5 DEF TypeOK, ExtractPart
  <2>8. CASE EndTar(c)
    BY <2>8, WriteTypes DEF TypeOK, Busy, EndTar, local, files
  <2>9. CASE RemoveTar(c)
    <3>1. [Unzip(c) EXCEPT !.tar = "absent"] \in UnzipFolder
      BY WriteTypes DEF UnzipFolder, Content
    <3> QED
      BY <2>9, <3>1, WriteTypes DEF TypeOK, Busy, RemoveTar, local
  <2>10. CASE GlobExtracted(c)
    BY <2>10, WriteTypes DEF TypeOK, Resting, Busy, GlobExtracted, local, files
  <2>11. CASE RenameExtracted(c)
    <3>1. /\ [Unzip(c) EXCEPT !.tree = {}] \in UnzipFolder
          /\ [Source(c) EXCEPT !.tree = Unzip(c).tree] \in SourceFolder
      BY WriteTypes DEF UnzipFolder, SourceFolder
    <3>2. /\ unzip' \in [Dirs -> UnzipFolder]
          /\ src' \in [Dirs -> [Toolchains -> SourceFolder]]
      BY <2>11, <3>1, WriteTypes DEF RenameExtracted, TypeOK
    <3>3. Goto(c, "failed") \/ Goto(c, "cleanup")
      BY <2>11 DEF RenameExtracted
    <3> QED
      BY <2>11, <3>2, <3>3, WriteTypes
      DEF TypeOK, Resting, Busy, RenameExtracted, local
  <2>12. CASE FindB2(c)
    BY <2>12, WriteTypes DEF TypeOK, Busy, FindB2, local, files
  <2>13. CASE Bootstrap(c)
    <3>1. [Source(c) EXCEPT !.b2 = TRUE] \in SourceFolder
      BY WriteTypes DEF SourceFolder
    <3> QED
      BY <2>13, <3>1, WriteTypes DEF TypeOK, Busy, Bootstrap, local
  <2>14. CASE PatchSource(c)
    <3>1. [Source(c) EXCEPT !.patched = TRUE] \in SourceFolder
      BY WriteTypes DEF SourceFolder
    <3> QED
      BY <2>14, <3>1, WriteTypes DEF TypeOK, Busy, PatchSource, local
  <2>15. CASE WriteUserConfig(c)
    <3>1. [Source(c) EXCEPT !.config = Compiler[c]] \in SourceFolder
      BY WriteTypes, BoostAssumption DEF SourceFolder
    <3> QED
      BY <2>15, <3>1, WriteTypes DEF TypeOK, Resting, WriteUserConfig, local
  <2> QED
    BY <1>2, <2>1, <2>2, <2>3, <2>4, <2>5, <2>6, <2>7, <2>8, <2>9, <2>10,
       <2>11, <2>12, <2>13, <2>14, <2>15 DEF Configure
<1>3. ASSUME NEW c \in Clones, Interrupt(c) PROVE TypeOK'
  BY <1>3, WriteTypes, BoostAssumption
  DEF TypeOK, Resting, Interrupt, local, files
<1>4. ASSUME NEW d \in Dirs, LoseZip(d) PROVE TypeOK'
  BY <1>4, BoostAssumption DEF TypeOK, Content, LoseZip, local
<1>5. CASE UNCHANGED vars
  BY <1>5 DEF vars, TypeOK
<1> QED
  BY <1>1, <1>2, <1>3, <1>4, <1>5 DEF Next

\* The state of every configure run and of every directory keeps its type.
THEOREM TypeCorrect == Spec => []TypeOK
<1>1. Init => TypeOK
  BY BoostAssumption
  DEF Init, TypeOK, Resting, Busy, Content, EmptyUnzip, NoSource, Dirs,
      UnzipFolder, SourceFolder
<1> QED
  BY <1>1, TypeStep, PTL DEF Spec

-----------------------------------------------------------------------------
(* One clone at a time *)

\* Only Start makes a clone Running, and it waits for its neighbours.
LEMMA SoloStep ==
  ASSUME Exclusive, TypeOK, Solo, [Next]_vars
  PROVE  Solo'
<1>1. ASSUME NEW c \in Clones, Start(c) PROVE Solo'
  <2> SUFFICES ASSUME NEW p \in Clones, NEW o \in Clones, p # o,
                      BoostCacheDir(p) = BoostCacheDir(o),
                      Running(p)', Running(o)'
               PROVE  FALSE
    BY DEF Solo, BoostCacheDir
  <2>1. ~Overlap
    BY DEF Exclusive
  <2>2. \A q \in Clones \ {c} : pc'[q] = pc[q]
    BY <1>1 DEF TypeOK, Start, Goto
  <2>3. CASE p = c
    BY <1>1, <2>1, <2>2, <2>3 DEF Start, Running
  <2>4. CASE o = c
    BY <1>1, <2>1, <2>2, <2>4 DEF Start, Running
  <2>5. CASE p # c /\ o # c
    BY <2>2, <2>5 DEF Solo, Running
  <2> QED
    BY <2>3, <2>4, <2>5
<1>2. ASSUME NEW c \in Clones, Configure(c) \/ Interrupt(c) PROVE Solo'
  <2>1. Running(c) /\ \A q \in Clones \ {c} : pc'[q] = pc[q]
    BY <1>2 DEF TypeOK, Configure, Download, EndDownload, CheckExtract,
       RemoveExtractFolder, CopyZip, StartTar, ExtractPart, EndTar, RemoveTar,
       GlobExtracted, RenameExtracted, FindB2, Bootstrap, PatchSource, WriteUserConfig,
       Interrupt, Goto, Running, Busy
  <2> QED
    BY <2>1 DEF Solo, Running, BoostCacheDir
<1>3. ASSUME pc' = pc PROVE Solo'
  BY <1>3 DEF Solo, Running, BoostCacheDir
<1> QED
  BY <1>1, <1>2, <1>3 DEF Next, LoseZip, vars

-----------------------------------------------------------------------------
(* The extraction folder and the source tree *)

\* The neighbours of a clone that is running are not extracting: what it does
\* to the shared folder leaves their part of the invariant alone.
LEMMA OthersKept ==
  ASSUME TypeOK, Solo, UnzipInv, NEW c \in Clones, Running(c),
         \A o \in Clones \ {c} : pc'[o] = pc[o] /\ progress'[o] = progress[o],
         \A d \in Dirs \ {BoostCacheDir(c)} : unzip'[d] = unzip[d],
         pc'[c] \in {"copy", "tar"} => Unzip(c)'.tree = {},
         pc'[c] = "extracting" => Unzip(c)'.tree = 1 .. progress'[c],
         pc'[c] \in {"rmtar", "glob", "rename"} => Unzip(c)'.tree = Parts
  PROVE  UnzipInv'
<1> SUFFICES ASSUME NEW o \in Clones, o # c
             PROVE  /\ pc'[o] \in {"copy", "tar"} => Unzip(o)'.tree = {}
                    /\ pc'[o] = "extracting" => Unzip(o)'.tree = 1 .. progress'[o]
                    /\ pc'[o] \in {"rmtar", "glob", "rename"} =>
                         Unzip(o)'.tree = Parts
  BY DEF UnzipInv, Parts
<1>1. CASE BoostCacheDir(o) = BoostCacheDir(c)
  <2>1. pc[o] \notin Busy
    BY <1>1 DEF Solo, Running
  <2> QED
    BY <2>1 DEF Busy
<1>2. CASE BoostCacheDir(o) # BoostCacheDir(c)
  <2>1. Unzip(o)' = Unzip(o)
    BY <1>2, DirType DEF Unzip, BoostCacheDir
  <2> QED
    BY <2>1 DEF UnzipInv
<1> QED
  BY <1>1, <1>2

\* Every step of a configure run keeps the extraction folder in step with it.
LEMMA UnzipStep ==
  ASSUME TypeOK, Solo, UnzipInv, [Next]_vars
  PROVE  UnzipInv'
<1>1. ASSUME NEW c \in Clones, Start(c) PROVE UnzipInv'
  BY <1>1 DEF TypeOK, UnzipInv, Start, Goto, local, files, Unzip, Parts,
     BoostCacheDir
<1>2. ASSUME NEW c \in Clones, Configure(c) PROVE UnzipInv'
  <2> DEFINE d == BoostCacheDir(c)
  <2>0. d \in Dirs /\ Unzip(c) \in UnzipFolder
    BY DirType, WriteTypes
  <2>a. Running(c)
    BY <1>2 DEF Configure, Download, EndDownload, CheckExtract,
       RemoveExtractFolder, CopyZip, StartTar, ExtractPart, EndTar, RemoveTar,
       GlobExtracted, RenameExtracted, FindB2, Bootstrap, PatchSource, WriteUserConfig,
       Running, Busy
  <2>b. \A o \in Clones \ {c} : pc'[o] = pc[o] /\ progress'[o] = progress[o]
    BY <1>2 DEF TypeOK, Configure, Download, EndDownload, CheckExtract,
       RemoveExtractFolder, CopyZip, StartTar, ExtractPart, EndTar, RemoveTar,
       GlobExtracted, RenameExtracted, FindB2, Bootstrap, PatchSource, WriteUserConfig,
       Goto, local, files
  <2>c. \A e \in Dirs \ {d} : unzip'[e] = unzip[e]
    BY <1>2, <2>0 DEF TypeOK, Configure, Download, EndDownload, CheckExtract,
       RemoveExtractFolder, CopyZip, StartTar, ExtractPart, EndTar, RemoveTar,
       GlobExtracted, RenameExtracted, FindB2, Bootstrap, PatchSource, WriteUserConfig,
       SetUnzip, local, files
  <2>d. /\ pc'[c] \in {"copy", "tar"} => Unzip(c)'.tree = {}
        /\ pc'[c] = "extracting" => Unzip(c)'.tree = 1 .. progress'[c]
        /\ pc'[c] \in {"rmtar", "glob", "rename"} => Unzip(c)'.tree = Parts
    <3> USE <2>0 DEF TypeOK, Goto
    <3>1. CASE Download(c) \/ EndDownload(c) \/ CheckExtract(c)
      BY <3>1 DEF Download, EndDownload, CheckExtract
    <3>2. CASE RemoveExtractFolder(c)
      BY <3>2 DEF RemoveExtractFolder, SetUnzip, Unzip, EmptyUnzip, BoostCacheDir
    <3>3. CASE CopyZip(c)
      <4>1. Unzip(c).tree = {}
        BY <3>3 DEF CopyZip, UnzipInv
      <4>2. CASE UNCHANGED unzip
        BY <3>3, <4>1, <4>2 DEF CopyZip, Unzip, BoostCacheDir
      <4>3. CASE SetUnzip(c, [Unzip(c) EXCEPT !.tar = Zip(c)])
        <5>1. Unzip(c)' = [Unzip(c) EXCEPT !.tar = Zip(c)]
          BY <4>3 DEF SetUnzip, Unzip, BoostCacheDir
        <5>2. Unzip(c)'.tree = Unzip(c).tree
          BY <5>1 DEF UnzipFolder
        <5>3. pc'[c] \in {"failed", "tar"}
          BY <3>3 DEF CopyZip
        <5> QED
          BY <4>1, <5>2, <5>3
      <4> QED
        BY <3>3, <4>1, <4>2, <4>3 DEF CopyZip
    <3>4. CASE StartTar(c)
      <4>1. Unzip(c).tree = {}
        BY <3>4 DEF StartTar, UnzipInv
      <4>2. Unzip(c)' = Unzip(c)
        BY <3>4 DEF StartTar, files, Unzip, BoostCacheDir
      <4>3. 1 .. 0 = {}
        OBVIOUS
      <4> QED
        BY <3>4, <4>1, <4>2, <4>3 DEF StartTar
    <3>5. CASE ExtractPart(c)
      <4>1. Unzip(c).tree = 1 .. progress[c]
        BY <3>5 DEF ExtractPart, UnzipInv
      <4>2. CASE pc' = pc
        <5>1. Unzip(c)'.tree = Unzip(c).tree \cup {progress[c] + 1}
          BY <3>5, <4>2 DEF ExtractPart, SetUnzip, Unzip, UnzipFolder, BoostCacheDir
        <5>2. progress'[c] = progress[c] + 1
          BY <3>5, <4>2 DEF ExtractPart
        <5>3. progress[c] \in Nat
          BY BoostAssumption
        <5>4. (1 .. progress[c]) \cup {progress[c] + 1} = 1 .. (progress[c] + 1)
          BY <5>3
        <5>5. pc'[c] = "extracting"
          BY <3>5, <4>2 DEF ExtractPart
        <5> QED
          BY <4>1, <5>1, <5>2, <5>4, <5>5
      <4>3. CASE pc'[c] = "failed"
        BY <4>3
      <4> QED
        BY <3>5, <4>2, <4>3 DEF ExtractPart
    <3>6. CASE EndTar(c)
      <4>1. Unzip(c).tree = 1 .. NumParts
        BY <3>6 DEF EndTar, UnzipInv
      <4> QED
        BY <3>6, <4>1 DEF EndTar, files, Unzip, BoostCacheDir, Parts
    <3>7. CASE RemoveTar(c)
      <4>1. Unzip(c).tree = Parts
        BY <3>7 DEF RemoveTar, UnzipInv
      <4> QED
        BY <3>7, <4>1 DEF RemoveTar, SetUnzip, Unzip, UnzipFolder, BoostCacheDir
    <3>8. CASE GlobExtracted(c)
      <4>1. Unzip(c).tree = Parts
        BY <3>8 DEF GlobExtracted, UnzipInv
      <4> QED
        BY <3>8, <4>1 DEF GlobExtracted, files, Unzip, BoostCacheDir
    <3>9. CASE \/ RenameExtracted(c) \/ FindB2(c)
               \/ Bootstrap(c) \/ PatchSource(c) \/ WriteUserConfig(c)
      BY <3>9 DEF RenameExtracted, FindB2, Bootstrap, PatchSource,
         WriteUserConfig
    <3> QED
      BY <1>2, <3>1, <3>2, <3>3, <3>4, <3>5, <3>6, <3>7, <3>8, <3>9
      DEF Configure
  <2> QED
    BY <2>a, <2>b, <2>c, <2>d, OthersKept
<1>3. ASSUME NEW c \in Clones, Interrupt(c) PROVE UnzipInv'
  BY <1>3 DEF TypeOK, UnzipInv, Interrupt, Goto, local, files, Unzip, Parts,
     BoostCacheDir
<1>4. ASSUME pc' = pc, progress' = progress, unzip' = unzip PROVE UnzipInv'
  BY <1>4 DEF UnzipInv, Unzip, Parts, BoostCacheDir
<1> QED
  BY <1>1, <1>2, <1>3, <1>4 DEF Next, LoseZip, local, vars

\* A write to a clone's source folder touches no other folder.
LEMMA SetSourceAt ==
  ASSUME TypeOK, NEW c \in Clones, NEW s, SetSource(c, s),
         NEW d \in Dirs, NEW t \in Toolchains
  PROVE  src'[d][t] = IF d = BoostCacheDir(c) /\ t = Toolchain[c]
                      THEN s ELSE src[d][t]
BY DirType DEF TypeOK, SetSource

\* bootstrap.sh, the patches and the configuration leave the extracted tree.
LEMMA TreeKept ==
  ASSUME TypeOK, NEW c \in Clones,
         Bootstrap(c) \/ PatchSource(c) \/ WriteUserConfig(c),
         NEW d \in Dirs, NEW t \in Toolchains
  PROVE  src'[d][t].tree = src[d][t].tree
<1>1. Source(c) \in SourceFolder
  BY WriteTypes
<1>2. PICK s : SetSource(c, s) /\ s.tree = Source(c).tree
  <2>1. /\ [Source(c) EXCEPT !.b2 = TRUE].tree = Source(c).tree
        /\ [Source(c) EXCEPT !.patched = TRUE].tree = Source(c).tree
        /\ [Source(c) EXCEPT !.config = Compiler[c]].tree = Source(c).tree
    BY <1>1 DEF SourceFolder
  <2> QED
    BY <2>1 DEF Bootstrap, PatchSource, WriteUserConfig
<1> QED
  BY <1>2, SetSourceAt DEF Source

\* Only file(RENAME) changes a source tree, and it publishes a whole one.
LEMMA SourceStep ==
  ASSUME TypeOK, UnzipInv, SourceComplete, [Next]_vars
  PROVE  SourceComplete'
<1> SUFFICES ASSUME NEW d \in Dirs, NEW t \in Toolchains
             PROVE  src'[d][t].tree \in {{}, Parts}
  BY DEF SourceComplete, Parts, Dirs
<1>1. ASSUME NEW c \in Clones, RenameExtracted(c)
      PROVE  src'[d][t].tree \in {{}, Parts}
  <2>1. Unzip(c).tree = Parts
    BY <1>1 DEF RenameExtracted, UnzipInv
  <2>2. CASE src' = src
    BY <2>2 DEF SourceComplete
  <2>3. CASE SetSource(c, [Source(c) EXCEPT !.tree = Unzip(c).tree])
    BY <2>1, <2>3, WriteTypes, DirType
    DEF TypeOK, SourceComplete, SetSource, Source, SourceFolder
  <2> QED
    BY <1>1, <2>2, <2>3 DEF RenameExtracted
<1>2. ASSUME NEW c \in Clones, \/ Bootstrap(c) \/ PatchSource(c)
                                \/ WriteUserConfig(c)
      PROVE  src'[d][t].tree \in {{}, Parts}
  BY <1>2, TreeKept DEF SourceComplete
<1>3. CASE src' = src
  BY <1>3 DEF SourceComplete
<1> QED
  BY <1>1, <1>2, <1>3
  DEF Next, Start, Configure, Download, EndDownload, CheckExtract,
      RemoveExtractFolder, CopyZip, StartTar, ExtractPart, EndTar, RemoveTar,
      GlobExtracted, FindB2, Interrupt, LoseZip, local, files, vars

\* However often CMake is killed and whatever is deleted, a folder found at
\* BoostSourceDir is the whole Boost tree (add_boost.cmake:127-152), provided
\* that clones sharing a directory configure one after the other: the race run
\* shows that this hypothesis cannot be dropped.
THEOREM SourceIsComplete == ASSUME Exclusive PROVE Spec => []SourceComplete
<1>1. Init => SourceInv
  <2>1. Init => TypeOK
    BY BoostAssumption
    DEF Init, TypeOK, Resting, Busy, Content, EmptyUnzip, NoSource, Dirs,
        UnzipFolder, SourceFolder
  <2>2. Init => Solo /\ UnzipInv
    BY DEF Init, Solo, UnzipInv, Running, Busy
  <2>3. Init => SourceComplete
    BY DEF Init, SourceComplete, NoSource
  <2> QED
    BY <2>1, <2>2, <2>3 DEF SourceInv
<1>2. SourceInv /\ [Next]_vars => SourceInv'
  BY TypeStep, SoloStep, UnzipStep, SourceStep DEF SourceInv
<1>3. SourceInv => SourceComplete
  BY DEF SourceInv
<1> QED
  BY <1>1, <1>2, <1>3, PTL DEF Spec

-----------------------------------------------------------------------------
(* What a finished run leaves *)

\* What a configure run may rely on from the rename on: the tree is there, after
\* bootstrap.sh so is b2, then the patches, and at the end a user-config.jam.
FromRename == {"cleanup", "b2", "bootstrap", "patch", "config", "configured"}
Ready ==
  \A c \in Clones :
    /\ pc[c] \in FromRename => Source(c).tree # {}
    /\ pc[c] \in {"patch", "config", "configured"} => Source(c).b2 = TRUE
    /\ pc[c] \in {"config", "configured"} => Source(c).patched = TRUE
    /\ pc[c] = "configured" => Source(c).config # NoCompiler

\* Nobody takes anything away from a source folder.
LEMMA SourceGrows ==
  ASSUME TypeOK, [Next]_vars, NEW d \in Dirs, NEW t \in Toolchains
  PROVE  /\ src[d][t].tree # {} => src'[d][t].tree # {}
         /\ src[d][t].b2 = TRUE => src'[d][t].b2 = TRUE
         /\ src[d][t].patched = TRUE => src'[d][t].patched = TRUE
         /\ src[d][t].config # NoCompiler => src'[d][t].config # NoCompiler
<1> DEFINE Grown == /\ src[d][t].tree # {} => src'[d][t].tree # {}
                    /\ src[d][t].b2 = TRUE => src'[d][t].b2 = TRUE
                    /\ src[d][t].patched = TRUE => src'[d][t].patched = TRUE
                    /\ src[d][t].config # NoCompiler =>
                         src'[d][t].config # NoCompiler
<1>1. ASSUME NEW c \in Clones, RenameExtracted(c), src' # src PROVE Grown
  <2>1. /\ SetSource(c, [Source(c) EXCEPT !.tree = Unzip(c).tree]) /\ Unzip(c).tree # {}
        /\ Source(c) \in SourceFolder
    BY <1>1, WriteTypes DEF RenameExtracted
  <2> QED
    BY <2>1, SetSourceAt DEF Source, SourceFolder
<1>2. ASSUME NEW c \in Clones, \/ Bootstrap(c) \/ PatchSource(c)
                                \/ WriteUserConfig(c)
      PROVE  Grown
  <2>1. Source(c) \in SourceFolder /\ Compiler[c] # NoCompiler
    BY WriteTypes, BoostAssumption
  <2> QED
    BY <1>2, <2>1, SetSourceAt
    DEF Bootstrap, PatchSource, WriteUserConfig, Source, SourceFolder
<1>3. CASE src' = src
  BY <1>3
<1> QED
  BY <1>1, <1>2, <1>3
  DEF Next, Start, Configure, Download, EndDownload, CheckExtract,
      RemoveExtractFolder, CopyZip, StartTar, ExtractPart, EndTar, RemoveTar,
      GlobExtracted, FindB2, Interrupt, LoseZip, local, files, vars

\* A step that takes a clone no further leaves it what it relies on.
LEMMA ReadyKept ==
  ASSUME TypeOK, Ready, [Next]_vars, NEW c \in Clones,
         pc'[c] = pc[c] \/ pc'[c] \in (Resting \cup Busy)
                             \ FromRename
  PROVE  /\ pc'[c] \in FromRename => Source(c)'.tree # {}
         /\ pc'[c] \in {"patch", "config", "configured"} => Source(c)'.b2 = TRUE
         /\ pc'[c] \in {"config", "configured"} => Source(c)'.patched = TRUE
         /\ pc'[c] = "configured" => Source(c)'.config # NoCompiler
<1>1. BoostCacheDir(c) \in Dirs /\ Toolchain[c] \in Toolchains
  BY DirType, BoostAssumption
<1>2. Source(c)' = src'[BoostCacheDir(c)][Toolchain[c]]
  BY DEF Source, BoostCacheDir
<1> QED
  BY <1>1, <1>2, SourceGrows DEF Ready, Source, FromRename

\* Every step of a run prepares the next one.
LEMMA ReadyStep ==
  ASSUME TypeOK, Ready, [Next]_vars
  PROVE  Ready'
<1> DEFINE Rely(c) ==
      /\ pc'[c] \in FromRename => Source(c)'.tree # {}
      /\ pc'[c] \in {"patch", "config", "configured"} => Source(c)'.b2 = TRUE
      /\ pc'[c] \in {"config", "configured"} => Source(c)'.patched = TRUE
      /\ pc'[c] = "configured" => Source(c)'.config # NoCompiler
<1> SUFFICES ASSUME NEW o \in Clones PROVE Rely(o)
  BY DEF Ready
<1>0. BoostCacheDir(o) \in Dirs /\ Toolchain[o] \in Toolchains /\ Source(o) \in SourceFolder
      /\ Source(o)' = src'[BoostCacheDir(o)][Toolchain[o]]
  BY DirType, WriteTypes, BoostAssumption DEF Source, BoostCacheDir
<1>1. ASSUME NEW c \in Clones, c # o, Start(c) \/ Configure(c) \/ Interrupt(c) PROVE Rely(o)
  <2>1. pc'[o] = pc[o]
    BY <1>1 DEF TypeOK, Start, Interrupt, Configure, Download, EndDownload, CheckExtract,
       RemoveExtractFolder, CopyZip, StartTar, ExtractPart, EndTar, RemoveTar,
       GlobExtracted, RenameExtracted, FindB2, Bootstrap, PatchSource, WriteUserConfig, Goto
  <2> QED
    BY <2>1, ReadyKept
<1>2. ASSUME pc' = pc PROVE Rely(o)
  BY <1>2, ReadyKept
<1>3. ASSUME \/ Start(o) \/ Interrupt(o) \/ Download(o) \/ EndDownload(o) \/ CopyZip(o)
             \/ StartTar(o) \/ ExtractPart(o) \/ EndTar(o) \/ RemoveTar(o) \/ GlobExtracted(o)
      PROVE  Rely(o)
  <2>1. pc'[o] \in {"download", "failed", "downloading", "downloaded", "tar", "extracting",
                    "rmtar", "glob", "rename"}
    BY <1>3 DEF TypeOK, Start, Interrupt, Download, EndDownload, CopyZip, StartTar, ExtractPart,
       EndTar, RemoveTar, GlobExtracted, Goto
  <2> QED
    BY <2>1 DEF FromRename
<1>4. ASSUME CheckExtract(o) PROVE Rely(o)
  <2>1. src' = src /\ pc'[o] \in {"clear", "b2"} /\ (pc'[o] = "b2" => IsDirectory(o))
    BY <1>4 DEF TypeOK, CheckExtract, Goto, files
  <2> QED
    BY <1>0, <2>1 DEF IsDirectory, Source, FromRename
<1>5. ASSUME RemoveExtractFolder(o) PROVE Rely(o)
  <2>1. src' = src /\ (pc'[o] = "copy" \/ (pc[o] = "cleanup" /\ pc'[o] = "b2"))
    BY <1>5 DEF TypeOK, RemoveExtractFolder, Goto
  <2> QED
    BY <1>0, <2>1 DEF Ready, Source, FromRename
<1>6. ASSUME RenameExtracted(o) PROVE Rely(o)
  <2>1. CASE pc'[o] = "failed"
    BY <2>1 DEF FromRename
  <2>2. CASE /\ SetSource(o, [Source(o) EXCEPT !.tree = Unzip(o).tree]) /\ Unzip(o).tree # {}
             /\ pc'[o] = "cleanup"
    <3>1. Source(o)' = [Source(o) EXCEPT !.tree = Unzip(o).tree]
      BY <1>0, <2>2, SetSourceAt
    <3> QED
      BY <1>0, <2>2, <3>1 DEF SourceFolder, FromRename
  <2> QED
    BY <1>6, <2>1, <2>2 DEF TypeOK, RenameExtracted, Goto
<1>7. ASSUME FindB2(o) PROVE Rely(o)
  <2>1. /\ src' = src /\ pc[o] = "b2" /\ pc'[o] \in {"patch", "bootstrap"}
        /\ pc'[o] = "patch" => Source(o).b2
    BY <1>7 DEF TypeOK, FindB2, Goto, files
  <2>2. Source(o).b2 \in BOOLEAN
    BY <1>0 DEF SourceFolder
  <2> QED
    BY <1>0, <2>1, <2>2 DEF Ready, Source, FromRename
<1>8. ASSUME Bootstrap(o) PROVE Rely(o)
  <2>1. /\ SetSource(o, [Source(o) EXCEPT !.b2 = TRUE]) /\ pc[o] = "bootstrap"
        /\ pc'[o] = "patch"
    BY <1>8 DEF TypeOK, Bootstrap, Goto
  <2>2. Source(o)' = [Source(o) EXCEPT !.b2 = TRUE]
    BY <1>0, <2>1, SetSourceAt
  <2> QED
    BY <1>0, <2>1, <2>2 DEF SourceFolder, Ready, FromRename
<1>9. ASSUME PatchSource(o) PROVE Rely(o)
  <2>1. /\ SetSource(o, [Source(o) EXCEPT !.patched = TRUE]) /\ pc[o] = "patch"
        /\ pc'[o] = "config"
    BY <1>9 DEF TypeOK, PatchSource, Goto
  <2>2. Source(o)' = [Source(o) EXCEPT !.patched = TRUE]
    BY <1>0, <2>1, SetSourceAt
  <2> QED
    BY <1>0, <2>1, <2>2 DEF SourceFolder, Ready, FromRename
<1>10. ASSUME WriteUserConfig(o) PROVE Rely(o)
  <2>1. /\ SetSource(o, [Source(o) EXCEPT !.config = Compiler[o]]) /\ pc[o] = "config"
        /\ pc'[o] = "configured"
    BY <1>10 DEF TypeOK, WriteUserConfig, Goto
  <2>2. Source(o)' = [Source(o) EXCEPT !.config = Compiler[o]]
    BY <1>0, <2>1, SetSourceAt
  <2> QED
    BY <1>0, <2>1, <2>2, BoostAssumption DEF SourceFolder, Ready, FromRename
<1> QED
  BY <1>1, <1>2, <1>3, <1>4, <1>5, <1>6, <1>7, <1>8, <1>9, <1>10
  DEF Next, Configure, LoseZip, vars

\* A configure run that gets to its end leaves the whole tree, patched and with a
\* b2 and a user-config.jam in it, whichever steps of add_boost.cmake it skipped and whatever faults
\* earlier runs met, provided that clones sharing a directory take turns.
THEOREM ConfiguredIsUsable == ASSUME Exclusive PROVE Spec => []ConfiguredUsable
<1>1. Init => Ready
  BY DEF Init, Ready, FromRename
<1>2. TypeOK /\ Ready /\ [Next]_vars => Ready'
  BY ReadyStep
<1>3. TypeOK /\ Ready /\ SourceComplete => ConfiguredUsable
  <2> SUFFICES ASSUME TypeOK, Ready, SourceComplete, NEW c \in Clones, pc[c] = "configured"
               PROVE  /\ Source(c).tree = Parts /\ Source(c).b2 /\ Source(c).patched
                      /\ Source(c).config # NoCompiler
    BY DEF ConfiguredUsable
  <2>1. Source(c) \in SourceFolder /\ BoostCacheDir(c) \in Dirs /\ Toolchain[c] \in Toolchains
    BY WriteTypes, DirType, BoostAssumption
  <2> QED
    BY <2>1 DEF Ready, SourceComplete, Source, FromRename
<1> QED
  BY <1>1, <1>2, <1>3, TypeCorrect, SourceIsComplete, PTL DEF Spec

-----------------------------------------------------------------------------
(* Whose compiler user-config.jam names *)

\* Clones that share a source tree have found the same compiler.
OneCompilerEach ==
  \A c, o \in Clones :
    BoostCacheDir(c) = BoostCacheDir(o) /\ Toolchain[c] = Toolchain[o]
      => Compiler[c] = Compiler[o]

\* Only WriteUserConfig says which compiler b2 uses.
LEMMA ConfigStep ==
  ASSUME TypeOK, [Next]_vars, NEW c \in Clones, Source(c)'.config # Source(c).config
  PROVE  \E o \in Clones : /\ WriteUserConfig(o)
                           /\ BoostCacheDir(c) = BoostCacheDir(o)
                           /\ Toolchain[c] = Toolchain[o]
                           /\ Source(c)'.config = Compiler[o]
<1>0. /\ BoostCacheDir(c) \in Dirs /\ Toolchain[c] \in Toolchains
      /\ Source(c)' = src'[BoostCacheDir(c)][Toolchain[c]]
  BY DirType DEF Source, BoostCacheDir
<1>1. ASSUME NEW o \in Clones, RenameExtracted(o) PROVE FALSE
  <2>1. SetSource(o, [Source(o) EXCEPT !.tree = Unzip(o).tree])
        /\ Source(o) \in SourceFolder
    BY <1>0, <1>1, WriteTypes DEF RenameExtracted, Source
  <2> QED
    BY <1>0, <2>1, SetSourceAt DEF Source, SourceFolder
<1>2. ASSUME NEW o \in Clones, Bootstrap(o) \/ PatchSource(o) PROVE FALSE
  <2>1. /\ \/ SetSource(o, [Source(o) EXCEPT !.b2 = TRUE])
           \/ SetSource(o, [Source(o) EXCEPT !.patched = TRUE])
        /\ Source(o) \in SourceFolder
    BY <1>2, WriteTypes DEF Bootstrap, PatchSource
  <2> QED
    BY <1>0, <2>1, SetSourceAt DEF Source, SourceFolder
<1>3. ASSUME NEW o \in Clones, WriteUserConfig(o)
      PROVE  /\ BoostCacheDir(c) = BoostCacheDir(o) /\ Toolchain[c] = Toolchain[o]
             /\ Source(c)'.config = Compiler[o]
  <2>1. SetSource(o, [Source(o) EXCEPT !.config = Compiler[o]])
        /\ Source(o) \in SourceFolder
    BY <1>3, WriteTypes DEF WriteUserConfig
  <2> QED
    BY <1>0, <2>1, SetSourceAt DEF Source, SourceFolder
<1>4. src' # src
  BY <1>0 DEF Source
<1> QED
  BY <1>1, <1>2, <1>3, <1>4
  DEF Next, Start, Configure, Download, EndDownload, CheckExtract,
      RemoveExtractFolder, CopyZip, StartTar, ExtractPart, EndTar, RemoveTar,
      GlobExtracted, FindB2, Interrupt, LoseZip, local, files, vars

\* Whether their runs overlap or not, clones of different toolchains never change
\* one another's compiler in a shared cache: the suffix of BoostSourceDir
\* (add_boost.cmake:78) keeps them apart.  Without the hypothesis the clone that is
\* configured last decides for all that share the tree.
THEOREM CompilersKeptApart == ASSUME OneCompilerEach PROVE Spec => []OwnCompiler
<1>1. Init => OwnCompiler
  BY DEF Init, OwnCompiler
<1>2. TypeOK /\ OwnCompiler /\ [Next]_vars => OwnCompiler'
  <2> SUFFICES ASSUME TypeOK, OwnCompiler, [Next]_vars,
                      NEW c \in Clones, pc'[c] = "configured"
               PROVE  Source(c)'.config = Compiler[c]
    BY DEF OwnCompiler
  <2>1. CASE Source(c)'.config # Source(c).config
    BY <2>1, ConfigStep DEF OneCompilerEach
  <2>2. CASE pc[c] = "configured" /\ Source(c)'.config = Source(c).config
    BY <2>2 DEF OwnCompiler
  <2>3. CASE pc[c] # "configured"
    <3>1. WriteUserConfig(c)
      BY <2>3 DEF TypeOK, Next, Start, Interrupt, Configure, Download,
         EndDownload, CheckExtract, RemoveExtractFolder, CopyZip, StartTar,
         ExtractPart, EndTar, RemoveTar, GlobExtracted, RenameExtracted, FindB2,
         Bootstrap, PatchSource, WriteUserConfig, LoseZip, Goto, vars
    <3>2. /\ Source(c)' = [Source(c) EXCEPT !.config = Compiler[c]]
          /\ Source(c) \in SourceFolder
      BY <3>1, DirType, WriteTypes, SetSourceAt
      DEF WriteUserConfig, Source, BoostCacheDir
    <3> QED
      BY <3>2 DEF SourceFolder
  <2> QED
    BY <2>1, <2>2, <2>3
<1> QED
  BY <1>1, <1>2, TypeCorrect, PTL DEF Spec
=============================================================================
