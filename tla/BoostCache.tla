----------------------------- MODULE BoostCache -----------------------------
(***************************************************************************)
(* cmake_modules/add_boost.cmake: how a configure run of a MaidSafe clone  *)
(* obtains the Boost source tree.  The tarball, the extraction folder      *)
(* boost_unzip and the per-toolchain source folders live in one directory, *)
(* BoostCacheDir: the clone's own build root or, with USE_BOOST_CACHE, a   *)
(* cache shared by every clone on the machine.  A configure run is a       *)
(* sequence of file-system steps that can be killed between any two of     *)
(* them and, when developers overlap their runs, interleaved with those of *)
(* another clone.  CMake's file() and execute_process() are external.      *)
(***************************************************************************)
EXTENDS Naturals

CONSTANTS
  Clones,          \* working copies that run CMake
  CacheUsers,      \* the clones configured with USE_BOOST_CACHE=ON
  CacheDirExists,  \* IS_DIRECTORY "${BoostCacheDir}" of the requested cache
  Cache,           \* the shared cache directory
  Toolchains,      \* compiler id and version: the suffix of BoostSourceDir
  Toolchain,       \* the toolchain of each clone
  Compilers,       \* paths of compilers
  Compiler,        \* CMAKE_CXX_COMPILER of each clone
  NumParts,        \* pieces in which tar writes the tree to disk
  Overlap,         \* may two clones sharing a directory configure at once?
  NoClone,         \* "nobody" as the last writer of the tarball
  NoCompiler,      \* no user-config.jam of MaidSafe's yet
  MaxFaults        \* bound: crashes, failed commands and lost tarballs

ASSUME BoostAssumption ==
  /\ Cache \notin Clones
  /\ NoClone \notin Clones
  /\ CacheUsers \subseteq Clones
  /\ Toolchain \in [Clones -> Toolchains]
  /\ Compiler \in [Clones -> Compilers]
  /\ NoCompiler \notin Compilers
  /\ NumParts \in Nat \ {0}
  /\ Overlap \in BOOLEAN
  /\ CacheDirExists \in BOOLEAN
  /\ MaxFaults \in Nat

VARIABLES
  pc,        \* next file-system step of each clone's configure run
  fresh,     \* Status of file(DOWNLOAD) does not say "returning early"
  progress,  \* pieces the clone's tar process has written
  cwd,       \* the working directory of the clone's tar process still exists
  zip,       \* per directory: the tarball at ZipFilePath
  writer,    \* per directory: who truncated ZipFilePath last
  unzip,     \* per directory: the content of boost_unzip
  src,       \* per directory and toolchain: BoostSourceDir
  faults     \* faults injected so far

vars == <<pc, fresh, progress, cwd, zip, writer, unzip, src, faults>>
files == <<zip, writer, unzip, src>>
local == <<fresh, progress, cwd>>

Dirs == Clones \cup {Cache}
Parts == 1 .. NumParts
Content == {"absent", "partial", "good"}

\* Where a clone keeps Boost; a cache directory that does not exist makes the
\* clone fall back to its build root.
BoostCacheDir(c) == IF c \in CacheUsers /\ CacheDirExists THEN Cache ELSE c

Source(c) == src[BoostCacheDir(c)][Toolchain[c]]
IsDirectory(c) == Source(c).tree # {}
Unzip(c) == unzip[BoostCacheDir(c)]
Zip(c) == zip[BoostCacheDir(c)]

Resting == {"idle", "failed", "configured"}
Busy == {"download", "downloading", "downloaded", "clear", "copy", "tar",
         "extracting", "rmtar", "glob", "rename", "cleanup", "b2",
         "bootstrap", "patch", "config"}
Running(c) == pc[c] \in Busy

UnzipFolder == [tar: Content, tree: SUBSET Parts]
SourceFolder == [tree: SUBSET Parts, b2: BOOLEAN, patched: BOOLEAN,
                 config: Compilers \cup {NoCompiler}]
EmptyUnzip == [tar |-> "absent", tree |-> {}]
NoSource == [tree |-> {}, b2 |-> FALSE, patched |-> FALSE, config |-> NoCompiler]

Init ==
  /\ pc = [c \in Clones |-> "idle"]
  /\ fresh = [c \in Clones |-> FALSE]
  /\ progress = [c \in Clones |-> 0]
  /\ cwd = [c \in Clones |-> FALSE]
  /\ zip = [d \in Dirs |-> "absent"]
  /\ writer = [d \in Dirs |-> NoClone]
  /\ unzip = [d \in Dirs |-> EmptyUnzip]
  /\ src = [d \in Dirs |-> [t \in Toolchains |-> NoSource]]
  /\ faults = 0

Goto(c, l) == pc' = [pc EXCEPT ![c] = l]
SetUnzip(c, u) == unzip' = [unzip EXCEPT ![BoostCacheDir(c)] = u]

\* Mutant: the name of BoostSourceDir does not tell toolchains apart.
SetSourceOfAll(c, s) ==
  src' = [src EXCEPT ![BoostCacheDir(c)] = [t \in Toolchains |-> s]]

\* A write below BoostSourceDir.
SetSource(c, s) == src' = [src EXCEPT ![BoostCacheDir(c)][Toolchain[c]] = s]

-----------------------------------------------------------------------------
(* A configure run *)

\* A developer runs CMake.  Without Overlap nobody starts while another clone
\* is configuring in the same directory.
Start(c) ==
  /\ pc[c] \in Resting
  /\ Overlap \/ \A o \in Clones \ {c} :
                   BoostCacheDir(o) = BoostCacheDir(c) => ~Running(o)
  /\ Goto(c, "download")
  /\ UNCHANGED <<local, files, faults>>

\* file(DOWNLOAD ... EXPECTED_HASH): an existing file with the right SHA1 is
\* kept ("returning early"), any other is truncated and fetched again.
Download(c) ==
  /\ pc[c] = "download"
  /\ \/ /\ Zip(c) = "good"
        /\ fresh' = [fresh EXCEPT ![c] = FALSE]
        /\ Goto(c, "downloaded")
        /\ UNCHANGED <<zip, writer>>
     \/ /\ Zip(c) # "good"
        /\ zip' = [zip EXCEPT ![BoostCacheDir(c)] = "partial"]
        /\ writer' = [writer EXCEPT ![BoostCacheDir(c)] = c]
        /\ Goto(c, "downloading")
        /\ UNCHANGED fresh
  /\ UNCHANGED <<progress, cwd, unzip, src, faults>>

\* The transfer ends and the SHA1 is compared.  The clone that truncated the
\* file last has written every byte of it; for another one the file is right
\* only when that clone has finished too.  A mismatch is fatal.
EndDownload(c) ==
  LET mine == writer[BoostCacheDir(c)] = c IN
  /\ pc[c] = "downloading"
  /\ zip' = [zip EXCEPT ![BoostCacheDir(c)] = IF mine THEN "good" ELSE @]
  /\ fresh' = [fresh EXCEPT ![c] = TRUE]
  /\ Goto(c, IF mine \/ Zip(c) = "good" THEN "downloaded" ELSE "failed")
  /\ UNCHANGED <<progress, cwd, writer, unzip, src, faults>>

\* Mutant: boost is extracted whether required or not.
CheckExtractAlways(c) ==
  /\ pc[c] = "downloaded"
  /\ Goto(c, "clear")
  /\ UNCHANGED <<local, files, faults>>

\* "Extract boost if required".
CheckExtract(c) ==
  /\ pc[c] = "downloaded"
  /\ Goto(c, IF fresh[c] \/ ~IsDirectory(c) THEN "clear" ELSE "b2")
  /\ UNCHANGED <<local, files, faults>>

\* file(REMOVE_RECURSE ${BoostExtractFolder}), before the extraction and after
\* it; a tar process that works in the folder loses its working directory.
\* The MAKE_DIRECTORY that follows the first one adds nothing file(COPY) does
\* not: an empty folder and none look the same to every later step.
RemoveExtractFolder(c) ==
  /\ pc[c] \in {"clear", "cleanup"}
  /\ SetUnzip(c, EmptyUnzip)
  /\ cwd' = [o \in Clones |->
               cwd[o] /\ BoostCacheDir(o) # BoostCacheDir(c)]
  /\ Goto(c, IF pc[c] = "clear" THEN "copy" ELSE "b2")
  /\ UNCHANGED <<fresh, progress, zip, writer, src, faults>>

\* file(COPY) of the tarball; fatal when the tarball is gone.
CopyZip(c) ==
  /\ pc[c] = "copy"
  /\ \/ /\ Zip(c) = "absent"
        /\ Goto(c, "failed")
        /\ UNCHANGED unzip
     \/ /\ Zip(c) # "absent"
        /\ SetUnzip(c, [Unzip(c) EXCEPT !.tar = Zip(c)])
        /\ Goto(c, "tar")
  /\ UNCHANGED <<local, zip, writer, src, faults>>

\* "cmake -E tar" starts in the extraction folder; it reports failure when the
\* folder or the copy is missing or the copy is cut short.
StartTar(c) ==
  /\ pc[c] = "tar"
  /\ \/ /\ Unzip(c).tar # "good"
        /\ Goto(c, "failed")
        /\ UNCHANGED <<progress, cwd>>
     \/ /\ Unzip(c).tar = "good"
        /\ progress' = [progress EXCEPT ![c] = 0]
        /\ cwd' = [cwd EXCEPT ![c] = TRUE]
        /\ Goto(c, "extracting")
  /\ UNCHANGED <<fresh, files, faults>>

\* Mutant: tar writes one piece too many.
ExtractPartPastEnd(c) ==
  /\ pc[c] = "extracting"
  /\ progress[c] <= NumParts
  /\ cwd[c]
  /\ SetUnzip(c, [Unzip(c) EXCEPT !.tree = @ \cup {progress[c] + 1}])
  /\ progress' = [progress EXCEPT ![c] = @ + 1]
  /\ UNCHANGED <<pc, fresh, cwd, zip, writer, src, faults>>

\* tar writes the next piece of the tree, relative to its working directory; it
\* fails when that is gone.
ExtractPart(c) ==
  /\ pc[c] = "extracting"
  /\ progress[c] < NumParts
  /\ IF cwd[c]
     THEN /\ SetUnzip(c, [Unzip(c) EXCEPT !.tree = @ \cup {progress[c] + 1}])
          /\ progress' = [progress EXCEPT ![c] = @ + 1]
          /\ UNCHANGED pc
     ELSE Goto(c, "failed") /\ UNCHANGED <<unzip, progress>>
  /\ UNCHANGED <<fresh, cwd, zip, writer, src, faults>>

\* Mutant: the Result of tar is not looked at.
EndTarUnchecked(c) ==
  /\ pc[c] = "extracting"
  /\ Goto(c, "rmtar")
  /\ UNCHANGED <<local, files, faults>>

\* tar returns 0.
EndTar(c) ==
  /\ pc[c] = "extracting"
  /\ progress[c] = NumParts
  /\ Goto(c, "rmtar")
  /\ UNCHANGED <<local, files, faults>>

RemoveTar(c) ==
  /\ pc[c] = "rmtar"
  /\ SetUnzip(c, [Unzip(c) EXCEPT !.tar = "absent"])
  /\ Goto(c, "glob")
  /\ UNCHANGED <<local, zip, writer, src, faults>>

\* The extraction folder must hold exactly one entry and it must be a folder.
GlobExtracted(c) ==
  /\ pc[c] = "glob"
  /\ Goto(c, IF Unzip(c).tree # {} /\ Unzip(c).tar = "absent"
             THEN "rename" ELSE "failed")
  /\ UNCHANGED <<local, files, faults>>

\* file(RENAME) of the extracted folder to BoostSourceDir; fatal when the first
\* has vanished or the second exists already.
RenameExtracted(c) ==
  /\ pc[c] = "rename"
  /\ \/ /\ Unzip(c).tree # {} /\ ~IsDirectory(c)
        /\ SetSource(c, [Source(c) EXCEPT !.tree = Unzip(c).tree])
        /\ SetUnzip(c, [Unzip(c) EXCEPT !.tree = {}])
        /\ Goto(c, "cleanup")
     \/ /\ Unzip(c).tree = {} \/ IsDirectory(c)
        /\ Goto(c, "failed")
        /\ UNCHANGED <<src, unzip>>
  /\ UNCHANGED <<local, zip, writer, faults>>

\* Mutant: a cached b2Path is believed (the unset(b2Path CACHE) is lost).
FindB2Cached(c) ==
  /\ pc[c] = "b2"
  /\ Goto(c, "patch")
  /\ UNCHANGED <<local, files, faults>>

\* find_program(b2Path NAMES b2 PATHS ${BoostSourceDir}).
FindB2(c) ==
  /\ pc[c] = "b2"
  /\ Goto(c, IF Source(c).b2 THEN "patch" ELSE "bootstrap")
  /\ UNCHANGED <<local, files, faults>>

\* bootstrap.sh builds b2 into BoostSourceDir.
Bootstrap(c) ==
  /\ pc[c] = "bootstrap"
  /\ SetSource(c, [Source(c) EXCEPT !.b2 = TRUE])
  /\ Goto(c, "patch")
  /\ UNCHANGED <<local, zip, writer, unzip, faults>>

\* make_directory Build and configure_file(COPYONLY) of the patched
\* thread_data.hpp, over whatever is there.
PatchSource(c) ==
  /\ pc[c] = "patch"
  /\ SetSource(c, [Source(c) EXCEPT !.patched = TRUE])
  /\ Goto(c, "config")
  /\ UNCHANGED <<local, zip, writer, unzip, faults>>

\* file(WRITE) of user-config.jam, which every run writes anew for its own
\* compiler (GCC and Clang on Unix), and the b2 targets: the rest of the module.
WriteUserConfig(c) ==
  /\ pc[c] = "config"
  /\ SetSource(c, [Source(c) EXCEPT !.config = Compiler[c]])
  /\ Goto(c, "configured")
  /\ UNCHANGED <<local, zip, writer, unzip, faults>>

-----------------------------------------------------------------------------
(* Faults *)

\* CMake is killed, or the command it is at (the transfer, tar, bootstrap.sh)
\* fails and is reported with FATAL_ERROR.
Interrupt(c) ==
  /\ Running(c)
  /\ faults < MaxFaults
  /\ faults' = faults + 1
  /\ Goto(c, "failed")
  /\ UNCHANGED <<local, files>>

\* Someone cleans the tarball out of the directory.
LoseZip(d) ==
  /\ zip[d] # "absent"
  /\ faults < MaxFaults
  /\ faults' = faults + 1
  /\ zip' = [zip EXCEPT ![d] = "absent"]
  /\ writer' = [writer EXCEPT ![d] = NoClone]
  /\ UNCHANGED <<pc, local, unzip, src>>

Configure(c) ==
  \/ Download(c) \/ EndDownload(c) \/ CheckExtract(c)
  \/ RemoveExtractFolder(c) \/ CopyZip(c)
  \/ StartTar(c) \/ ExtractPart(c) \/ EndTar(c) \/ RemoveTar(c)
  \/ GlobExtracted(c) \/ RenameExtracted(c)
  \/ FindB2(c) \/ Bootstrap(c) \/ PatchSource(c) \/ WriteUserConfig(c)

Next ==
  \/ \E c \in Clones : Start(c) \/ Configure(c) \/ Interrupt(c)
  \/ \E d \in Dirs : LoseZip(d)

Spec == Init /\ [][Next]_vars

\* CMake keeps running, and a developer reruns it until it succeeds.
FairSpec ==
  Spec /\ \A c \in Clones : WF_vars(Configure(c)) /\ SF_vars(Start(c))

-----------------------------------------------------------------------------
(* Properties *)

\* What the steps of add_boost.cmake keep in their files and variables.
TypeOK ==
  /\ pc \in [Clones -> Resting \cup Busy]
  /\ fresh \in [Clones -> BOOLEAN]
  /\ progress \in [Clones -> 0 .. NumParts]
  /\ cwd \in [Clones -> BOOLEAN]
  /\ zip \in [Dirs -> Content]
  /\ writer \in [Dirs -> Clones \cup {NoClone}]
  /\ unzip \in [Dirs -> UnzipFolder]
  /\ src \in [Dirs -> [Toolchains -> SourceFolder]]
  /\ faults \in 0 .. MaxFaults

\* A folder at BoostSourceDir is the whole Boost tree: later configure runs
\* accept it for no other reason than that it exists (IS_DIRECTORY,
\* add_boost.cmake:129), whatever was killed, failed or deleted before.
SourceComplete ==
  \A d \in Dirs, t \in Toolchains : src[d][t].tree \in {{}, Parts}

\* A configure run that gets to its end leaves a complete, patched tree with a
\* b2 and a user-config.jam in it, along every path through the "if required"
\* tests.
ConfiguredUsable ==
  \A c \in Clones : pc[c] = "configured" =>
    /\ Source(c).tree = Parts
    /\ Source(c).b2 /\ Source(c).patched
    /\ Source(c).config # NoCompiler

\* What b2 compiles with in a configured clone is the compiler CMake found for
\* that clone ("Need to configure the toolset based on CMAKE_CXX_COMPILER",
\* add_boost.cmake:231), though every run writes the user-config.jam of a tree in
\* the shared cache anew and b2 reads it when a clone is built.  It rests on the
\* name of BoostSourceDir, and clones whose compilers have the same id and
\* version in two places on the machine do not have it.
OwnCompiler ==
  \A c \in Clones : pc[c] = "configured" => Source(c).config = Compiler[c]

\* A leftover of any fault (half a tarball, a stale boost_unzip, a tarball
\* deleted while the tree exists, which makes the next run fail at the rename)
\* is repaired by running CMake again.
EventuallyConfigured == \A c \in Clones : <>(pc[c] = "configured")

=============================================================================
