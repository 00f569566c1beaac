---------------------------- MODULE DeleteDumps ----------------------------
(***************************************************************************)
(* "kdumptool delete_dumps" (src/kdumptool/deletedumps.cc): before a new    *)
(* dump is saved, each local save directory is reduced to the newest        *)
(* KDUMP_KEEP_OLD_DUMPS dumps.                                              *)
(*                                                                         *)
(* A dump directory is named by its time stamp; names sort like the stamps  *)
(* they spell, so stamps are numbers here.  Its files are of two kinds:     *)
(* the one called "vmcore", which FilterKdumpDirs looks for, and all        *)
(* others (dmesg.txt, README.txt, vmcore1, vmcore2, ...).  Removing a       *)
(* directory takes one system call per file and can stop half way, by an    *)
(* error or by a power loss.                                                *)
(***************************************************************************)
EXTENDS Integers, Sequences, FiniteSets

CONSTANTS
  SaveDirs,    \* the elements of KDUMP_SAVEDIR, in order
  LocalDirs,   \* those with a file:// URL
  Stamps,      \* possible time stamps
  Keep         \* KDUMP_KEEP_OLD_DUMPS; 0 = keep all, -1 = keep none

AllDirs == {SaveDirs[i] : i \in DOMAIN SaveDirs}

ASSUME SaveDirsAssumption == SaveDirs \in Seq(AllDirs)
ASSUME StampsAssumption   == IsFiniteSet(Stamps) /\ Stamps \subseteq Nat
ASSUME KeepAssumption     == Keep \in Nat \cup {-1}

Kinds    == {"vmcore", "other"}
DumpDirs == AllDirs \X Stamps
Files    == AllDirs \X Stamps \X Kinds

VARIABLES
  dirs,    \* dump directories that exist
  files,   \* files in them
  phase,   \* "idle", "scan", "delete", and the results "ok", "failed"
  at,      \* index of the save directory being worked on
  todo     \* stamps of the directories still to be deleted there

ddvars == <<dirs, files, phase, at, todo>>

\* FilterKdumpDirs: directories that contain a file called "vmcore".
Listed(d) == {t \in Stamps : <<d, t, "vmcore">> \in files}

\* How many dumps stay when Keep # 0.
KeepCount == IF Keep = -1 THEN 0 ELSE Keep

Running == phase \in {"scan", "delete"}
Here    == SaveDirs[at]

\* The directory that is removed next: the list is sorted.
Oldest(T) == {t \in T : \A u \in T : t <= u}

-----------------------------------------------------------------------------
DDInit ==
  /\ dirs = {}
  /\ files = {}
  /\ phase = "idle"
  /\ at = 1
  /\ todo = {}

Execute ==
  /\ ~Running
  /\ IF Keep = 0 THEN phase' = "ok" /\ UNCHANGED at
                 ELSE phase' = "scan" /\ at' = 1
  /\ todo' = {}
  /\ UNCHANGED <<dirs, files>>

\* delete_one(): not local, or fewer dumps than are to be kept.
SkipDir ==
  /\ phase = "scan"
  /\ at \in DOMAIN SaveDirs
  /\ Here \notin LocalDirs \/ Keep > Cardinality(Listed(Here))
  /\ at' = at + 1
  /\ UNCHANGED <<dirs, files, phase, todo>>

\* listDir() sorts; all but the last KeepCount names are to be deleted.
ScanDir ==
  /\ phase = "scan"
  /\ at \in DOMAIN SaveDirs
  /\ Here \in LocalDirs /\ Keep <= Cardinality(Listed(Here))
  /\ \E T \in SUBSET Listed(Here) :
       /\ Cardinality(T) = Cardinality(Listed(Here)) - KeepCount
       /\ \A t \in T, u \in Listed(Here) \ T : t < u
       /\ todo' = T
  /\ phase' = "delete"
  /\ UNCHANGED <<dirs, files, at>>

RemoveFileAnyOrder ==   \* altered: the list is not worked off in order
  /\ phase = "delete"
  /\ \E t \in todo, k \in Kinds :
       /\ <<Here, t, k>> \in files
       /\ files' = files \ {<<Here, t, k>>}
  /\ UNCHANGED <<dirs, phase, at, todo>>

\* FilePath::rmdir(true), one remove() in readdir order.
RemoveFile ==
  /\ phase = "delete"
  /\ \E t \in Oldest(todo), k \in Kinds :
       /\ <<Here, t, k>> \in files
       /\ files' = files \ {<<Here, t, k>>}
  /\ UNCHANGED <<dirs, phase, at, todo>>

\* ... and the final rmdir().
RemoveDir ==
  /\ phase = "delete"
  /\ \E t \in Oldest(todo) :
       /\ \A k \in Kinds : <<Here, t, k>> \notin files
       /\ dirs' = dirs \ {<<Here, t>>}
       /\ todo' = todo \ {t}
  /\ UNCHANGED <<files, phase, at>>

NextDirTwice ==   \* altered: the iterator is advanced twice
  /\ phase = "delete"
  /\ todo = {}
  /\ phase' = "scan"
  /\ at' = at + 2
  /\ UNCHANGED <<dirs, files, todo>>

NextDir ==
  /\ phase = "delete"
  /\ todo = {}
  /\ phase' = "scan"
  /\ at' = at + 1
  /\ UNCHANGED <<dirs, files, todo>>

\* An exception of listDir() or rmdir() leaves execute() altogether: the
\* remaining entries and save directories are not looked at.
Throw ==
  /\ Running
  /\ at \in DOMAIN SaveDirs
  /\ phase' = "failed"
  /\ UNCHANGED <<dirs, files, at, todo>>

Return ==
  /\ phase = "scan"
  /\ at \notin DOMAIN SaveDirs
  /\ phase' = "ok"
  /\ UNCHANGED <<dirs, files, at, todo>>

\* What the rest of the world does to one dump directory while the program
\* does not run: dumps are saved, files and directories come and go.
FilesOf(d, t) == {<<d, t, k>> : k \in Kinds}

Outside ==
  /\ ~Running
  /\ phase' = "idle"
  /\ \E d \in AllDirs, t \in Stamps :
       \/ /\ dirs' = dirs \cup {<<d, t>>}
          /\ \E X \in SUBSET FilesOf(d, t) :
               files' = (files \ FilesOf(d, t)) \cup X
       \/ /\ dirs' = dirs \ {<<d, t>>}
          /\ files' = files \ FilesOf(d, t)
  /\ UNCHANGED <<at, todo>>

\* The machine loses power, or the kdump kernel dies.
Killed ==
  /\ Running
  /\ phase' = "idle"
  /\ UNCHANGED <<dirs, files, at, todo>>

DDStep == SkipDir \/ ScanDir \/ RemoveFile \/ RemoveDir \/ NextDir \/ Throw \/ Return

DDNext == Execute \/ DDStep \/ Outside \/ Killed

DDSpec == DDInit /\ [][DDNext]_ddvars

-----------------------------------------------------------------------------
\* The variables stay in their ranges.
DDTypeOK ==
  /\ dirs \subseteq DumpDirs
  /\ files \subseteq Files
  /\ phase \in {"idle", "scan", "delete", "ok", "failed"}
  /\ at \in 1..(Len(SaveDirs) + 1)
  /\ todo \subseteq Stamps

NewerThan(d, t) == {u \in Listed(d) : u > t}

(***************************************************************************)
(* Dumps disappear oldest first and the newest stay: when delete_dumps      *)
(* removes the vmcore of a dump, no older dump is left in that save         *)
(* directory and at least KDUMP_KEEP_OLD_DUMPS newer ones are there         *)
(* (deletedumps.cc:110-125), wherever an error or a power loss interrupts   *)
(* it or an earlier run.                                                    *)
(***************************************************************************)
OldestFirst ==
  [][Running => \A d \in AllDirs : \A t \in Listed(d) :
       \/ <<d, t, "vmcore">> \in files'
       \/ /\ \A u \in Listed(d) : u >= t
          /\ Cardinality(NewerThan(d, t)) >= KeepCount]_ddvars
=============================================================================
