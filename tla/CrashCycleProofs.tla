-------------------------- MODULE CrashCycleProofs --------------------------
(***************************************************************************)
(* Any number of crashes, save directories and dumps: delete_dumps is used  *)
(* as its own module allows, it deletes the oldest dumps first, and without *)
(* a failure the number of dumps stays bounded.                             *)
(***************************************************************************)
EXTENDS CrashCycle, TLAPS, FiniteSetTheorems

\* The parts of the variables' ranges that the proofs build on.
Places == dirs \subseteq DumpDirs /\ files \subseteq Files
Work ==
  /\ phase \in {"idle", "scan", "delete", "ok", "failed"}
  /\ at \in 1..(Len(SaveDirs) + 1)
  /\ todo \subseteq Stamps
Scripted ==
  /\ script \in {"up", "transfer", "prescript", "delete", "deleting", "save",
                 "check", "postscript", "exit", "shell"}
  /\ resume \in {"up", "delete", "save", "postscript", "exit"}
  /\ made \in 0..Len(SaveDirs)
Clock == now \in Stamps \cup {0} /\ (script # "up" => now \in Stamps)
History == trouble \in BOOLEAN /\ shellLeft \in BOOLEAN /\ set \in Settings

\* delete_dumps runs while save_dump.sh waits for it, and only then.
Waits == Running => script = "deleting"

(***************************************************************************)
(* While delete_dumps works on a directory, the dumps to be kept are there, *)
(* exactly KeepCount of them, and newer than those that are to go.          *)
(***************************************************************************)
Stay == Listed(Here) \ todo
Deleting ==
  phase = "delete" =>
    /\ at \in DOMAIN SaveDirs
    /\ Cardinality(Stay) = KeepCount
    /\ \A t \in todo, u \in Stay : t < u

IInv == Places /\ Work /\ Scripted /\ Clock /\ History /\ Waits /\ Deleting

(***************************************************************************)
(* Why the number of dumps is bounded: the directories before "at" are      *)
(* reduced to KeepCount dumps while delete_dumps works, all are before      *)
(* save_dump writes, and it writes one.  A shell that the operator leaves   *)
(* comes back to a step of the script after trouble only.                   *)
(***************************************************************************)
Reduced(d) == Cardinality(Listed(d)) <= KeepCount
Saving == script = "save" \/ (script = "deleting" /\ phase = "ok")
Tidy ==
  trouble = FALSE =>
    /\ resume = "up"
    /\ Keep # 0 =>
         /\ \A d \in AllDirs \cap LocalDirs : Cardinality(Listed(d)) <= KeepCount + 1
         /\ Saving => \A d \in AllDirs \cap LocalDirs : Reduced(d)
         /\ Running => \A i \in 1..(at - 1) : SaveDirs[i] \in LocalDirs => Reduced(SaveDirs[i])

-----------------------------------------------------------------------------
\* KDUMP_SAVEDIR as a function.
LEMMA DirsFacts ==
  /\ Len(SaveDirs) \in Nat
  /\ DOMAIN SaveDirs = 1..Len(SaveDirs)
  /\ \A i \in DOMAIN SaveDirs : SaveDirs[i] \in AllDirs
  /\ (SaveDirs # <<>> => 1 \in DOMAIN SaveDirs)
  /\ KeepCount \in Nat
BY SaveDirsAssumption, KeepAssumption DEF AllDirs, KeepCount

\* The dumps of a directory are finitely many.
LEMMA ListedFinite ==
  ASSUME NEW d
  PROVE  Listed(d) \subseteq Stamps /\ IsFiniteSet(Listed(d)) /\ Cardinality(Listed(d)) \in Nat
BY StampsAssumption, FS_Subset, FS_CardinalityType DEF Listed

\* What is put into a directory is what the rest of the world may do to it.
LEMMA PutIsOutside ==
  ASSUME ~Running, NEW d \in AllDirs, now \in Stamps, NEW kinds \in SUBSET Kinds, Put(d, kinds)
  PROVE  Outside
<1> DEFINE X == (files \cap FilesOf(d, now)) \cup ({d} \X {now} \X kinds)
<1>1. X \in SUBSET FilesOf(d, now)
  BY DEF FilesOf
<1>2. files' = (files \ FilesOf(d, now)) \cup X
  BY DEF Put, FilesOf
<1>3. dirs' = dirs \cup {<<d, now>>} /\ phase' = "idle" /\ UNCHANGED <<at, todo>>
  BY DEF Put, Mine
<1> QED BY <1>1, <1>2, <1>3 DEF Outside

\* Each step of the cycle is one of delete_dumps' module or leaves the dump
\* directories alone.
LEMMA StepIsDeleteDumps == IInv /\ [Next]_vars => [DDNext]_ddvars
<1> SUFFICES ASSUME IInv, [Next]_vars PROVE [DDNext]_ddvars
  OBVIOUS
<1>0. Running => script = "deleting"
  BY DEF IInv, Waits
<1>1. CASE DeleteStart
  BY <1>1 DEF DeleteStart, DDNext
<1>2. CASE DeleteWork
  BY <1>2 DEF DeleteWork, DDNext
<1>3. CASE SaveMkdir
  <2>1. made + 1 \in DOMAIN SaveDirs /\ made' = made + 1 /\ now \in Stamps /\ ~Running
    BY <1>0, <1>3, DirsFacts DEF SaveMkdir, IInv, Scripted, Clock
  <2>2. PICK kinds \in SUBSET Kinds : Put(SaveDirs[made + 1], kinds)
    BY <1>3, <2>1 DEF SaveMkdir, Kinds
  <2> QED BY <2>1, <2>2, PutIsOutside, DirsFacts DEF DDNext
<1>4. CASE SaveWrite
  <2>1. now \in Stamps /\ ~Running /\ {DumpKind} \subseteq Kinds
    BY <1>0, <1>4 DEF SaveWrite, IInv, Clock, DumpKind, Kinds
  <2>2. SaveDirs[1] \in AllDirs /\ Put(SaveDirs[1], {DumpKind})
    BY <1>4, DirsFacts DEF SaveWrite
  <2> QED BY <2>1, <2>2, PutIsOutside DEF DDNext
<1>5. CASE SaveGivesBack
  <2>1. now \in Stamps /\ ~Running
    BY <1>0, <1>5 DEF SaveGivesBack, IInv, Clock
  <2>2. PICK d \in LocalDirs \cap AllDirs :
          /\ <<d, now>> \in dirs
          /\ \/ dirs' = dirs \ {<<d, now>>} /\ files' = files \ FilesOf(d, now)
             \/ /\ UNCHANGED dirs
                /\ \E gone \in SUBSET FilesOf(d, now) : files' = files \ gone
    BY <1>5 DEF SaveGivesBack, Mine
  <2>3. phase' = "idle" /\ UNCHANGED <<at, todo>>
    BY <1>5 DEF SaveGivesBack
  <2>4. CASE dirs' = dirs \ {<<d, now>>} /\ files' = files \ FilesOf(d, now)
    BY <2>1, <2>2, <2>3, <2>4 DEF Outside, DDNext
  <2>5. CASE UNCHANGED dirs /\ \E gone \in SUBSET FilesOf(d, now) : files' = files \ gone
    <3>1. PICK gone \in SUBSET FilesOf(d, now) : files' = files \ gone
      BY <2>5
    <3> DEFINE X == (files \cap FilesOf(d, now)) \ gone
    <3>2. X \in SUBSET FilesOf(d, now) /\ files' = (files \ FilesOf(d, now)) \cup X
      BY <3>1
    <3>3. dirs' = dirs \cup {<<d, now>>}
      BY <2>2, <2>5
    <3> QED BY <2>1, <2>2, <2>3, <3>2, <3>3 DEF Outside, DDNext
  <2> QED BY <2>2, <2>4, <2>5
<1>6. CASE PowerLoss
  BY <1>6 DEF PowerLoss, DDNext
<1>7. CASE UNCHANGED ddvars
  BY <1>7
<1> QED
  BY <1>1, <1>2, <1>3, <1>4, <1>5, <1>6, <1>7
     DEF Next, ScriptStep, Panic, Prescript, DeleteEnd, SaveFails, SaveSucceeds, Postscript,
         RunTransfer, HandleExit, LeaveShell, Reboot, vars

-----------------------------------------------------------------------------
\* The steps that go through continue_error().
LEMMA ContinueErrorGoes ==
  ASSUME NEW ok \in BOOLEAN, NEW next, ContinueError(ok, next), trouble \in BOOLEAN
  PROVE  /\ script' \in {next, "shell"}
         /\ resume' \in {resume, "up", next}
         /\ trouble' \in BOOLEAN
         /\ (trouble' = FALSE => trouble = FALSE /\ ok = TRUE /\ script' = next /\ resume' = resume)
BY DEF ContinueError

\* The steps of delete_dumps only take away.
LEMMA DDStepTakes ==
  ASSUME Places, Work, Deleting, DDStep
  PROVE  /\ dirs' \subseteq dirs /\ files' \subseteq files
         /\ phase \in {"scan", "delete"}
         /\ Work'
<1> USE DirsFacts DEF Places, Work
<1>1. CASE SkipDir     BY <1>1 DEF SkipDir
<1>2. CASE ScanDir
  <2>1. todo' \subseteq Stamps
    BY <1>2, ListedFinite DEF ScanDir
  <2> QED BY <1>2, <2>1 DEF ScanDir
<1>3. CASE RemoveFile  BY <1>3 DEF RemoveFile
<1>4. CASE RemoveDir   BY <1>4 DEF RemoveDir
<1>5. CASE NextDir     BY <1>5 DEF NextDir, Deleting
<1>6. CASE Throw       BY <1>6 DEF Throw, Running
<1>7. CASE Return      BY <1>7 DEF Return
<1> QED BY <1>1, <1>2, <1>3, <1>4, <1>5, <1>6, <1>7 DEF DDStep

\* Dumps and their files stay where dumps may be.
LEMMA PlacesStep == IInv /\ [Next]_vars => Places'
<1> SUFFICES ASSUME IInv, [Next]_vars PROVE Places'
  OBVIOUS
<1>0. Places /\ Work /\ Deleting
  BY DEF IInv
<1>1. CASE DDStep
  BY <1>0, <1>1, DDStepTakes DEF Places
<1>2. CASE Outside
  <2>1. PICK d \in AllDirs, t \in Stamps :
          /\ dirs' \subseteq dirs \cup {<<d, t>>}
          /\ files' \subseteq files \cup FilesOf(d, t)
    BY <1>2 DEF Outside
  <2>2. FilesOf(d, t) \subseteq Files
    BY DEF FilesOf, Files
  <2> QED BY <1>0, <2>1, <2>2 DEF Places, DumpDirs
<1>3. CASE UNCHANGED <<dirs, files>>
  BY <1>0, <1>3 DEF Places
<1> QED
  BY <1>1, <1>2, <1>3, StepIsDeleteDumps DEF DDNext, Execute, Killed, ddvars

\* delete_dumps stays within the directories it was given.
LEMMA WorkStep == IInv /\ [Next]_vars => Work'
<1> SUFFICES ASSUME IInv, [Next]_vars PROVE Work'
  OBVIOUS
<1>0. Places /\ Work /\ Deleting
  BY DEF IInv
<1>1. CASE DDStep
  BY <1>0, <1>1, DDStepTakes
<1>2. CASE Execute
  BY <1>0, <1>2, DirsFacts DEF Execute, Work
<1>3. CASE Outside \/ Killed \/ UNCHANGED ddvars
  BY <1>0, <1>3 DEF Outside, Killed, Work, ddvars
<1> QED
  BY <1>1, <1>2, <1>3, StepIsDeleteDumps DEF DDNext

\* The script stays within its steps.
LEMMA ScriptedStep == IInv /\ [Next]_vars => Scripted'
<1> SUFFICES ASSUME IInv, [Next]_vars PROVE Scripted'
  OBVIOUS
<1> USE DEF IInv, Scripted, History
<1>1. CASE Panic
  BY <1>1, DirsFacts DEF Panic
<1>2. CASE Prescript
  BY <1>2, ContinueErrorGoes DEF Prescript
<1>3. CASE DeleteEnd
  BY <1>3, ContinueErrorGoes DEF DeleteEnd
<1>4. CASE SaveMkdir
  BY <1>4, DirsFacts DEF SaveMkdir
<1>5. CASE SaveFails
  BY <1>5, ContinueErrorGoes DEF SaveFails
<1>6. CASE SaveSucceeds
  BY <1>6, ContinueErrorGoes DEF SaveSucceeds
<1>7. CASE SaveGivesBack
  BY <1>7, ContinueErrorGoes DEF SaveGivesBack
<1>8. CASE Postscript
  BY <1>8, ContinueErrorGoes DEF Postscript
<1>9. CASE DeleteStart \/ SaveWrite \/ RunTransfer \/ HandleExit \/ LeaveShell \/ Reboot \/ PowerLoss
  BY <1>9 DEF DeleteStart, SaveWrite, RunTransfer, HandleExit, LeaveShell, Reboot, PowerLoss
<1>10. CASE DeleteWork \/ UNCHANGED vars
  BY <1>10 DEF DeleteWork, vars, svars
<1> QED
  BY <1>1, <1>2, <1>3, <1>4, <1>5, <1>6, <1>7, <1>8, <1>9, <1>10 DEF Next, ScriptStep

\* While the kdump environment runs, the clock shows a time.
LEMMA ClockStep == IInv /\ [Next]_vars => Clock'
<1> SUFFICES ASSUME IInv, [Next]_vars PROVE Clock'
  OBVIOUS
<1> USE DEF IInv, Clock
<1>1. CASE Panic
  BY <1>1 DEF Panic
<1>2. CASE UNCHANGED now /\ script # "up"
  BY <1>2
<1>3. CASE UNCHANGED vars
  BY <1>3 DEF vars, svars
<1> QED
  BY <1>1, <1>2, <1>3 DEF Next, ScriptStep, Prescript, DeleteStart, DeleteWork, DeleteEnd,
     SaveMkdir, SaveWrite, SaveFails, SaveSucceeds, SaveGivesBack, Postscript, RunTransfer,
     HandleExit, LeaveShell, Reboot, PowerLoss, svars

\* The histories stay truth values.
LEMMA HistoryStep == IInv /\ [Next]_vars => History'
<1> SUFFICES ASSUME IInv, [Next]_vars PROVE History'
  OBVIOUS
<1> USE DEF IInv, History
<1>1. ASSUME NEW ok \in BOOLEAN, NEW next, ContinueError(ok, next), UNCHANGED <<set, shellLeft>>
      PROVE  History'
  BY <1>1, ContinueErrorGoes
<1>2. CASE Prescript
  BY <1>1, <1>2 DEF Prescript
<1>3. CASE DeleteEnd
  BY <1>1, <1>3 DEF DeleteEnd
<1>4. CASE SaveFails
  BY <1>1, <1>4 DEF SaveFails
<1>5. CASE SaveSucceeds
  BY <1>1, <1>5 DEF SaveSucceeds
<1>6. CASE SaveGivesBack
  BY <1>1, <1>6 DEF SaveGivesBack
<1>7. CASE Postscript
  BY <1>1, <1>7 DEF Postscript
<1>8. CASE UNCHANGED set /\ trouble' \in {trouble, TRUE} /\ shellLeft' \in {shellLeft, TRUE, FALSE}
  BY <1>8
<1> QED
  BY <1>2, <1>3, <1>4, <1>5, <1>6, <1>7, <1>8
     DEF Next, ScriptStep, Panic, DeleteStart, DeleteWork, SaveMkdir, SaveWrite, RunTransfer,
         HandleExit, LeaveShell, Reboot, PowerLoss, vars, svars

\* delete_dumps is started and left by the script only.
LEMMA WaitsStep == IInv /\ [Next]_vars => Waits'
<1> SUFFICES ASSUME IInv, [Next]_vars PROVE Waits'
  OBVIOUS
<1> USE DEF IInv, Waits, Running
<1>1. CASE DeleteStart
  BY <1>1 DEF DeleteStart
<1>2. CASE DeleteWork
  BY <1>2 DEF DeleteWork, svars
<1>3. CASE UNCHANGED ddvars /\ script # "deleting"
  BY <1>3 DEF ddvars
<1>4. CASE DeleteEnd
  BY <1>4 DEF DeleteEnd, ddvars
<1>5. CASE SaveMkdir \/ SaveWrite \/ SaveGivesBack
  BY <1>5 DEF SaveMkdir, SaveWrite, SaveGivesBack, Put
<1>6. CASE PowerLoss
  BY <1>6 DEF PowerLoss, Killed, ddvars
<1>7. CASE UNCHANGED vars
  BY <1>7 DEF vars, ddvars, svars
<1> QED
  BY <1>1, <1>2, <1>3, <1>4, <1>5, <1>6, <1>7
     DEF Next, ScriptStep, Panic, Prescript, SaveFails, SaveSucceeds, Postscript,
         RunTransfer, HandleExit, LeaveShell, Reboot

-----------------------------------------------------------------------------
\* What scan leaves to stay: KeepCount dumps.
LEMMA ScanKeeps ==
  ASSUME NEW T \in SUBSET Listed(Here),
         Cardinality(T) = Cardinality(Listed(Here)) - KeepCount
  PROVE  Cardinality(Listed(Here) \ T) = KeepCount
<1>1. Listed(Here) \cap T = T
  OBVIOUS
<1>2. Cardinality(Listed(Here) \ T) = Cardinality(Listed(Here)) - Cardinality(T)
  <2> DEFINE L == Listed(Here)
  <2>1. IsFiniteSet(L) /\ L \cap T = T
    BY <1>1, ListedFinite
  <2> HIDE DEF L
  <2>2. Cardinality(L \ T) = Cardinality(L) - Cardinality(L \cap T)
    BY <2>1, FS_Difference
  <2> QED BY <2>1, <2>2 DEF L
<1> QED BY <1>2, ListedFinite, DirsFacts

\* delete_dumps keeps what it means to keep, also while others wait.
LEMMA DeletingStep == IInv /\ [Next]_vars => Deleting'
<1> SUFFICES ASSUME IInv, [Next]_vars PROVE Deleting'
  OBVIOUS
<1> USE DEF IInv, Deleting
<1>1. CASE ScanDir
  <2>1. PICK T \in SUBSET Listed(Here) :
          /\ Cardinality(T) = Cardinality(Listed(Here)) - KeepCount
          /\ \A t \in T, u \in Listed(Here) \ T : t < u
          /\ todo' = T
    BY <1>1 DEF ScanDir
  <2>2. Stay' = Listed(Here) \ T /\ at' = at
    BY <1>1, <2>1 DEF ScanDir, Stay, Listed, Here
  <2> QED BY <1>1, <2>1, <2>2, ScanKeeps DEF ScanDir
<1>2. CASE RemoveFile
  <2>1. PICK t \in todo, k \in Kinds : files' = files \ {<<Here, t, k>>}
    BY <1>2 DEF RemoveFile, Oldest
  <2>2. UNCHANGED <<phase, at, todo>> /\ Stay' = Stay
    BY <1>2, <2>1 DEF RemoveFile, Stay, Listed, Here
  <2> QED BY <2>2
<1>3. CASE RemoveDir
  <2>1. PICK t \in todo : <<Here, t, "vmcore">> \notin files /\ todo' = todo \ {t}
    BY <1>3 DEF RemoveDir, Oldest, Kinds
  <2>2. UNCHANGED <<files, phase, at>> /\ Stay' = Stay
    BY <1>3, <2>1 DEF RemoveDir, Stay, Listed, Here
  <2> QED BY <2>1, <2>2
<1>4. CASE phase' # "delete"
  BY <1>4
<1>5. CASE UNCHANGED ddvars
  BY <1>5 DEF ddvars, Stay, Listed, Here
<1> QED
  BY <1>1, <1>2, <1>3, <1>4, <1>5, StepIsDeleteDumps
     DEF DDNext, DDStep, Execute, SkipDir, NextDir, Throw, Return, Outside, Killed, Running

\* The first crash finds everything in order.
LEMMA InitIInv == Init => IInv
<1> SUFFICES ASSUME Init PROVE IInv
  OBVIOUS
<1> USE DEF Init, DDInit
<1>1. Places
  BY DEF Places
<1>2. Work /\ Scripted
  BY DirsFacts DEF Work, Scripted
<1>3. Clock /\ History /\ Waits /\ Deleting
  BY DEF Clock, History, Waits, Running, Deleting
<1> QED BY <1>1, <1>2, <1>3 DEF IInv

\* No step of the script, of delete_dumps or of the operator disturbs the invariant.
LEMMA StepIInv == IInv /\ [Next]_vars => IInv'
BY PlacesStep, WorkStep, ScriptedStep, ClockStep, HistoryStep, WaitsStep, DeletingStep DEF IInv

-----------------------------------------------------------------------------
(***************************************************************************)
(* The inductive invariant: for any number of crashes, settings, failures,  *)
(* power losses and moves of the clock.                                     *)
(***************************************************************************)
THEOREM CycleInvariant == Spec => []IInv
BY InitIInv, StepIInv, PTL DEF Spec

(***************************************************************************)
(* save_dump.sh uses delete_dumps as module DeleteDumps says: it is not     *)
(* started while it runs, and save_dump writes only when it has ended       *)
(* (save_dump.sh:180-194, deletedumps.cc:70-134).                           *)
(***************************************************************************)
THEOREM CycleUsesDeleteDumps == Spec => DeleteDumpsSpec
<1>1. Init => DDInit
  BY DEF Init
<1> QED
  BY <1>1, CycleInvariant, StepIsDeleteDumps, PTL DEF Spec, DeleteDumpsSpec, DDSpec

\* A vmcore that a step of delete_dumps takes away is the oldest, and those
\* that are to stay are newer.
LEMMA TakesTheOldest ==
  ASSUME IInv, DDNext, Running, NEW d \in AllDirs, NEW t \in Listed(d),
         <<d, t, "vmcore">> \notin files'
  PROVE  /\ \A u \in Listed(d) : u >= t
         /\ Cardinality(NewerThan(d, t)) >= KeepCount
<1>1. <<d, t, "vmcore">> \in files
  BY DEF Listed
<1>2. RemoveFile
  BY <1>1 DEF DDNext, DDStep, Execute, SkipDir, ScanDir, RemoveDir, NextDir, Throw, Return,
     Outside, Killed
<1>3. d = Here /\ t \in Oldest(todo)
  BY <1>1, <1>2 DEF RemoveFile
<1>4. /\ t \in todo /\ \A u \in todo : t <= u
      /\ Cardinality(Stay) = KeepCount
      /\ \A u \in Stay : t < u
  BY <1>2, <1>3 DEF RemoveFile, Oldest, IInv, Deleting
<1>5. Listed(d) \subseteq Nat
  BY StampsAssumption, ListedFinite
<1>6. \A u \in Listed(d) : u >= t
  BY <1>3, <1>4, <1>5 DEF Stay
<1>7. Stay \in SUBSET NewerThan(d, t)
  BY <1>3, <1>4, <1>5 DEF Stay, NewerThan
<1>8. IsFiniteSet(NewerThan(d, t)) /\ Cardinality(NewerThan(d, t)) \in Nat
  BY ListedFinite, FS_Subset, FS_CardinalityType DEF NewerThan
<1>9. Cardinality(Stay) <= Cardinality(NewerThan(d, t))
  BY <1>7, <1>8, FS_Subset
<1> QED BY <1>4, <1>6, <1>8, <1>9, DirsFacts

(***************************************************************************)
(* Dumps go oldest first, and the KDUMP_KEEP_OLD_DUMPS newest of a save     *)
(* directory are never touched, wherever an error or a power loss stops     *)
(* delete_dumps, in this run or an earlier one (deletedumps.cc:110-125).    *)
(***************************************************************************)
THEOREM DeletesOldestFirst == Spec => OldestFirst
<1> DEFINE A == Running => \A d \in AllDirs : \A t \in Listed(d) :
                  \/ <<d, t, "vmcore">> \in files'
                  \/ /\ \A u \in Listed(d) : u >= t
                     /\ Cardinality(NewerThan(d, t)) >= KeepCount
<1>1. IInv /\ [Next]_vars => [A]_ddvars
  <2> SUFFICES ASSUME IInv, [Next]_vars, DDNext PROVE A
    BY StepIsDeleteDumps
  <2> QED BY TakesTheOldest
<1> QED BY <1>1, CycleInvariant, PTL DEF Spec, OldestFirst

-----------------------------------------------------------------------------
\* Nothing is added to a directory whose files only go.
LEMMA FewerListed ==
  ASSUME NEW d, files' \subseteq files
  PROVE  /\ Cardinality(Listed(d)') \in Nat
         /\ Cardinality(Listed(d)') <= Cardinality(Listed(d))
<1> DEFINE L == Listed(d)
           M == Listed(d)'
<1>1. IsFiniteSet(L) /\ M \in SUBSET L
  BY ListedFinite DEF Listed
<1> HIDE DEF L, M
<1>2. IsFiniteSet(M) /\ Cardinality(M) <= Cardinality(L)
  BY <1>1, FS_Subset
<1>3. Cardinality(M) \in Nat
  BY <1>2, FS_CardinalityType
<1> QED BY <1>2, <1>3 DEF L, M

\* One dump is one more.
LEMMA OneMoreListed ==
  ASSUME NEW d, NEW t, files' \subseteq files \cup (AllDirs \X {t} \X Kinds)
  PROVE  /\ Cardinality(Listed(d)') \in Nat
         /\ Cardinality(Listed(d)') <= Cardinality(Listed(d)) + 1
<1> DEFINE L == Listed(d)
           M == Listed(d)'
           N == L \cup {t}
<1>1. IsFiniteSet(L) /\ M \in SUBSET N /\ Cardinality(L) \in Nat
  BY ListedFinite DEF Listed
<1> HIDE DEF L, M
<1>2. IsFiniteSet(N) /\ Cardinality(N) = IF t \in L THEN Cardinality(L) ELSE Cardinality(L) + 1
  BY <1>1, FS_AddElement
<1> HIDE DEF N
<1>3. IsFiniteSet(M) /\ Cardinality(M) <= Cardinality(N)
  BY <1>1, <1>2, FS_Subset
<1>4. Cardinality(M) \in Nat
  BY <1>3, FS_CardinalityType
<1>5. Cardinality(M) <= Cardinality(L) + 1
  BY <1>1, <1>2, <1>3, <1>4
<1> QED BY <1>4, <1>5 DEF L, M

\* A directory that is reduced stays so while files only go.
LEMMA ReducedKept ==
  ASSUME NEW d, files' \subseteq files, Reduced(d)
  PROVE  Reduced(d)'
BY FewerListed, ListedFinite, DirsFacts DEF Reduced, KeepCount

-----------------------------------------------------------------------------
\* One step of delete_dumps: the directories that are done stay reduced, and
\* the one it leaves is.
LEMMA DDStepTidy ==
  ASSUME Places, Work, Deleting, DDStep, Keep # 0,
         \A i \in 1..(at - 1) : SaveDirs[i] \in LocalDirs => Reduced(SaveDirs[i])
  PROVE  /\ \A i \in 1..(at' - 1) : SaveDirs[i] \in LocalDirs => Reduced(SaveDirs[i])'
         /\ phase' = "ok" => \A d \in AllDirs \cap LocalDirs : Reduced(d)'
<1>1. files' \subseteq files
  BY DDStepTakes
<1>2. \A i \in 1..(at - 1) : SaveDirs[i] \in LocalDirs => Reduced(SaveDirs[i])'
  BY <1>1, ReducedKept
<1>3. CASE SkipDir
  <2>1. at' = at + 1 /\ at \in Nat /\ phase' = "scan"
    BY <1>3 DEF SkipDir, Work
  <2>2. Here \in LocalDirs => Reduced(Here)
    <3>1. Here \in LocalDirs => Keep > Cardinality(Listed(Here))
      BY <1>3 DEF SkipDir
    <3> QED BY <3>1, ListedFinite, KeepAssumption DEF Reduced, KeepCount
  <2>3. PICK h : h = SaveDirs[at]
    OBVIOUS
  <2>4. h \in LocalDirs => Reduced(h)'
    BY <1>1, <2>2, <2>3, ReducedKept DEF Here
  <2>5. \A i \in 1..(at' - 1) : i \in 1..(at - 1) \/ SaveDirs[i] = h
    BY <2>1, <2>3
  <2> QED BY <1>2, <2>1, <2>4, <2>5
<1>4. CASE NextDir
  <2>1. at' = at + 1 /\ at \in Nat /\ phase' = "scan"
    BY <1>4 DEF NextDir, Work
  <2>2. Stay = Listed(Here) /\ Cardinality(Stay) = KeepCount
    BY <1>4 DEF NextDir, Deleting, Stay
  <2>3. PICK h : h = SaveDirs[at]
    OBVIOUS
  <2>4. Reduced(h)'
    BY <1>1, <2>2, <2>3, ReducedKept, DirsFacts DEF Reduced, Here
  <2>5. \A i \in 1..(at' - 1) : i \in 1..(at - 1) \/ SaveDirs[i] = h
    BY <2>1, <2>3
  <2> QED BY <1>2, <2>1, <2>4, <2>5
<1>5. CASE Return
  <2>1. at = Len(SaveDirs) + 1 /\ at' = at
    BY <1>5, DirsFacts DEF Return, Work
  <2>2. \A d \in AllDirs : \E i \in 1..(at - 1) : d = SaveDirs[i]
    BY <2>1, DirsFacts DEF AllDirs
  <2> QED BY <1>2, <2>1, <2>2
<1>6. CASE ScanDir \/ RemoveFile \/ RemoveDir \/ Throw
  <2>1. at' = at /\ phase' # "ok"
    BY <1>6 DEF ScanDir, RemoveFile, RemoveDir, Throw
  <2> QED BY <1>2, <2>1
<1> QED BY <1>3, <1>4, <1>5, <1>6 DEF DDStep

\* What the step of the script leaves behind, where it goes through
\* continue_error() and leaves the dumps alone.
LEMMA ScriptKeepsTidy ==
  ASSUME Tidy, UNCHANGED ddvars,
         trouble' = FALSE => trouble = FALSE /\ resume' = "up" /\ (Saving' => Saving)
  PROVE  Tidy'
<1>1. \A d : Listed(d)' = Listed(d) /\ Reduced(d)' = Reduced(d)
  BY DEF ddvars, Listed, Reduced, KeepCount
<1>2. Running' = Running /\ at' = at
  BY DEF ddvars, Running
<1> SUFFICES ASSUME trouble' = FALSE PROVE Tidy'
  BY DEF Tidy
<1> QED BY <1>1, <1>2 DEF Tidy

\* Every step keeps the directories as tidy as its place in the script asks for.
LEMMA TidyStep == IInv /\ Tidy /\ [Next]_vars => Tidy'
<1> SUFFICES ASSUME IInv, Tidy, [Next]_vars, trouble' = FALSE PROVE Tidy'
  BY DEF Tidy
<1> USE DEF Saving
<1>1. CASE Panic
  BY <1>1, ScriptKeepsTidy DEF Panic, Tidy
<1>2. CASE Prescript
  <2>1. PICK ok \in BOOLEAN : ContinueError(ok, "delete")
    BY <1>2 DEF Prescript
  <2> QED BY <1>2, <2>1, ContinueErrorGoes, ScriptKeepsTidy DEF Prescript, IInv, History, Tidy
<1>3. CASE DeleteStart
  <2>1. UNCHANGED <<files, trouble, resume>> /\ script' = "deleting"
        /\ (Keep = 0 \/ (phase' = "scan" /\ at' = 1))
    BY <1>3 DEF DeleteStart, Execute
  <2>2. \A d : Listed(d)' = Listed(d)
    BY <2>1 DEF Listed
  <2> QED BY <2>1, <2>2 DEF Tidy, KeepCount
<1>4. CASE DeleteWork
  <2>1. UNCHANGED svars /\ DDStep /\ script = "deleting"
    BY <1>4 DEF DeleteWork
  <2>2. Places /\ Work /\ Deleting /\ trouble = FALSE /\ resume' = "up"
    BY <2>1 DEF IInv, Tidy, svars
  <2> SUFFICES ASSUME Keep # 0
               PROVE  /\ \A d \in AllDirs \cap LocalDirs : Cardinality(Listed(d)') <= KeepCount + 1
                      /\ Saving' => \A d \in AllDirs \cap LocalDirs : Reduced(d)'
                      /\ \A i \in 1..(at' - 1) :
                           SaveDirs[i] \in LocalDirs => Reduced(SaveDirs[i])'
    BY <2>2 DEF Tidy, KeepCount
  <2>3. files' \subseteq files /\ phase \in {"scan", "delete"}
    BY <2>1, <2>2, DDStepTakes
  <2>4. ASSUME NEW d \in AllDirs \cap LocalDirs
        PROVE  Cardinality(Listed(d)') <= KeepCount + 1
    BY <2>2, <2>3, FewerListed, ListedFinite, DirsFacts DEF Tidy
  <2>5. /\ \A i \in 1..(at' - 1) : SaveDirs[i] \in LocalDirs => Reduced(SaveDirs[i])'
        /\ phase' = "ok" => \A d \in AllDirs \cap LocalDirs : Reduced(d)'
    BY <2>1, <2>2, <2>3, DDStepTidy DEF Tidy, Running
  <2>6. Saving' => phase' = "ok"
    BY <2>1 DEF svars
  <2> QED BY <2>4, <2>5, <2>6
<1>5. CASE DeleteEnd
  <2>1. phase = "ok" /\ trouble = FALSE /\ resume' = resume /\ script = "deleting"
    BY <1>5, ContinueErrorGoes DEF DeleteEnd, IInv, History
  <2> QED BY <1>5, <2>1, ScriptKeepsTidy DEF DeleteEnd, Tidy
<1>6. CASE SaveMkdir
  <2>1. PICK d \in AllDirs, kinds \in SUBSET {"other"} :
          files' = files \cup ({d} \X {now} \X kinds)
    <3>1. made + 1 \in DOMAIN SaveDirs /\ made' = made + 1
      BY <1>6, DirsFacts DEF SaveMkdir, IInv, Scripted
    <3>2. PICK kinds \in SUBSET {"other"} : Put(SaveDirs[made'], kinds)
      BY <1>6 DEF SaveMkdir
    <3> QED BY <3>1, <3>2, DirsFacts DEF Put
  <2>2. UNCHANGED <<script, trouble, resume>> /\ phase' = "idle" /\ script = "save"
    BY <1>6 DEF SaveMkdir, Put
  <2>3. \A e : Listed(e)' = Listed(e)
    BY <2>1 DEF Listed
  <2> QED BY <2>2, <2>3 DEF Tidy, Reduced, KeepCount, Running
<1>7. CASE SaveWrite
  <2>1. UNCHANGED <<trouble, resume>> /\ phase' = "idle" /\ script = "save" /\ script' = "check"
    BY <1>7 DEF SaveWrite, Put
  <2>2. files' \subseteq files \cup (AllDirs \X {now} \X Kinds)
    BY <1>7, DirsFacts DEF SaveWrite, Put, DumpKind, Kinds
  <2>3. ASSUME Keep # 0, NEW d \in AllDirs \cap LocalDirs
        PROVE  Cardinality(Listed(d)') <= KeepCount + 1
    <3>1. Reduced(d)
      BY <2>1, <2>3 DEF Tidy
    <3>2. Cardinality(Listed(d)') \in Nat /\ Cardinality(Listed(d)') <= Cardinality(Listed(d)) + 1
      BY <2>2, OneMoreListed
    <3>3. Cardinality(Listed(d)) \in Nat /\ KeepCount \in Nat
      BY ListedFinite, DirsFacts
    <3> QED BY <3>1, <3>2, <3>3 DEF Reduced
  <2> QED BY <2>1, <2>3 DEF Tidy, Running, KeepCount
<1>8. CASE SaveSucceeds
  <2>1. ContinueError(TRUE, "postscript") /\ UNCHANGED ddvars
    BY <1>8 DEF SaveSucceeds
  <2>2. script' = "postscript" /\ resume' = resume /\ trouble' = trouble
    BY <2>1 DEF ContinueError, IInv, History
  <2> QED BY <2>1, <2>2, ScriptKeepsTidy DEF Tidy
<1>9. CASE SaveFails \/ SaveGivesBack
  BY <1>9, ContinueErrorGoes DEF SaveFails, SaveGivesBack, IInv, History
<1>10. CASE Postscript
  <2>1. PICK ok \in BOOLEAN : ContinueError(ok, "exit")
    BY <1>10 DEF Postscript
  <2> QED BY <1>10, <2>1, ContinueErrorGoes, ScriptKeepsTidy DEF Postscript, IInv, History, Tidy
<1>11. CASE RunTransfer \/ HandleExit \/ LeaveShell \/ Reboot
  BY <1>11, ScriptKeepsTidy DEF RunTransfer, HandleExit, LeaveShell, Reboot, Tidy
<1>12. CASE PowerLoss
  BY <1>12 DEF PowerLoss
<1>13. CASE UNCHANGED vars
  BY <1>13, ScriptKeepsTidy DEF vars, ddvars, svars, Tidy
<1> QED
  BY <1>1, <1>2, <1>3, <1>4, <1>5, <1>6, <1>7, <1>8, <1>9, <1>10, <1>11, <1>12, <1>13
     DEF Next, ScriptStep

\* Before the first crash there is nothing to tidy up.
LEMMA InitTidy == Init => Tidy
<1> SUFFICES ASSUME Init PROVE Tidy
  OBVIOUS
<1>1. \A d : Cardinality(Listed(d)) = 0
  BY FS_EmptySet DEF Init, DDInit, Listed
<1> QED BY <1>1, DirsFacts DEF Init, DDInit, Tidy, Saving, Running

(***************************************************************************)
(* Without a failure no save directory ever has more than                   *)
(* KDUMP_KEEP_OLD_DUMPS + 1 dumps with a vmcore, however many crashes there *)
(* are (save_dump.sh:180-194, deletedumps.cc:95-134).                       *)
(***************************************************************************)
THEOREM DumpsAreBounded == Spec => []RetentionBound
<1>1. IInv /\ Tidy => RetentionBound
  BY DEF IInv, History, Tidy, RetentionBound
<1>2. Spec => []Tidy
  BY InitTidy, TidyStep, CycleInvariant, PTL DEF Spec
<1> QED BY <1>1, <1>2, CycleInvariant, PTL

-----------------------------------------------------------------------------
(***************************************************************************)
(* The types.  That no more dumps are saved than there were crashes needs   *)
(* that save_dump runs at most once for each: until it has succeeded, and   *)
(* while a shell stands before a step that leads to it, there is a crash    *)
(* without a dump.                                                          *)
(***************************************************************************)
Owed ==
  \/ script \in {"prescript", "delete", "deleting", "save", "check"}
  \/ script = "shell" /\ resume \in {"delete", "save"}
Counted ==
  /\ crashes \in 0..MaxCrashes
  /\ saved \in Seq(Stamps)
  /\ Len(saved) <= crashes
  /\ Owed => Len(saved) < crashes

\* Every step keeps the counts.
LEMMA CountedStep == IInv /\ Counted /\ [Next]_vars => Counted'
<1> SUFFICES ASSUME IInv, Counted, [Next]_vars PROVE Counted'
  OBVIOUS
<1> USE DEF Counted
<1>0. Len(saved) \in Nat /\ MaxCrashes \in Nat
  BY CycleAssumption
<1>1. CASE Panic
  <2>1. crashes' = crashes + 1 /\ saved' = saved /\ crashes < MaxCrashes
    BY <1>1 DEF Panic
  <2> QED
    BY <1>0, <2>1
<1>2. CASE SaveSucceeds
  <2>1. /\ script = "check" /\ saved' = Append(saved, now) /\ crashes' = crashes
        /\ script' = "postscript"
    BY <1>2 DEF SaveSucceeds, ContinueError
  <2>2. now \in Stamps
    BY <2>1 DEF IInv, Clock
  <2>3. Len(saved) < crashes
    BY <2>1 DEF Owed
  <2>4. saved' \in Seq(Stamps) /\ Len(saved') = Len(saved) + 1
    BY <2>1, <2>2
  <2>5. ~Owed'
    BY <2>1 DEF Owed
  <2> QED
    BY <1>0, <2>1, <2>3, <2>4, <2>5
<1>3. ASSUME UNCHANGED <<crashes, saved>>, Owed' => Owed PROVE Counted'
  BY <1>3
<1>4. CASE Prescript
  BY <1>3, <1>4 DEF Prescript, ContinueError, Owed
<1>5. CASE DeleteStart \/ DeleteWork
  BY <1>3, <1>5 DEF DeleteStart, DeleteWork, svars, Owed
<1>6. CASE DeleteEnd
  BY <1>3, <1>6 DEF DeleteEnd, ContinueError, Owed
<1>7. CASE SaveMkdir \/ SaveWrite
  BY <1>3, <1>7 DEF SaveMkdir, SaveWrite, Owed
<1>8. CASE SaveFails
  BY <1>3, <1>8 DEF SaveFails, ContinueError, Owed
<1>9. CASE SaveGivesBack
  BY <1>3, <1>9 DEF SaveGivesBack, ContinueError, Owed
<1>10. CASE Postscript
  BY <1>3, <1>10 DEF Postscript, ContinueError, Owed
<1>11. CASE RunTransfer \/ HandleExit
  BY <1>3, <1>11 DEF RunTransfer, HandleExit, Owed
<1>12. CASE LeaveShell
  <2>1. script = "shell" /\ script' = resume /\ resume' = resume /\ UNCHANGED <<crashes, saved>>
    BY <1>12 DEF LeaveShell
  <2>2. resume \in {"up", "delete", "save", "postscript", "exit"}
    BY DEF IInv, Scripted
  <2> QED
    BY <1>3, <2>1, <2>2 DEF Owed
<1>13. CASE Reboot \/ PowerLoss
  BY <1>3, <1>13 DEF Reboot, PowerLoss, Owed
<1>14. CASE UNCHANGED vars
  BY <1>3, <1>14 DEF vars, svars, Owed
<1> QED
  BY <1>1, <1>2, <1>4, <1>5, <1>6, <1>7, <1>8, <1>9, <1>10, <1>11, <1>12, <1>13, <1>14
     DEF Next, ScriptStep

(***************************************************************************)
(* The variables stay in their ranges, and save_dump never succeeds more    *)
(* often than the kernel has crashed (save_dump.sh:150-207).                *)
(***************************************************************************)
THEOREM TypeCorrect == Spec => []TypeOK
<1>1. Init => Counted
  <2> SUFFICES ASSUME Init PROVE Counted
    OBVIOUS
  <2>1. crashes = 0 /\ saved = <<>> /\ ~Owed
    BY DEF Init, Owed
  <2> QED
    BY <2>1, CycleAssumption DEF Counted
<1>2. Spec => []Counted
  BY <1>1, CountedStep, CycleInvariant, PTL DEF Spec
<1>3. IInv /\ Counted => TypeOK
  <2> SUFFICES ASSUME IInv, Counted PROVE TypeOK
    OBVIOUS
  <2>1. DDTypeOK
    BY DEF IInv, Places, Work, DDTypeOK
  <2>2. \A i \in DOMAIN saved : saved[i] \in Stamps
    BY DEF Counted
  <2>3. now \in Stamps \cup {0}
    BY DEF IInv, Clock
  <2> QED
    BY <2>1, <2>2, <2>3 DEF IInv, Scripted, History, Counted, TypeOK
<1> QED
  BY <1>2, <1>3, CycleInvariant, PTL
=============================================================================
