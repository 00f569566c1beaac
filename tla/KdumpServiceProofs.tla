------------------------- MODULE KdumpServiceProofs -------------------------
(***************************************************************************)
(* The kdump service, with any number of instances of load-once.sh and of  *)
(* hotplug events. First what load-once.sh guarantees for any number of    *)
(* instances (module LoadOnce); then that the service runs it as that      *)
(* module says, and that a stale panic kernel has one of the known causes. *)
(***************************************************************************)
EXTENDS KdumpService, TLAPS

-----------------------------------------------------------------------------
(* load-once.sh.                                                           *)

(***************************************************************************)
(* The inductive invariant.  OneLoader alone is not inductive: that an      *)
(* instance is between flock and the end of "flock -c" must be tied to      *)
(* holder.  HolderDrains needs that a process id found in the file cannot   *)
(* be appended again.                                                       *)
(***************************************************************************)
LockInv  == \A p \in Procs : pc[p] \in Locked <=> holder = p
FoundInv == \A p \in Procs : found[p] \subseteq {q \in Procs : pc[q] \notin {"new", "append"}}

LIInv == LTypeOK /\ LockInv /\ FoundInv /\ TakenIsServed /\ HolderDrains

\* A step of one instance, spelled out for the case distinctions below.
LEMMA StepCases ==
  ASSUME LNext
  PROVE  \E p \in Procs :
           \/ Invoke(p) \/ AppendJob(p) \/ Flock(p) \/ FlockBusy(p)
           \/ TestPending(p) \/ TestEmpty(p) \/ Truncate(p)
           \/ TruncateFails(p) \/ LoadBegin(p) \/ LoadEnd(p) \/ Unlock(p)
BY DEF LNext, Script

\* Without instances the invariant holds.
LEMMA InitIInv == LInit => LIInv
BY NoneAssumption DEF LInit, LIInv, LTypeOK, States, LockInv, Locked, FoundInv,
     TakenIsServed, HolderDrains

\* The variables stay in their ranges.
LEMMA TypeStep == LTypeOK /\ LNext => LTypeOK'
<1> SUFFICES ASSUME LTypeOK, LNext PROVE LTypeOK'
  OBVIOUS
<1> USE DEF LTypeOK, States, Locked, Goto
<1>0. PICK p \in Procs :
           \/ Invoke(p) \/ AppendJob(p) \/ Flock(p) \/ FlockBusy(p)
           \/ TestPending(p) \/ TestEmpty(p) \/ Truncate(p)
           \/ TruncateFails(p) \/ LoadBegin(p) \/ LoadEnd(p) \/ Unlock(p)
  BY StepCases
<1>1. CASE Invoke(p)        BY <1>1 DEF Invoke
<1>2. CASE AppendJob(p)     BY <1>2 DEF AppendJob
<1>3. CASE Flock(p)         BY <1>3 DEF Flock
<1>4. CASE FlockBusy(p)     BY <1>4 DEF FlockBusy
<1>5. CASE TestPending(p)   BY <1>5 DEF TestPending
<1>6. CASE TestEmpty(p)     BY <1>6 DEF TestEmpty
<1>7. CASE Truncate(p)      BY <1>7 DEF Truncate
<1>8. CASE TruncateFails(p) BY <1>8 DEF TruncateFails
<1>9. CASE LoadBegin(p)     BY <1>9 DEF LoadBegin
<1>10. CASE LoadEnd(p)      BY <1>10 DEF LoadEnd
<1>11. CASE Unlock(p)       BY <1>11 DEF Unlock
<1> QED BY <1>0, <1>1, <1>2, <1>3, <1>4, <1>5, <1>6, <1>7, <1>8, <1>9, <1>10, <1>11

\* Only the lock holder is between flock and the end of its command.
LEMMA LockStep == LTypeOK /\ LockInv /\ LNext => LockInv'
<1> SUFFICES ASSUME LTypeOK, LockInv, LNext PROVE LockInv'
  OBVIOUS
<1> USE NoneAssumption DEF LTypeOK, States, Locked, Goto, LockInv
<1>0. PICK p \in Procs :
           \/ Invoke(p) \/ AppendJob(p) \/ Flock(p) \/ FlockBusy(p)
           \/ TestPending(p) \/ TestEmpty(p) \/ Truncate(p)
           \/ TruncateFails(p) \/ LoadBegin(p) \/ LoadEnd(p) \/ Unlock(p)
  BY StepCases
<1>1. CASE Invoke(p)        BY <1>1 DEF Invoke
<1>2. CASE AppendJob(p)     BY <1>2 DEF AppendJob
<1>3. CASE Flock(p)         BY <1>3 DEF Flock
<1>4. CASE FlockBusy(p)     BY <1>4 DEF FlockBusy
<1>5. CASE TestPending(p)   BY <1>5 DEF TestPending
<1>6. CASE TestEmpty(p)     BY <1>6 DEF TestEmpty
<1>7. CASE Truncate(p)      BY <1>7 DEF Truncate
<1>8. CASE TruncateFails(p) BY <1>8 DEF TruncateFails
<1>9. CASE LoadBegin(p)     BY <1>9 DEF LoadBegin
<1>10. CASE LoadEnd(p)      BY <1>10 DEF LoadEnd
<1>11. CASE Unlock(p)       BY <1>11 DEF Unlock
<1> QED BY <1>0, <1>1, <1>2, <1>3, <1>4, <1>5, <1>6, <1>7, <1>8, <1>9, <1>10, <1>11

\* Jobs that were taken wait for the start of load.sh; nothing else comes
\* between.
LEMMA ServedStep == LTypeOK /\ TakenIsServed /\ LNext => TakenIsServed'
<1> SUFFICES ASSUME LTypeOK, TakenIsServed, LNext PROVE TakenIsServed'
  OBVIOUS
<1> USE DEF LTypeOK, States, Locked, Goto, TakenIsServed
<1>0. PICK p \in Procs :
           \/ Invoke(p) \/ AppendJob(p) \/ Flock(p) \/ FlockBusy(p)
           \/ TestPending(p) \/ TestEmpty(p) \/ Truncate(p)
           \/ TruncateFails(p) \/ LoadBegin(p) \/ LoadEnd(p) \/ Unlock(p)
  BY StepCases
<1>1. CASE Truncate(p)
  BY <1>1 DEF Truncate
<1>2. CASE LoadBegin(p)
  BY <1>2 DEF LoadBegin
<1>3. CASE ~(Truncate(p) \/ LoadBegin(p))
  <2>1. unserved' = unserved /\ pc[p] # "load" /\ pc' = [pc EXCEPT ![p] = pc'[p]]
    BY <1>0, <1>3 DEF Invoke, AppendJob, Flock, FlockBusy, TestPending, TestEmpty,
         TruncateFails, LoadEnd, Unlock
  <2> QED BY <2>1
<1> QED BY <1>1, <1>2, <1>3

\* A process id that was found in the file belongs to an instance that has
\* appended it, and does so only once.
LEMMA FoundStep == LTypeOK /\ FoundInv /\ LNext => FoundInv'
<1> SUFFICES ASSUME LTypeOK, FoundInv, LNext PROVE FoundInv'
  OBVIOUS
<1> USE DEF LTypeOK, States, Locked, Goto, FoundInv
<1>0. PICK p \in Procs :
           \/ Invoke(p) \/ AppendJob(p) \/ Flock(p) \/ FlockBusy(p)
           \/ TestPending(p) \/ TestEmpty(p) \/ Truncate(p)
           \/ TruncateFails(p) \/ LoadBegin(p) \/ LoadEnd(p) \/ Unlock(p)
  BY StepCases
<1>1. \A q \in Procs : pc[q] \notin {"new", "append"} => pc'[q] \notin {"new", "append"}
  BY <1>0 DEF Invoke, AppendJob, Flock, FlockBusy, TestPending, TestEmpty,
       Truncate, TruncateFails, LoadBegin, LoadEnd, Unlock
<1>2. CASE Flock(p)
  <2>1. \A q \in Procs : found'[q] = found[q] \/ found'[q] = jobs
    BY <1>2 DEF Flock
  <2> QED BY <1>1, <2>1
<1>3. CASE ~Flock(p)
  <2>1. found' = found
    BY <1>0, <1>3 DEF Invoke, AppendJob, FlockBusy, TestPending, TestEmpty,
         Truncate, TruncateFails, LoadBegin, LoadEnd, Unlock
  <2> QED BY <1>1, <2>1
<1> QED BY <1>2, <1>3

\* The lock holder leaves the loop only when it has seen an empty file, and
\* the jobs it found there cannot come back.
LEMMA DrainStep == LTypeOK /\ FoundInv /\ HolderDrains /\ LNext => HolderDrains'
<1> SUFFICES ASSUME LTypeOK, FoundInv, HolderDrains, LNext, ~ioError',
                    NEW q \in Procs, pc'[q] = "unlock"
             PROVE  found'[q] \cap jobs' = {}
  BY DEF HolderDrains
<1> USE DEF LTypeOK, States, Locked, Goto
<1>0. PICK p \in Procs :
           \/ Invoke(p) \/ AppendJob(p) \/ Flock(p) \/ FlockBusy(p)
           \/ TestPending(p) \/ TestEmpty(p) \/ Truncate(p)
           \/ TruncateFails(p) \/ LoadBegin(p) \/ LoadEnd(p) \/ Unlock(p)
  BY StepCases
<1>1. CASE TestEmpty(p)
  BY <1>1 DEF TestEmpty, HolderDrains
<1>2. CASE AppendJob(p)
  <2>1. pc[q] = "unlock" /\ ~ioError /\ jobs' = jobs \cup {p} /\ found' = found
    BY <1>2 DEF AppendJob
  <2>2. p \notin found[q]
    BY <1>2 DEF AppendJob, FoundInv
  <2>3. found[q] \cap jobs = {}
    BY <2>1 DEF HolderDrains
  <2> QED BY <2>1, <2>2, <2>3
<1>3. CASE TruncateFails(p)
  BY <1>3 DEF TruncateFails
<1>4. CASE ~(TestEmpty(p) \/ AppendJob(p) \/ TruncateFails(p))
  <2>1. pc[q] = "unlock" /\ ~ioError /\ jobs' \subseteq jobs /\ found'[q] = found[q]
    BY <1>0, <1>4 DEF Invoke, Flock, FlockBusy, TestPending, Truncate, LoadBegin,
         LoadEnd, Unlock
  <2>2. found[q] \cap jobs = {}
    BY <2>1 DEF HolderDrains
  <2> QED BY <2>1, <2>2
<1> QED BY <1>1, <1>2, <1>3, <1>4

\* The invariant holds in every reachable state.
THEOREM Invariant == LSpec => []LIInv
<1>1. LIInv /\ [LNext]_lvars => LIInv'
  <2>1. LIInv /\ LNext => LIInv'
    BY TypeStep, LockStep, ServedStep, FoundStep, DrainStep DEF LIInv
  <2>2. LIInv /\ UNCHANGED lvars => LIInv'
    BY DEF LIInv, LTypeOK, States, Locked, LockInv, FoundInv, TakenIsServed,
           HolderDrains, lvars
  <2> QED BY <2>1, <2>2
<1> QED BY InitIInv, <1>1, PTL DEF LSpec

\* Type correctness of load-once.sh's state, for any number of instances.
THEOREM TypeCorrect == LSpec => []LTypeOK
<1>1. LIInv => LTypeOK
  BY DEF LIInv
<1> QED BY Invariant, <1>1, PTL

\* load.sh is never run by two instances of load-once.sh at a time.
THEOREM MutualExclusion == LSpec => []OneLoader
<1>1. LIInv => OneLoader
  BY DEF LIInv, LockInv, Locked, OneLoader
<1> QED BY Invariant, <1>1, PTL

\* A job taken from the file is followed by a load that begins afterwards.
THEOREM TakenJobsAreServed == LSpec => []TakenIsServed
<1>1. LIInv => TakenIsServed
  BY DEF LIInv
<1> QED BY Invariant, <1>1, PTL

\* The lock holder leaves none of the jobs behind that it found.
THEOREM HolderDrainsJobs == LSpec => []HolderDrains
<1>1. LIInv => HolderDrains
  BY DEF LIInv
<1> QED BY Invariant, <1>1, PTL

\* All that the lock promises, for any number of instances and jobs: one
\* loader at a time, and no job taken or found without a later load.
THEOREM LockProtects == LSpec => []LockProtectsJobs
<1> QED BY MutualExclusion, TakenJobsAreServed, HolderDrainsJobs, PTL
           DEF LockProtectsJobs

-----------------------------------------------------------------------------
(* The whole service.                                                      *)

\* The parts of TypeOK that the rest builds on.
Versions ==
  /\ hw \in Nat \ {0} /\ uevents \in Nat /\ uevents < hw
  /\ image = NoImage \/ (image.hw \in 1..hw /\ image.by \in Loaders \cup {"boot"})
  /\ snap \in [Loaders -> 0..hw]
LoadSteps ==
  /\ load \in [Loaders -> {"ended", "find", "rebuild", "check", "rule"} \cup Calls]
  /\ unit \in [Units -> {"inactive", "starting", "active", "stopping", "failed"}]
Flags  == rule \in BOOLEAN /\ initrd \in {"none", "old", "new"}
Bounds == hw <= MaxHw + 1 /\ starts \in [Units -> 0..MaxStarts] /\ once \in 0..hw
Image  == image \in {NoImage} \cup [hw : 1..hw, by : Loaders \cup {"boot"}]
History == skipped \in BOOLEAN /\ broken \in BOOLEAN

\* load.sh runs for the lock holder and for units that are being started, and
\* what it saw of the hardware is of interest during the call of kexec only.
RunInv ==
  /\ \A p \in Procs : load[p] # "ended" => pc[p] = "loading"
  /\ \A u \in Units : load[u] # "ended" => unit[u] = "starting"
  /\ \A l \in Loaders : snap[l] # 0 => load[l] \in Calls

\* Unless something broke, one load.sh runs at a time.
Alone ==
  broken = FALSE =>
    \A l, m \in Loaders : load[l] # "ended" /\ load[m] # "ended" => l = m

\* Somebody will still look at the hardware as it is now.
WillRead(l) == load[l] \in {"find", "rebuild", "check"} \cup Calls /\ snap[l] = 0
Covered ==
  \/ uevents > 0 \/ jobs # {}
  \/ \E p \in Procs : pc[p] \in {"append", "load"}
  \/ \E l \in Loaders : WillRead(l)

(***************************************************************************)
(* The core of the argument: an image, or what a running kexec has read, is *)
(* out of date only as long as the event is on its way through udev, the    *)
(* jobs file and the lock to a load.sh that has not read the hardware yet.  *)
(***************************************************************************)
Fine == skipped = FALSE /\ broken = FALSE /\ ioError = FALSE
StaleInv ==
  Fine =>
    /\ Loaded /\ image.hw < hw => Covered \/ \E l \in Loaders : snap[l] = hw
    /\ \A l \in Loaders : snap[l] # 0 /\ snap[l] < hw => Covered

KInv == LIInv /\ Versions /\ LoadSteps /\ History /\ RunInv /\ Alone /\ StaleInv

-----------------------------------------------------------------------------
\* Each step of the service is one of load-once.sh or leaves its state alone, so
\* that what is proved of its steps holds here.
LEMMA StepUsesLoadOnce == [Next]_vars => [LNext]_lvars
<1> SUFFICES ASSUME [Next]_vars PROVE [LNext]_lvars
  OBVIOUS
<1>1. CASE Udev
  BY <1>1 DEF Udev, LNext
<1>2. ASSUME NEW p \in Procs, OnceStep(p) \/ OnceLoads(p) PROVE [LNext]_lvars
  BY <1>2 DEF OnceStep, OnceLoads, LNext, Script
<1>3. ASSUME NEW l \in Loaders, LoadStep(l) PROVE [LNext]_lvars
  BY <1>3 DEF LoadStep, FindKernel, RebuildKdumprd, CheckInitrd, KexecReads,
       KexecInstalls, KexecFails, InstallRule
<1>4. CASE Hotplug \/ UNCHANGED vars
  BY <1>4 DEF Hotplug, vars
<1>5. ASSUME NEW u \in Units, StartUnit(u) \/ Unload(u) \/ RemoveRule(u)
      PROVE  [LNext]_lvars
  BY <1>5 DEF StartUnit, Unload, RemoveRule
<1> QED
  BY <1>1, <1>2, <1>3, <1>4, <1>5 DEF Next

\* The invariant of load-once.sh is kept by whoever steps as LoadOnce says.
LEMMA StepLIInv == LIInv /\ [LNext]_lvars => LIInv'
<1>1. LIInv /\ LNext => LIInv'
  BY TypeStep, LockStep, ServedStep, FoundStep, DrainStep DEF LIInv
<1>2. LIInv /\ UNCHANGED lvars => LIInv'
  BY DEF LIInv, LTypeOK, States, Locked, LockInv, FoundInv, TakenIsServed,
         HolderDrains, lvars
<1> QED BY <1>1, <1>2

\* Units are no instances of load-once.sh.
LEMMA UnitsAreNoProcs ==
  /\ \A u \in Units : u \in Loaders /\ u \notin Procs
  /\ \A q \in Procs : q \in Loaders /\ q \notin Units
  /\ \A l \in Loaders : l \in Procs \/ l \in Units
BY ServiceAssumption DEF Loaders

\* What a step of load.sh may touch.
LEMMA LoadStepTouches ==
  ASSUME LoadSteps, Versions, RunInv, NEW l \in Loaders, LoadStep(l)
  PROVE  /\ UNCHANGED <<lvars, hw, uevents, skipped>>
         /\ load[l] # "ended"
         /\ \A m \in Loaders \ {l} : load'[m] = load[m] /\ snap'[m] = snap[m]
         /\ load' \in [Loaders -> {"ended", "find", "rebuild", "check", "rule"} \cup Calls]
         /\ snap' \in [Loaders -> 0..hw]
         /\ snap'[l] # 0 => load'[l] \in Calls
         /\ broken' = FALSE => broken = FALSE
<1> USE DEF LoadSteps, Versions, RunInv, Calls
<1>1. CASE FindKernel(l)
  BY <1>1 DEF FindKernel, LoadGoes, LoadFailed
<1>2. CASE RebuildKdumprd(l)
  BY <1>2 DEF RebuildKdumprd, LoadGoes, LoadFailed
<1>3. CASE CheckInitrd(l)
  BY <1>3 DEF CheckInitrd, LoadGoes, LoadFailed
<1>4. CASE KexecReads(l)
  BY <1>4 DEF KexecReads
<1>5. CASE KexecInstalls(l)
  BY <1>5 DEF KexecInstalls, LoadGoes
<1>6. CASE KexecFails(l)
  BY <1>6 DEF KexecFails, LoadGoes
<1>7. CASE InstallRule(l)
  BY <1>7 DEF InstallRule
<1> QED BY <1>1, <1>2, <1>3, <1>4, <1>5, <1>6, <1>7 DEF LoadStep

\* No version of the hardware is seen before it exists.
LEMMA VersionsStep ==
  ASSUME Versions, LoadSteps, RunInv, [Next]_vars
  PROVE  Versions'
<1>1. CASE Hotplug
  BY <1>1 DEF Hotplug, Versions, Loaded
<1>2. CASE Udev
  BY <1>2 DEF Udev, Versions
<1>3. ASSUME NEW l \in Loaders, LoadStep(l) PROVE Versions'
  <2>1. UNCHANGED <<hw, uevents>> /\ snap' \in [Loaders -> 0..hw]
    BY <1>3, LoadStepTouches
  <2>2. image' = NoImage \/ (image'.hw \in 1..hw /\ image'.by \in Loaders \cup {"boot"})
    <3>1. CASE KexecInstalls(l)
      BY <3>1 DEF KexecInstalls, Versions
    <3>2. CASE ~KexecInstalls(l)
      <4>1. image' \in {image, NoImage}
        BY <1>3, <3>2 DEF LoadStep, FindKernel, RebuildKdumprd, CheckInitrd, KexecReads,
             KexecFails, InstallRule
      <4> QED BY <4>1 DEF Versions
    <3> QED BY <3>1, <3>2
  <2> QED BY <2>1, <2>2 DEF Versions
<1>4. ASSUME NEW u \in Units, Unload(u) PROVE Versions'
  BY <1>4 DEF Unload, Versions
<1>5. CASE UNCHANGED <<hw, uevents, image, snap>>
  BY <1>5 DEF Versions
<1> QED
  BY <1>1, <1>2, <1>3, <1>4, <1>5 DEF Next, OnceStep, OnceLoads, kvars, vars, StartUnit, RemoveRule

\* load.sh and the units stay within their steps.
LEMMA LoadStepsStep ==
  ASSUME Versions, LoadSteps, RunInv, [Next]_vars
  PROVE  LoadSteps'
<1>1. ASSUME NEW p \in Procs, OnceLoads(p) PROVE LoadSteps'
  BY <1>1 DEF OnceLoads, RunLoad, LoadSteps
<1>2. ASSUME NEW l \in Loaders, LoadStep(l) PROVE LoadSteps'
  <2>1. unit' \in [Units -> {"inactive", "starting", "active", "stopping", "failed"}]
    BY <1>2 DEF LoadStep, FindKernel, RebuildKdumprd, CheckInitrd, KexecReads,
         KexecInstalls, KexecFails, InstallRule, LoadGoes, LoadFailed, LoadSteps
  <2> QED BY <1>2, <2>1, LoadStepTouches DEF LoadSteps
<1>3. ASSUME NEW u \in Units, StartUnit(u) \/ Unload(u) \/ RemoveRule(u) PROVE LoadSteps'
  BY <1>3 DEF StartUnit, Unload, RemoveRule, RunLoad, LoadSteps
<1>4. CASE UNCHANGED <<load, unit>>
  BY <1>4 DEF LoadSteps
<1> QED
  BY <1>1, <1>2, <1>3, <1>4 DEF Next, Hotplug, Udev, OnceStep, kvars, vars

\* The histories stay truth values.
LEMMA HistoryStep == History /\ [Next]_vars => History'
<1> SUFFICES ASSUME History, [Next]_vars PROVE History'
  OBVIOUS
<1> USE DEF History
<1>1. ASSUME NEW l \in Loaders, broken' = (broken \/ Beside(l)), UNCHANGED skipped
      PROVE  History'
  <2> DEFINE b == Beside(l)
  <2>1. b \in BOOLEAN
    BY DEF Beside
  <2>2. broken' = (broken \/ b)
    BY <1>1
  <2> HIDE DEF b
  <2>3. broken' \in BOOLEAN
    BY <2>1, <2>2
  <2> QED BY <1>1, <2>3
<1>2. ASSUME NEW p \in Procs, OnceLoads(p) PROVE History'
  BY <1>1, <1>2, UnitsAreNoProcs DEF OnceLoads
<1>3. ASSUME NEW u \in Units, StartUnit(u) PROVE History'
  BY <1>1, <1>3, UnitsAreNoProcs DEF StartUnit
<1>4. ASSUME NEW l \in Loaders, LoadStep(l) PROVE History'
  BY <1>4 DEF LoadStep, FindKernel, RebuildKdumprd, CheckInitrd, KexecReads,
       KexecInstalls, KexecFails, InstallRule, LoadGoes, LoadFailed
<1>5. CASE Hotplug \/ Udev \/ UNCHANGED <<skipped, broken>>
  BY <1>5 DEF Hotplug, Udev
<1> QED
  BY <1>2, <1>3, <1>4, <1>5 DEF Next, OnceStep, Unload, RemoveRule, vars, kvars

\* load.sh runs only for a caller that waits for it.
LEMMA RunInvStep ==
  ASSUME LTypeOK, Versions, LoadSteps, RunInv, [Next]_vars
  PROVE  RunInv'
<1>1. CASE Udev
  <2>1. UNCHANGED <<load, snap, unit>>
    BY <1>1 DEF Udev
  <2>2. \A q \in Procs : pc[q] = "loading" => pc'[q] = "loading"
    BY <1>1 DEF Udev, Invoke, Goto, LTypeOK, lvars
  <2> QED BY <2>1, <2>2 DEF RunInv
<1>2. ASSUME NEW p \in Procs, OnceStep(p) PROVE RunInv'
  <2>1. UNCHANGED kvars
    BY <1>2 DEF OnceStep
  <2>2. \A q \in Procs : pc[q] = "loading" /\ load[q] # "ended" => pc'[q] = "loading"
    BY <1>2 DEF OnceStep, AppendJob, Flock, FlockBusy, TestPending, TestEmpty, Truncate,
         TruncateFails, Unlock, LoadEnd, Goto, LTypeOK
  <2> QED BY <2>1, <2>2 DEF RunInv, kvars
<1>3. ASSUME NEW p \in Procs, OnceLoads(p) PROVE RunInv'
  <2>1. load[p] = "ended" /\ snap[p] = 0
    BY <1>3, UnitsAreNoProcs DEF OnceLoads, LoadBegin, Goto, RunInv, Calls
  <2>2. load' = [load EXCEPT ![p] = "find"] /\ UNCHANGED <<snap, unit>>
    BY <1>3 DEF OnceLoads, RunLoad
  <2>3. pc' = [pc EXCEPT ![p] = "loading"]
    BY <1>3 DEF OnceLoads, LoadBegin, Goto
  <2> QED
    BY <2>1, <2>2, <2>3, UnitsAreNoProcs DEF RunInv, LoadSteps, LTypeOK
<1>4. ASSUME NEW l \in Loaders, LoadStep(l) PROVE RunInv'
  <2>1. /\ load[l] # "ended" /\ UNCHANGED pc
        /\ (snap'[l] # 0 => load'[l] \in Calls)
        /\ \A m \in Loaders \ {l} : load'[m] = load[m] /\ snap'[m] = snap[m]
    BY <1>4, LoadStepTouches DEF lvars
  <2>2. \A u \in Units : load'[u] # "ended" => unit'[u] = unit[u]
    BY <1>4, UnitsAreNoProcs DEF LoadStep, FindKernel, RebuildKdumprd, CheckInitrd, KexecReads,
         KexecInstalls, KexecFails, InstallRule, LoadGoes, LoadFailed, LoadSteps
  <2>3. \A q \in Procs : load'[q] # "ended" => pc'[q] = "loading"
    BY <2>1, UnitsAreNoProcs DEF RunInv
  <2>4. \A u \in Units : load'[u] # "ended" => load[u] # "ended"
    BY <2>1, UnitsAreNoProcs
  <2>5. \A u \in Units : load'[u] # "ended" => unit'[u] = "starting"
    BY <2>2, <2>4 DEF RunInv
  <2>6. \A m \in Loaders : snap'[m] # 0 => load'[m] \in Calls
    BY <2>1 DEF RunInv
  <2> QED BY <2>3, <2>5, <2>6 DEF RunInv
<1>5. ASSUME NEW u \in Units, StartUnit(u) PROVE RunInv'
  <2>1. load[u] = "ended" /\ snap[u] = 0
    BY <1>5, UnitsAreNoProcs DEF StartUnit, RunInv, Calls
  <2>2. load' = [load EXCEPT ![u] = "find"] /\ UNCHANGED <<snap, pc>>
        /\ unit' = [unit EXCEPT ![u] = "starting"]
    BY <1>5 DEF StartUnit, RunLoad, lvars
  <2> QED
    BY <2>1, <2>2, UnitsAreNoProcs DEF RunInv, LoadSteps
<1>6. ASSUME NEW u \in Units, Unload(u) \/ RemoveRule(u) PROVE RunInv'
  <2>1. UNCHANGED <<load, snap, pc>> /\ \A v \in Units : unit[v] = "starting" => unit'[v] = "starting"
    BY <1>6 DEF Unload, RemoveRule, lvars, LoadSteps
  <2> QED BY <2>1 DEF RunInv
<1>7. CASE Hotplug \/ UNCHANGED vars
  BY <1>7 DEF Hotplug, vars, lvars, kvars, RunInv
<1> QED
  BY <1>1, <1>2, <1>3, <1>4, <1>5, <1>6, <1>7 DEF Next

\* While nothing broke, nobody starts a second load.sh.
LEMMA AloneStep ==
  ASSUME LIInv, Versions, LoadSteps, RunInv, Alone, [Next]_vars
  PROVE  Alone'
<1>1. ASSUME NEW p \in Procs, OnceLoads(p) PROVE Alone'
  <2>1. load' = [load EXCEPT ![p] = "find"] /\ broken' = (broken \/ Beside(p)) /\ pc[p] = "load"
    BY <1>1 DEF OnceLoads, RunLoad, LoadBegin, Goto
  <2>2. \A q \in Procs \ {p} : load[q] = "ended"
    BY <2>1 DEF LIInv, LockInv, Locked, RunInv
  <2>3. broken' = FALSE => \A m \in Loaders \ {p} : load[m] = "ended"
    BY <2>1, <2>2, UnitsAreNoProcs DEF Beside
  <2> QED BY <2>1, <2>3, UnitsAreNoProcs DEF Alone, LoadSteps
<1>2. ASSUME NEW l \in Loaders, LoadStep(l) PROVE Alone'
  BY <1>2, LoadStepTouches DEF Alone
<1>3. ASSUME NEW u \in Units, StartUnit(u) PROVE Alone'
  <2>1. load' = [load EXCEPT ![u] = "find"] /\ broken' = (broken \/ Beside(u))
    BY <1>3 DEF StartUnit, RunLoad
  <2>2. broken' = FALSE => \A m \in Loaders \ {u} : load[m] = "ended"
    BY <2>1, UnitsAreNoProcs DEF Beside
  <2> QED BY <2>1, <2>2, UnitsAreNoProcs DEF Alone, LoadSteps
<1>4. CASE UNCHANGED <<load, broken>>
  BY <1>4 DEF Alone
<1> QED
  BY <1>1, <1>2, <1>3, <1>4 DEF Next, Hotplug, Udev, OnceStep, Unload, RemoveRule, kvars, vars

-----------------------------------------------------------------------------
\* What went wrong stays on record.
LEMMA FineBefore == History /\ [Next]_vars /\ Fine' => Fine
<1> SUFFICES ASSUME History, [Next]_vars, Fine' PROVE Fine
  OBVIOUS
<1> USE DEF Fine
<1>1. ASSUME NEW p \in Procs, OnceStep(p) PROVE Fine
  BY <1>1 DEF OnceStep, AppendJob, Flock, FlockBusy, TestPending, TestEmpty, Truncate,
       TruncateFails, Unlock, LoadEnd, kvars
<1>2. ASSUME NEW p \in Procs, OnceLoads(p) PROVE Fine
  <2>1. UNCHANGED <<skipped, ioError>> /\ broken' = (broken \/ Beside(p))
    BY <1>2 DEF OnceLoads, LoadBegin
  <2> QED BY <2>1 DEF History
<1>3. ASSUME NEW l \in Loaders, LoadStep(l) PROVE Fine
  BY <1>3 DEF LoadStep, FindKernel, RebuildKdumprd, CheckInitrd, KexecReads,
       KexecInstalls, KexecFails, InstallRule, LoadGoes, LoadFailed, lvars
<1>4. ASSUME NEW u \in Units, StartUnit(u) \/ Unload(u) \/ RemoveRule(u) PROVE Fine
  <2>1. CASE StartUnit(u)
    <3>1. UNCHANGED <<skipped, ioError>> /\ broken' = (broken \/ Beside(u))
      BY <2>1 DEF StartUnit, lvars
    <3> QED BY <3>1 DEF History
  <2> QED BY <1>4, <2>1 DEF Unload, RemoveRule, lvars
<1>5. CASE Hotplug \/ Udev \/ UNCHANGED vars
  BY <1>5 DEF Hotplug, Udev, Invoke, vars, kvars, lvars
<1> QED BY <1>1, <1>2, <1>3, <1>4, <1>5 DEF Next

\* An event is not lost between the jobs file, the lock and load.sh.
LEMMA ScriptKeepsCovered ==
  ASSUME LTypeOK, NEW p \in Procs, OnceStep(p), Covered
  PROVE  Covered'
<1>1. UNCHANGED <<uevents, load, snap>>
  BY DEF OnceStep, kvars
<1>2. /\ \A q \in Procs \ {p} : pc'[q] = pc[q]
      /\ pc[p] # "load"
      /\ (pc[p] = "append" => jobs' # {})
      /\ (jobs # {} => jobs' # {} \/ pc'[p] = "load")
  BY DEF OnceStep, AppendJob, Flock, FlockBusy, TestPending, TestEmpty, Truncate,
     TruncateFails, Unlock, LoadEnd, Goto, LTypeOK
<1> QED BY <1>1, <1>2 DEF Covered, WillRead

\* No other load.sh has anything read while l runs one alone.
LEMMA OthersHaveRead ==
  ASSUME Alone, RunInv, broken = FALSE, NEW l \in Loaders, load[l] # "ended"
  PROVE  \A m \in Loaders \ {l} : load[m] = "ended" /\ snap[m] = 0
BY DEF Alone, RunInv, Calls

\* The cases of load.sh.
LEMMA LoadStepStale ==
  ASSUME Versions, LoadSteps, RunInv, Alone, StaleInv, Fine, Fine',
         NEW l \in Loaders, LoadStep(l)
  PROVE  StaleInv'
<1>0. /\ UNCHANGED <<jobs, pc, hw, uevents>> /\ load[l] # "ended"
      /\ \A m \in Loaders \ {l} : load'[m] = load[m] /\ snap'[m] = snap[m]
  BY LoadStepTouches DEF lvars
<1>1. \A m \in Loaders \ {l} : load[m] = "ended" /\ snap[m] = 0
  BY <1>0, OthersHaveRead DEF Fine
<1>2. CASE FindKernel(l) \/ RebuildKdumprd(l) \/ CheckInitrd(l)
  <2>1. load'[l] \in {"rebuild", "check", "kexec_file_load"} /\ UNCHANGED snap
    BY <1>2 DEF FindKernel, RebuildKdumprd, CheckInitrd, LoadGoes, LoadFailed, Fine, LoadSteps
  <2>2. snap[l] = 0
    BY <1>2 DEF FindKernel, RebuildKdumprd, CheckInitrd, LoadGoes, RunInv, Calls
  <2> QED BY <2>1, <2>2 DEF StaleInv, Covered, WillRead, Calls
<1>3. CASE KexecReads(l)
  <2>1. snap'[l] = hw
    BY <1>3 DEF KexecReads, Versions
  <2> QED BY <1>0, <1>1, <2>1 DEF StaleInv, Versions
<1>4. CASE KexecInstalls(l)
  <2>1. /\ snap[l] # 0 /\ snap' = [snap EXCEPT ![l] = 0] /\ image'.hw = snap[l]
    BY <1>4 DEF KexecInstalls
  <2>2. \A m \in Loaders : snap'[m] = 0
    BY <1>0, <1>1, <2>1 DEF Versions
  <2>3. snap[l] < hw => Covered
    BY <2>1 DEF StaleInv
  <2>4. \A m \in Loaders : ~WillRead(m)
    BY <1>1, <2>1 DEF WillRead, Calls
  <2>5. Covered => Covered'
    BY <1>0, <2>4 DEF Covered
  <2> QED BY <1>0, <2>1, <2>2, <2>3, <2>5 DEF StaleInv
<1>5. CASE KexecFails(l)
  <2>1. load'[l] = "kexec_load" /\ snap'[l] = 0
    BY <1>5 DEF KexecFails, LoadGoes, Fine, LoadSteps, Versions
  <2> QED BY <2>1 DEF StaleInv, Covered, WillRead, Calls
<1>6. CASE InstallRule(l)
  <2>1. UNCHANGED <<image, snap>> /\ load[l] = "rule"
    BY <1>6 DEF InstallRule
  <2>2. \A m \in Loaders : ~WillRead(m)
    BY <1>1, <2>1 DEF WillRead, Calls
  <2>3. Covered => Covered'
    BY <1>0, <2>2 DEF Covered
  <2> QED BY <1>0, <2>1, <2>3 DEF StaleInv, Loaded
<1> QED BY <1>2, <1>3, <1>4, <1>5, <1>6 DEF LoadStep

\* A new version of the hardware is on its way to a load.sh, step by step.
LEMMA StaleStep ==
  ASSUME LTypeOK, Versions, LoadSteps, History, RunInv, Alone, StaleInv, [Next]_vars
  PROVE  StaleInv'
<1> SUFFICES ASSUME Fine' PROVE StaleInv'
  BY DEF StaleInv
<1>0. Fine
  BY FineBefore
<1>1. CASE Hotplug
  <2>1. uevents' > 0
    BY <1>1 DEF Hotplug, Versions
  <2> QED BY <2>1 DEF StaleInv, Covered
<1>2. CASE Udev
  <2>1. PICK p \in Procs : Invoke(p)
    BY <1>2 DEF Udev, Fine
  <2>2. pc'[p] = "append"
    BY <2>1 DEF Invoke, Goto, LTypeOK
  <2> QED BY <2>2 DEF StaleInv, Covered
<1>3. ASSUME NEW p \in Procs, OnceStep(p) PROVE StaleInv'
  <2>1. UNCHANGED <<hw, image, snap>>
    BY <1>3 DEF OnceStep, kvars
  <2>2. Covered => Covered'
    BY <1>3, ScriptKeepsCovered
  <2> QED BY <1>0, <2>1, <2>2 DEF StaleInv, Loaded
<1>4. ASSUME NEW p \in Procs, OnceLoads(p) PROVE StaleInv'
  <2>1. load'[p] = "find" /\ snap'[p] = 0
    BY <1>4, UnitsAreNoProcs DEF OnceLoads, LoadBegin, RunLoad, Goto, RunInv, Calls, LoadSteps
  <2> QED BY <2>1, UnitsAreNoProcs DEF StaleInv, Covered, WillRead
<1>5. ASSUME NEW l \in Loaders, LoadStep(l) PROVE StaleInv'
  BY <1>0, <1>5, LoadStepStale
<1>6. ASSUME NEW u \in Units, StartUnit(u) PROVE StaleInv'
  <2>1. load'[u] = "find" /\ snap'[u] = 0
    BY <1>6, UnitsAreNoProcs DEF StartUnit, RunLoad, RunInv, Calls, LoadSteps
  <2> QED BY <2>1, UnitsAreNoProcs DEF StaleInv, Covered, WillRead
<1>7. ASSUME NEW u \in Units, Unload(u) PROVE StaleInv'
  <2>1. UNCHANGED <<hw, uevents, jobs, pc, load, snap>> /\ (image' = NoImage \/ image' = image)
    BY <1>7 DEF Unload, lvars
  <2>2. Covered => Covered'
    BY <2>1 DEF Covered, WillRead
  <2> QED BY <1>0, <2>1, <2>2 DEF StaleInv, Loaded
<1>8. CASE UNCHANGED <<hw, uevents, jobs, pc, load, snap, image>>
  <2>1. Covered => Covered'
    BY <1>8 DEF Covered, WillRead
  <2> QED BY <1>0, <1>8, <2>1 DEF StaleInv, Loaded
<1> QED
  BY <1>1, <1>2, <1>3, <1>4, <1>5, <1>6, <1>7, <1>8 DEF Next, RemoveRule, vars, lvars, kvars

\* Before boot there is no image and no event.
LEMMA InitKInv == Init => KInv
<1> SUFFICES ASSUME Init PROVE KInv
  OBVIOUS
<1>1. LIInv
  BY InitIInv DEF Init
<1>2. Versions
  BY DEF Init, Versions, NoImage
<1>3. LoadSteps
  BY DEF Init, LoadSteps
<1>4. RunInv /\ Alone /\ History
  BY UnitsAreNoProcs DEF Init, RunInv, Alone, History
<1>5. StaleInv
  BY DEF Init, StaleInv, Loaded, NoImage
<1> QED BY <1>1, <1>2, <1>3, <1>4, <1>5 DEF KInv

\* Every step of the service keeps the invariant.
LEMMA StepKInv == KInv /\ [Next]_vars => KInv'
<1> SUFFICES ASSUME KInv, [Next]_vars PROVE KInv'
  OBVIOUS
<1> USE DEF KInv
<1>1. LTypeOK
  BY DEF LIInv
<1>2. LIInv'
  BY StepUsesLoadOnce, StepLIInv
<1>3. Versions' /\ LoadSteps' /\ RunInv'
  BY <1>1, VersionsStep, LoadStepsStep, RunInvStep
<1>4. History' /\ Alone' /\ StaleInv'
  BY <1>1, HistoryStep, AloneStep, StaleStep
<1> QED BY <1>2, <1>3, <1>4

-----------------------------------------------------------------------------
(***************************************************************************)
(* The inductive invariant holds for any number of events, instances,       *)
(* starts and stops.                                                        *)
(***************************************************************************)
THEOREM ServiceInvariant == Spec => []KInv
BY InitKInv, StepKInv, PTL DEF Spec

(***************************************************************************)
(* The lock keeps its promises in the whole service too, where the services *)
(* run load.sh without it and udev starts an instance at any time: the      *)
(* instances of load-once.sh load one at a time, and no job that one of     *)
(* them took or found is left without a load that began later               *)
(* (70-kdump.rules.in:14-24, load-once.sh:12-23).                           *)
(***************************************************************************)
THEOREM ServiceLockProtects == Spec => []LockProtectsJobs
<1>1. KInv => LockProtectsJobs
  BY DEF KInv, LIInv, LockInv, Locked, OneLoader, LockProtectsJobs
<1> QED BY <1>1, ServiceInvariant, PTL

(***************************************************************************)
(* A loaded panic kernel that does not describe the hardware when nothing   *)
(* is going on any more has one of the causes that StaleHasCause lists      *)
(* (load-once.sh:16-33, load.sh, 70-kdump.rules.in:7-23).                   *)
(***************************************************************************)
THEOREM NoEventIsLost == Spec => []StaleHasCause
<1>1. KInv => StaleHasCause
  <2> SUFFICES ASSUME KInv, AtRest, Loaded, image.hw < hw, Fine PROVE jobs # {}
    <3>1. KInv => skipped \in BOOLEAN /\ broken \in BOOLEAN /\ ioError \in BOOLEAN
      BY DEF KInv, History, LIInv, LTypeOK
    <3> QED BY <3>1 DEF StaleHasCause, Fine
  <2>1. \A l \in Loaders : snap[l] = 0
    BY DEF AtRest, KInv, RunInv, Calls
  <2>2. Covered
    BY <2>1 DEF KInv, StaleInv, Versions
  <2> QED BY <2>2 DEF Covered, WillRead, AtRest, Calls
<1> QED BY <1>1, ServiceInvariant, PTL

-----------------------------------------------------------------------------
\* Rule and initrd are there or not.
LEMMA FlagsKept == Flags /\ [Next]_vars => Flags'
<1> SUFFICES ASSUME Flags, [Next]_vars PROVE Flags'
  OBVIOUS
<1> USE DEF Flags
<1>1. ASSUME NEW l \in Loaders, LoadStep(l) PROVE Flags'
  BY <1>1 DEF LoadStep, FindKernel, RebuildKdumprd, CheckInitrd, KexecReads,
       KexecInstalls, KexecFails, InstallRule, LoadFailed
<1>2. ASSUME NEW u \in Units, RemoveRule(u) PROVE Flags'
  BY <1>2 DEF RemoveRule
<1>3. CASE UNCHANGED <<rule, initrd>>
  BY <1>3
<1> QED
  BY <1>1, <1>2, <1>3 DEF Next, Hotplug, Udev, OnceStep, OnceLoads, StartUnit, Unload, vars, kvars

\* The bounds of the model are kept.
LEMMA BoundsKept == Versions /\ Bounds /\ [Next]_vars => Bounds'
<1> SUFFICES ASSUME Versions, Bounds, [Next]_vars PROVE Bounds'
  OBVIOUS
<1> USE ServiceAssumption DEF Bounds, Versions
<1>1. CASE Hotplug
  BY <1>1 DEF Hotplug
<1>2. ASSUME NEW l \in Loaders, LoadStep(l) PROVE Bounds'
  <2>1. UNCHANGED <<hw, starts>> /\ once' \in {once, snap[l]}
    BY <1>2 DEF LoadStep, FindKernel, RebuildKdumprd, CheckInitrd, KexecReads,
       KexecInstalls, KexecFails, InstallRule, LoadFailed
  <2> QED BY <2>1
<1>3. ASSUME NEW u \in Units, StartUnit(u) PROVE Bounds'
  BY <1>3 DEF StartUnit
<1>4. CASE UNCHANGED <<hw, starts, once>>
  BY <1>4
<1> QED
  BY <1>1, <1>2, <1>3, <1>4 DEF Next, Udev, OnceStep, OnceLoads, Unload, RemoveRule, vars, kvars

\* The image was loaded by somebody, from some version of the hardware.
LEMMA ImageKept == Versions /\ Image /\ [Next]_vars => Image'
<1> SUFFICES ASSUME Versions, Image, [Next]_vars PROVE Image'
  OBVIOUS
<1>1. CASE Hotplug
  BY <1>1 DEF Hotplug, Versions, Image
<1>2. ASSUME NEW l \in Loaders, KexecInstalls(l) PROVE Image'
  <2>1. UNCHANGED hw /\ image' = [hw |-> snap[l], by |-> l] /\ snap[l] \in 1..hw
    BY <1>2 DEF KexecInstalls, Versions
  <2> QED BY <2>1 DEF Image
<1>3. CASE UNCHANGED hw /\ image' \in {image, NoImage}
  BY <1>3 DEF Image
<1>4. ASSUME NEW l \in Loaders, LoadStep(l) PROVE Image'
  BY <1>2, <1>3, <1>4 DEF LoadStep, FindKernel, RebuildKdumprd, CheckInitrd, KexecReads,
       KexecFails, InstallRule, LoadFailed
<1>5. ASSUME NEW u \in Units, Unload(u) PROVE Image'
  BY <1>3, <1>5 DEF Unload
<1> QED
  BY <1>1, <1>3, <1>4, <1>5
     DEF Next, Udev, OnceStep, OnceLoads, StartUnit, RemoveRule, vars, kvars

(***************************************************************************)
(* The variables of the service stay in their ranges, and only the holder   *)
(* of the lock runs load.sh (load-once.sh:16-33, load.sh).                  *)
(***************************************************************************)
THEOREM ServiceTypeCorrect == Spec => []TypeOK
<1>1. Init => Flags /\ Bounds /\ Image
  <2>1. Init => Flags
    BY ServiceAssumption DEF Init, Flags
  <2>2. Init => Bounds
    BY ServiceAssumption DEF Init, Bounds
  <2>3. Init => Image
    BY DEF Init, Image
  <2> QED BY <2>1, <2>2, <2>3
<1>2. KInv /\ Flags /\ Bounds /\ Image /\ [Next]_vars => (Flags /\ Bounds /\ Image)'
  BY FlagsKept, BoundsKept, ImageKept DEF KInv
<1>3. KInv /\ Flags /\ Bounds /\ Image => TypeOK
  <2> SUFFICES ASSUME KInv, Flags, Bounds, Image PROVE TypeOK
    OBVIOUS
  <2>1. hw \in 1..(MaxHw + 1) /\ uevents \in 0..MaxHw
    BY ServiceAssumption DEF KInv, Versions, Bounds
  <2>2. LTypeOK /\ \A p \in Procs : load[p] # "ended" => pc[p] = "loading"
    BY DEF KInv, LIInv, RunInv
  <2>3. /\ {rule, skipped, broken} \subseteq BOOLEAN /\ initrd \in {"none", "old", "new"}
        /\ snap \in [Loaders -> 0..hw]
    BY DEF KInv, History, Flags, Versions
  <2> QED BY <2>1, <2>2, <2>3 DEF TypeOK, KInv, LoadSteps, Bounds, Image
<1> QED BY <1>1, <1>2, <1>3, ServiceInvariant, PTL DEF Spec
=============================================================================
