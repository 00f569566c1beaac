--------------------------- MODULE SaveDumpProofs ---------------------------
(***************************************************************************)
(* One invocation of "kdumptool save_dump" for any configuration, number of *)
(* targets and number of parts: the exit status, the mails and README.txt   *)
(* tell the truth about the dump.                                           *)
(***************************************************************************)
EXTENDS SaveDump, TLAPS, FiniteSetTheorems

\* Which of its targets a transfer writes, and what it makes of them.
Used(source, targets) ==
  IF Direct(source) THEN {targets[i] : i \in DOMAIN targets} ELSE {targets[1]}
Flat(source)  == source = "makedumpfile" /\ ~FileLike
Full(source)  == IF Flat(source) THEN "flatwhole" ELSE "whole"
Short(source) == IF Flat(source) THEN "flatcut" ELSE "cut"

\* The provider of the dump.
DumpSource == IF CopyAsIs THEN "other" ELSE "makedumpfile"

\* The parts of TypeOK that the proofs build on.
Values ==
  /\ cfg \in Configs
  /\ content \in [Dirs \X Names -> Contents]
  /\ exists \subseteq Dirs
  /\ mails \in Seq({"failed", "copied"})
Members ==
  /\ errorCode \in {0, 1}
  /\ usedDirectSave \in BOOLEAN /\ useMakedumpfile \in BOOLEAN

\* The steps before the dump is written.
Early == {"start", "dmesg", "vmcore"}

(***************************************************************************)
(* The error code follows the errors, except in the catch block around      *)
(* saveDump(), and main() turns both into the exit status.                  *)
(***************************************************************************)
StatusInv ==
  /\ pc \in Early => errorCode = 0 /\ failed = {}
  /\ pc \in {"caught", "caughtCheck"} => "dump" \in failed
  /\ pc \notin {"caught", "done"} => (errorCode = 1 <=> failed # {})
  /\ pc = "done" => (exitCode # 0 <=> failed # {})

\* No mail and no error before the success mail, if errors end the program.
MailInv ==
  cfg.cont = FALSE =>
    /\ pc \in {"start", "dmesg", "vmcore", "caught", "notify"} => mails = <<>>
    /\ pc = "notify" => failed = {}

(***************************************************************************)
(* What is on disk: the dump as SaveVmcore wrote it, and no other part of a *)
(* dump.  Nothing that follows writes to a file of the dump.                *)
(***************************************************************************)
Good  == failed \cap {"start", "dump", "check"} = {} /\ "dump" \notin silent
AsWritten ==
  /\ \A t \in TargetsUsed : content[t] = Full(DumpSource)
  /\ FileLike => \A x \in (Dirs \X Parts) \ TargetsUsed : content[x] = "none"
MembersSet ==
  /\ usedDirectSave = TRUE <=> Direct(DumpSource)
  /\ useMakedumpfile = TRUE <=> ~CopyAsIs
  /\ split = SplitCount
EarlyInv ==
  pc \in Early => readme = NoReadme /\ \A x \in Dirs \X Parts : content[x] = "none"
WrittenInv ==
  pc \notin Early /\ Good /\ cfg.format # "none" => AsWritten /\ MembersSet

\* If the targets could not be made, nothing else was.
StartInv == "start" \in failed => pc = "done" /\ readme = NoReadme

\* What README.txt says is taken from the members that SaveVmcore sets.
ReadmeInv ==
  readme # NoReadme =>
    /\ readme.flat \in BOOLEAN
    /\ readme.flat = TRUE <=> useMakedumpfile = TRUE /\ usedDirectSave = FALSE
    /\ readme.parts = IF usedDirectSave = TRUE THEN split ELSE 0

IInv == Values /\ Members /\ StatusInv /\ MailInv
          /\ EarlyInv /\ WrittenInv /\ StartInv /\ ReadmeInv

-----------------------------------------------------------------------------
\* The configuration.
LEMMA ConfigFacts ==
  ASSUME cfg \in Configs
  PROVE  /\ cfg.urls \in Seq(Dirs) /\ cfg.urls # <<>>
         /\ Len(cfg.urls) \in Nat /\ Len(cfg.urls) >= 1
         /\ DOMAIN cfg.urls = 1..Len(cfg.urls)
         /\ \A i \in DOMAIN cfg.urls : cfg.urls[i] \in Dirs
         /\ cfg.cont \in BOOLEAN
         /\ cfg.cpus \in Nat /\ cfg.online \in Nat /\ cfg.online <= Len(Part)
BY ConfigsAssumption DEF ConfigType

\* Parts of a dump have names.
LEMMA PartFacts ==
  /\ Len(Part) \in Nat /\ DOMAIN Part = 1..Len(Part)
  /\ \A i \in DOMAIN Part : Part[i] \in Parts
BY PartAssumption DEF Parts

\* How many parts there are.
LEMMA SplitFacts ==
  ASSUME cfg \in Configs
  PROVE  /\ SplitCount \in Nat /\ SplitCount <= Len(Part)
         /\ (CopyAsIs => SplitCount = 0)
<1>1. cfg.cpus \in Nat /\ cfg.online \in Nat /\ cfg.online <= Len(Part) /\ Len(Part) \in Nat
  BY ConfigFacts, PartFacts
<1>2. Workers \in Nat /\ Workers <= Len(Part)
  BY <1>1 DEF Workers
<1> QED BY <1>1, <1>2 DEF SplitCount, CopyAsIs

\* The remainder picks one of m targets.
LEMMA RemainderFacts ==
  ASSUME NEW a \in Nat, NEW m \in Nat, m >= 1
  PROVE  (a % m) + 1 \in 1..m
OBVIOUS

\* Where the files go whose names are given.
LEMMA SpreadFacts ==
  ASSUME cfg \in Configs, NEW n \in Nat, n <= Len(Part)
  PROVE  /\ DOMAIN Spread([i \in 1..n |-> Part[i]]) = 1..n
         /\ \A i \in 1..n :
              \E d \in Dirs : Spread([j \in 1..n |-> Part[j]])[i] = <<d, Part[i]>>
<1> DEFINE names == [i \in 1..n |-> Part[i]]
<1>1. DOMAIN Spread(names) = 1..n
  BY DEF Spread
<1>2. ASSUME NEW i \in 1..n
      PROVE  \E d \in Dirs : Spread(names)[i] = <<d, Part[i]>>
  <2> DEFINE k == ((i - 1) % Len(cfg.urls)) + 1
  <2>1. k \in 1..Len(cfg.urls)
    <3>1. i - 1 \in Nat /\ Len(cfg.urls) \in Nat /\ Len(cfg.urls) >= 1
      BY ConfigFacts
    <3> QED BY <3>1, RemainderFacts
  <2>2. cfg.urls[k] \in Dirs
    BY <2>1, ConfigFacts
  <2>3. Spread(names)[i] = <<cfg.urls[k], Part[i]>>
    BY DEF Spread
  <2> QED BY <2>2, <2>3
<1> QED BY <1>1, <1>2

\* The targets of the dump.
LEMMA TargetFacts ==
  ASSUME cfg \in Configs
  PROVE  /\ DOMAIN DumpTargets = IF SplitCount > 0 THEN 1..SplitCount ELSE 1..1
         /\ (SplitCount = 0 => DumpTargets[1] = <<cfg.urls[1], "vmcore">>)
         /\ (SplitCount > 0 =>
              \A i \in 1..SplitCount : \E d \in Dirs : DumpTargets[i] = <<d, Part[i]>>)
<1>1. CASE SplitCount > 0
  BY <1>1, SplitFacts, SpreadFacts DEF DumpTargets
<1>2. CASE SplitCount = 0
  <2>1. DumpTargets = << <<cfg.urls[1], "vmcore">> >>
    BY <1>2 DEF DumpTargets, First
  <2> QED BY <1>2, <2>1
<1> QED BY <1>1, <1>2, SplitFacts

\* The dump is written to as many targets as it has parts, and never to none.
LEMMA UsedFacts ==
  ASSUME cfg \in Configs
  PROVE  /\ Used(DumpSource, DumpTargets) = TargetsUsed
         /\ TargetsUsed \subseteq Dirs \X ({"vmcore"} \cup Parts)
         /\ TargetsUsed # {}
         /\ (SplitCount = 0 => TargetsUsed = {<<cfg.urls[1], "vmcore">>})
<1>1. SplitCount = 0 => TargetsUsed = {DumpTargets[1]}
                        /\ {DumpTargets[i] : i \in DOMAIN DumpTargets} = {DumpTargets[1]}
  BY TargetFacts DEF TargetsUsed
<1>2. SplitCount > 0 => 1 \in 1..SplitCount
  BY SplitFacts
<1>3. Used(DumpSource, DumpTargets) = TargetsUsed
  <2>1. CASE CopyAsIs
    <3>1. Used(DumpSource, DumpTargets) = {DumpTargets[1]}
      BY <2>1 DEF Used, DumpSource, Direct
    <3> QED BY <2>1, <3>1, <1>1, SplitFacts
  <2>2. CASE ~CopyAsIs
    BY <2>2 DEF Used, DumpSource, Direct, TargetsUsed
  <2> QED BY <2>1, <2>2
<1>4. ASSUME NEW i \in DOMAIN DumpTargets
      PROVE  DumpTargets[i] \in Dirs \X ({"vmcore"} \cup Parts)
  <2>1. CASE SplitCount > 0
    <3>1. i \in 1..SplitCount /\ Part[i] \in Parts
      BY <2>1, TargetFacts, SplitFacts, PartFacts
    <3>2. PICK d \in Dirs : DumpTargets[i] = <<d, Part[i]>>
      BY <2>1, <3>1, TargetFacts
    <3> QED BY <3>1, <3>2
  <2>2. CASE SplitCount = 0
    <3>1. i = 1 /\ cfg.urls[1] \in Dirs
      BY <2>2, TargetFacts, ConfigFacts
    <3> QED BY <2>2, <3>1, TargetFacts
  <2> QED BY <2>1, <2>2, SplitFacts
<1>5. 1 \in DOMAIN DumpTargets
  BY <1>2, TargetFacts
<1>6. TargetsUsed \subseteq {DumpTargets[i] : i \in DOMAIN DumpTargets} /\ DumpTargets[1] \in TargetsUsed
  BY <1>5 DEF TargetsUsed
<1>7. SplitCount = 0 => TargetsUsed = {<<cfg.urls[1], "vmcore">>}
  BY <1>1, TargetFacts
<1> QED BY <1>3, <1>4, <1>6, <1>7

\* What a transfer may do.
LEMMA OutcomeFacts ==
  ASSUME NEW source, NEW targets, NEW o \in Outcomes(source, targets)
  PROVE  /\ o.result \in {"ok", "error", "silent"}
         /\ \E S \in SUBSET Used(source, targets) :
              o.content \in {Put(S, Full(source)), Put(S, Short(source))}
         /\ (o.result = "ok" => o.content = Put(Used(source, targets), Full(source)))
<1> DEFINE used  == Used(source, targets)
           reach == {t \in used : FileLike => t[1] \in exists}
           died  == IF source = "makedumpfile" THEN SUBSET reach
                    ELSE {used} \cap (IF FileLike THEN {reach} ELSE {})
<1>1. o \in [content : {Put(used, Full(source)) : S \in {used} \cap {reach}}, result : {"ok"}]
         \cup [content : {Put(S, Short(source)) : S \in SUBSET reach}, result : {"error"}]
         \cup [content : {Put(S, Short(source)) : S \in died}, result : {"silent"}]
  BY DEF Outcomes, Used, Full, Short, Flat
<1>2. reach \subseteq used /\ died \subseteq SUBSET used
  OBVIOUS
<1> HIDE DEF used, reach, died
<1>3. /\ o.result \in {"ok", "error", "silent"}
      /\ \E S \in SUBSET used : o.content \in {Put(S, Full(source)), Put(S, Short(source))}
      /\ (o.result = "ok" => o.content = Put(used, Full(source)))
  BY <1>1, <1>2
<1> QED BY <1>3 DEF used

\* Files that are written have the new contents, the others what they had.
LEMMA PutFacts ==
  ASSUME content \in [Dirs \X Names -> Contents], NEW S, NEW c \in Contents
  PROVE  /\ Put(S, c) \in [Dirs \X Names -> Contents]
         /\ \A x \in Dirs \X Names : Put(S, c)[x] = IF x \in S THEN c ELSE content[x]
BY DEF Put

-----------------------------------------------------------------------------
\* What depends on the configuration only.
LEMMA ConfigConstant ==
  ASSUME cfg' = cfg
  PROVE  /\ TargetsUsed' = TargetsUsed /\ SplitCount' = SplitCount
         /\ Full(DumpSource)' = Full(DumpSource)
         /\ Direct(DumpSource)' = Direct(DumpSource)
         /\ CopyAsIs' = CopyAsIs /\ FileLike' = FileLike
BY DEF TargetsUsed, DumpTargets, SplitCount, Spread, First, Full, Flat, DumpSource, Direct,
       CopyAsIs, FileLike, Splits, Parallel, Workers, Contains, Elf, Dumplevel

\* The files that a dump may consist of.
DumpFiles == Dirs \X ({"vmcore"} \cup Parts)

\* The files beside the dump have names of their own.
LEMMA OtherFacts ==
  /\ \A d \in Dirs, n \in Others : <<d, n>> \in Dirs \X Names /\ <<d, n>> \notin DumpFiles
  /\ DumpFiles \subseteq Dirs \X Names
  /\ Dirs \X Parts \subseteq DumpFiles
<1>1. ("vmcore" \in Others) = FALSE
  BY DEF Others
<1> QED BY <1>1, PartAssumption DEF DumpFiles, Names

\* A transfer of another file leaves the dump alone.
LEMMA TransferFacts ==
  ASSUME Values, NEW source, NEW name \in Others, NEW o \in Outcomes(source, First(name))
  PROVE  /\ o.result \in {"ok", "error", "silent"}
         /\ o.content \in [Dirs \X Names -> Contents]
         /\ \A x \in DumpFiles : o.content[x] = content[x]
<1>1. Used(source, First(name)) = {<<cfg.urls[1], name>>}
  BY DEF Used, First
<1>2. <<cfg.urls[1], name>> \notin DumpFiles
  BY ConfigFacts, OtherFacts DEF Values
<1>3. PICK S \in SUBSET {<<cfg.urls[1], name>>} :
         o.content \in {Put(S, Full(source)), Put(S, Short(source))}
  BY <1>1, OutcomeFacts
<1>4. Full(source) \in Contents /\ Short(source) \in Contents
  BY DEF Full, Short, Contents
<1>5. PICK c \in Contents : o.content = Put(S, c)
  BY <1>3, <1>4
<1>6. o.content \in [Dirs \X Names -> Contents]
  BY <1>5, PutFacts DEF Values
<1>7. \A x \in DumpFiles : o.content[x] = content[x]
  BY <1>2, <1>5, PutFacts, OtherFacts DEF Values
<1> QED BY <1>6, <1>7, OutcomeFacts

-----------------------------------------------------------------------------
(***************************************************************************)
(* How a step reports: it goes on, or it raises an error, which ends the    *)
(* program or goes on behind the step.                                      *)
(***************************************************************************)
GoesOn ==
  /\ UNCHANGED <<failed, errorCode>>
  /\ pc' = "done" => exitCode' = errorCode
Errs(step) ==
  /\ failed' = failed \cup {step} /\ errorCode' = 1
  /\ pc' = "done" => exitCode' = 1
  /\ cfg.cont = FALSE => pc' = "done"

\* An error is remembered, and the program goes on or ends.
LEMMA RaiseFacts ==
  ASSUME Values, NEW step, NEW next, Raise(step, next)
  PROVE  Errs(step) /\ pc' \in {next, "done"}
<1>1. cfg.cont \in BOOLEAN
  BY ConfigFacts DEF Values
<1> QED BY <1>1 DEF Raise, Errs, Exit

\* Without an error the program goes on.
LEMMA ProceedFacts ==
  ASSUME NEW next, Proceed(next)
  PROVE  GoesOn /\ pc' = next
BY DEF Proceed, GoesOn, Exit

\* A step after the dump touches nothing that belongs to it, unless the check
\* of the free space failed.
Late == {"check", "perl", "script", "info", "map", "kernel"}
Leaves ==
  /\ content' \in [Dirs \X Names -> Contents]
  /\ \A x \in DumpFiles : content'[x] = content[x]
  /\ UNCHANGED exists
  /\ silent \subseteq silent' /\ ("dump" \in silent' => "dump" \in silent)

\* A step with a catch block of its own goes on or ends, whatever becomes of it.
LEMMA TryFacts ==
  ASSUME Values, NEW step \in Late, NEW name \in Others, NEW ok \in Late \cup {"done"},
         NEW next \in Late \cup {"done"}, Try(step, name, ok, next), UNCHANGED exists
  PROVE  Leaves /\ (GoesOn \/ Errs(step)) /\ pc' \in Late \cup {"done"}
<1>1. PICK o \in Outcomes("other", First(name)) :
        /\ content' = o.content
        /\ silent' = Unnoticed(step, o)
        /\ IF o.result = "error" THEN Raise(step, next) ELSE Proceed(ok)
  BY DEF Try
<1>2. Leaves
  BY <1>1, TransferFacts DEF Leaves, Unnoticed, Late
<1>3. (GoesOn \/ Errs(step)) /\ pc' \in Late \cup {"done"}
  BY <1>1, RaiseFacts, ProceedFacts
<1> QED BY <1>2, <1>3

LateStep == CheckAndDelete \/ CopyMakedumpfile \/ GenerateRearrange \/ GenerateInfo
              \/ CopyMap \/ CopyKernel

\* The check of the free space only takes away.
LEMMA CheckFacts ==
  ASSUME Values, CheckPasses \/ CheckThrows
  PROVE  content' \in [Dirs \X Names -> Contents] /\ exists' \subseteq Dirs
<1>1. CASE CheckPasses
  BY <1>1 DEF CheckPasses, Values
<1>2. CASE CheckThrows
  <2>1. exists' \subseteq exists /\ (content' = content \/ \E S : content' = Put(S, "none"))
    BY <1>2 DEF CheckThrows
  <2> QED BY <2>1, PutFacts DEF Values, Contents
<1> QED BY <1>1, <1>2

\* After the dump nothing is written to it; the check may delete all of it.
LEMMA LateFacts ==
  ASSUME Values, LateStep
  PROVE  /\ pc \in Late /\ pc' \in Late \cup {"done"}
         /\ UNCHANGED <<cfg, usedDirectSave, useMakedumpfile, split, mails>>
         /\ content' \in [Dirs \X Names -> Contents] /\ exists' \subseteq Dirs
         /\ (GoesOn \/ \E step \in Late : Errs(step))
         /\ ("check" \in failed' \/ \A x \in DumpFiles : content'[x] = content[x])
         /\ silent \subseteq silent' /\ ("dump" \in silent' => "dump" \in silent)
<1> USE DEF Late
<1>0. UNCHANGED <<exists, content, silent>> => Leaves /\ exists' \subseteq Dirs
  BY OtherFacts DEF Values, Leaves
<1>1. CASE CheckAndDelete
  <2>1. content' \in [Dirs \X Names -> Contents] /\ exists' \subseteq Dirs
    BY <1>1, CheckFacts DEF CheckAndDelete
  <2>2. pc \in Late /\ UNCHANGED <<cfg, usedDirectSave, useMakedumpfile, split, mails, silent>>
    BY <1>1 DEF CheckAndDelete, progress
  <2>3. CASE CheckPasses /\ Proceed("perl")
    BY <2>1, <2>2, <2>3, ProceedFacts DEF CheckPasses
  <2>4. CASE CheckThrows /\ Raise("check", "perl")
    <3>1. Errs("check") /\ pc' \in {"perl", "done"}
      BY <2>4, RaiseFacts
    <3> QED BY <2>1, <2>2, <3>1 DEF Errs
  <2> QED BY <1>1, <2>3, <2>4 DEF CheckAndDelete
<1>2. CASE CopyMakedumpfile
  <2>1. pc \in Late /\ UNCHANGED <<cfg, exists, usedDirectSave, useMakedumpfile, split, mails>>
    BY <1>2 DEF CopyMakedumpfile, progress
  <2>2. Leaves /\ pc' \in Late \cup {"done"} /\ (GoesOn \/ \E step \in Late : Errs(step))
    <3>1. CASE Try("perl", "makedumpfile-R.pl", "script", "info")
      BY <2>1, <3>1, TryFacts DEF Others
    <3>2. CASE Proceed("info") /\ UNCHANGED <<content, silent>>
      BY <1>0, <2>1, <3>2, ProceedFacts
    <3>3. CASE Raise("perl", "info") /\ UNCHANGED <<content, silent>>
      BY <1>0, <2>1, <3>3, RaiseFacts
    <3> QED BY <1>2, <3>1, <3>2, <3>3 DEF CopyMakedumpfile
  <2> QED BY <2>1, <2>2 DEF Leaves, Values
<1>3. CASE GenerateRearrange
  <2>1. pc \in Late /\ UNCHANGED <<cfg, exists, usedDirectSave, useMakedumpfile, split, mails>>
    BY <1>3 DEF GenerateRearrange, progress
  <2>2. Leaves /\ pc' \in Late \cup {"done"} /\ (GoesOn \/ \E step \in Late : Errs(step))
    BY <1>3, <2>1, TryFacts DEF Others, GenerateRearrange
  <2> QED BY <2>1, <2>2 DEF Leaves, Values
<1>4. CASE GenerateInfo
  <2>1. pc \in Late /\ UNCHANGED <<cfg, exists, usedDirectSave, useMakedumpfile, split, mails>>
    BY <1>4 DEF GenerateInfo
  <2>2. Leaves /\ pc' \in Late \cup {"done"} /\ (GoesOn \/ \E step \in Late : Errs(step))
    BY <1>4, <2>1, TryFacts DEF Others, GenerateInfo
  <2> QED BY <2>1, <2>2 DEF Leaves, Values
<1>5. CASE CopyMap
  <2>1. pc \in Late /\ UNCHANGED <<cfg, exists, usedDirectSave, useMakedumpfile, split, mails>>
    BY <1>5 DEF CopyMap, progress
  <2>2. Leaves /\ pc' \in Late \cup {"done"} /\ (GoesOn \/ \E step \in Late : Errs(step))
    <3>1. CASE Try("map", "System.map", "kernel", "done")
      BY <2>1, <3>1, TryFacts DEF Others
    <3>2. CASE Proceed("done") /\ UNCHANGED <<content, silent>>
      BY <1>0, <2>1, <3>2, ProceedFacts
    <3>3. CASE Raise("map", "done") /\ UNCHANGED <<content, silent>>
      BY <1>0, <2>1, <3>3, RaiseFacts
    <3> QED BY <1>5, <3>1, <3>2, <3>3 DEF CopyMap
  <2> QED BY <2>1, <2>2 DEF Leaves, Values
<1>6. CASE CopyKernel
  <2>1. pc \in Late /\ UNCHANGED <<cfg, exists, usedDirectSave, useMakedumpfile, split, mails>>
    BY <1>6 DEF CopyKernel, progress
  <2>2. Leaves /\ pc' \in Late \cup {"done"} /\ (GoesOn \/ \E step \in Late : Errs(step))
    BY <1>6, <2>1, TryFacts DEF Others, CopyKernel
  <2> QED BY <2>1, <2>2 DEF Leaves, Values
<1> QED BY <1>1, <1>2, <1>3, <1>4, <1>5, <1>6 DEF LateStep

\* Only generateInfo() writes README.txt, from the members as they are then.
LEMMA ReadmeFacts ==
  ASSUME LateStep
  PROVE  readme' = readme
         \/ readme' = [flat  |-> useMakedumpfile /\ ~usedDirectSave,
                       parts |-> IF usedDirectSave THEN split ELSE 0]
BY DEF LateStep, CheckAndDelete, CopyMakedumpfile, GenerateRearrange, GenerateInfo, CopyMap,
       CopyKernel, progress

-----------------------------------------------------------------------------
\* Whatever a transfer does, files have contents.
LEMMA OutcomeType ==
  ASSUME Values, NEW source, NEW targets, NEW o \in Outcomes(source, targets)
  PROVE  o.content \in [Dirs \X Names -> Contents]
<1>1. PICK S \in SUBSET Used(source, targets) :
         o.content \in {Put(S, Full(source)), Put(S, Short(source))}
  BY OutcomeFacts
<1>2. Full(source) \in Contents /\ Short(source) \in Contents
  BY DEF Full, Short, Contents
<1>3. PICK c \in Contents : o.content = Put(S, c)
  BY <1>1, <1>2
<1> QED BY <1>3, PutFacts DEF Values

\* Mails are of two kinds.
LEMMA SendFacts ==
  ASSUME NEW mail \in {"failed", "copied"}, Send(mail), mails \in Seq({"failed", "copied"})
  PROVE  mails' \in Seq({"failed", "copied"})
BY DEF Send

\* Every step keeps the values in their ranges.
LEMMA ValuesStep == Values /\ [Next]_vars => Values'
<1> SUFFICES ASSUME Values, [Next]_vars PROVE Values'
  OBVIOUS
<1>1. CASE Start
  <2>1. exists' \subseteq Dirs
    BY <1>1, ConfigFacts DEF Start, Values
  <2> QED BY <1>1, <2>1 DEF Start, Values
<1>2. CASE StartFails
  <2>1. PICK i \in DOMAIN cfg.urls :
          exists' \in {{cfg.urls[j] : j \in 1..(i - 1)}, {}}
    BY <1>2 DEF StartFails
  <2>2. \A j \in 1..(i - 1) : cfg.urls[j] \in Dirs
    BY ConfigFacts DEF Values
  <2>3. exists' \subseteq Dirs
    BY <2>1, <2>2
  <2> QED BY <1>2, <2>3 DEF StartFails, Values
<1>3. CASE SaveDmesg
  BY <1>3, OutcomeType DEF SaveDmesg, Values
<1>4. CASE SaveVmcore
  <2>1. content' \in [Dirs \X Names -> Contents]
    <3>1. PICK o \in Outcomes(IF CopyAsIs THEN "other" ELSE "makedumpfile", DumpTargets) :
            content' = o.content
      BY <1>4 DEF SaveVmcore
    <3> QED BY <3>1, OutcomeType
  <2> QED BY <1>4, <2>1 DEF SaveVmcore, Values
<1>5. CASE NotifyFailure \/ Notify
  <2>1. mails' \in Seq({"failed", "copied"}) /\ UNCHANGED <<cfg, content, exists>>
    BY <1>5, SendFacts DEF NotifyFailure, Notify, Values
  <2> QED BY <2>1 DEF Values
<1>6. CASE CheckAfterFailure
  BY <1>6, CheckFacts DEF CheckAfterFailure, Values
<1>7. CASE LateStep
  BY <1>7, LateFacts DEF Values
<1>8. CASE SkipVmcore \/ PrepareFails \/ Done \/ UNCHANGED vars
  BY <1>8 DEF SkipVmcore, PrepareFails, Done, vars, Values
<1>9. CASE FinishedTwice
  BY <1>9, OutcomeType DEF FinishedTwice, Values
<1> QED
  BY <1>1, <1>2, <1>3, <1>4, <1>5, <1>6, <1>7, <1>8, <1>9 DEF Next, LateStep

\* The members are set to values of their types.
LEMMA MembersStep == Values /\ Members /\ [Next]_vars => Members'
<1> SUFFICES ASSUME Values, Members, [Next]_vars PROVE Members'
  OBVIOUS
<1> USE DEF Members
<1>1. CASE SaveVmcore
  BY <1>1 DEF SaveVmcore
<1>2. CASE LateStep
  BY <1>2, LateFacts DEF GoesOn, Errs
<1>3. CASE NotifyFailure
  BY <1>3 DEF NotifyFailure, progress
<1>4. CASE UNCHANGED <<errorCode, usedDirectSave, useMakedumpfile>>
  BY <1>4
<1> QED
  BY <1>1, <1>2, <1>3, <1>4
     DEF Next, LateStep, Start, StartFails, SaveDmesg, SkipVmcore, PrepareFails, FinishedTwice,
         CheckAfterFailure, Notify, Done, progress, vars

\* Every step that fails sets the error code, and no other does.
LEMMA StatusStep == Values /\ Members /\ StatusInv /\ [Next]_vars => StatusInv'
<1> SUFFICES ASSUME Values, Members, StatusInv, [Next]_vars PROVE StatusInv'
  OBVIOUS
<1> USE DEF Members, StatusInv, Early
<1>1. CASE Start             BY <1>1 DEF Start
<1>2. CASE StartFails        BY <1>2 DEF StartFails, Exit
<1>3. CASE SaveDmesg         BY <1>3 DEF SaveDmesg
<1>4. CASE SkipVmcore        BY <1>4 DEF SkipVmcore
<1>5. CASE SaveVmcore        BY <1>5 DEF SaveVmcore
<1>6. CASE NotifyFailure     BY <1>6 DEF NotifyFailure
<1>7. CASE CheckAfterFailure BY <1>7 DEF CheckAfterFailure, Exit
<1>8. CASE Notify            BY <1>8 DEF Notify
<1>9. CASE LateStep
  <2>1. pc \in Late /\ pc' \in Late \cup {"done"} /\ (GoesOn \/ \E step \in Late : Errs(step))
    BY <1>9, LateFacts
  <2> QED BY <2>1 DEF Late, GoesOn, Errs
<1>10. CASE Done \/ UNCHANGED vars
  BY <1>10 DEF Done, vars
<1>11. CASE PrepareFails     BY <1>11 DEF PrepareFails
<1>12. CASE FinishedTwice    BY <1>12 DEF FinishedTwice, Signalled
<1> QED
  BY <1>1, <1>2, <1>3, <1>4, <1>5, <1>6, <1>7, <1>8, <1>9, <1>10, <1>11, <1>12
     DEF Next, LateStep

\* No step before notify sends a mail and goes on, if errors end the program.
LEMMA MailStep == Values /\ StatusInv /\ Members /\ MailInv /\ [Next]_vars => MailInv'
<1> SUFFICES ASSUME Values, StatusInv, Members, MailInv, [Next]_vars PROVE MailInv'
  OBVIOUS
<1> USE DEF MailInv, StatusInv, Early
<1>1. CASE Start             BY <1>1 DEF Start
<1>2. CASE StartFails        BY <1>2 DEF StartFails, Exit
<1>3. CASE SaveDmesg         BY <1>3 DEF SaveDmesg
<1>4. CASE SkipVmcore        BY <1>4 DEF SkipVmcore
<1>5. CASE SaveVmcore        BY <1>5 DEF SaveVmcore
<1>6. CASE NotifyFailure     BY <1>6 DEF NotifyFailure
<1>7. CASE CheckAfterFailure BY <1>7 DEF CheckAfterFailure, Exit
<1>8. CASE Notify            BY <1>8 DEF Notify
<1>9. CASE LateStep
  <2>1. pc' \in Late \cup {"done"}
    BY <1>9, LateFacts
  <2> QED BY <2>1 DEF Late
<1>10. CASE Done \/ UNCHANGED vars
  BY <1>10 DEF Done, vars
<1>11. CASE PrepareFails     BY <1>11 DEF PrepareFails
<1>12. CASE FinishedTwice    BY <1>12 DEF FinishedTwice, Signalled
<1> QED
  BY <1>1, <1>2, <1>3, <1>4, <1>5, <1>6, <1>7, <1>8, <1>9, <1>10, <1>11, <1>12
     DEF Next, LateStep

-----------------------------------------------------------------------------
\* SaveVmcore writes the dump, and sets the members that tell how.
LEMMA VmcoreWritten ==
  ASSUME Values, SaveVmcore, \A x \in Dirs \X Parts : content[x] = "none",
         "dump" \notin failed', "dump" \notin silent'
  PROVE  AsWritten' /\ MembersSet'
<1>1. PICK o \in Outcomes(DumpSource, DumpTargets) :
        /\ content' = o.content
        /\ silent' = Unnoticed("dump", o)
        /\ IF o.result = "error"
           THEN failed' = failed \cup {"dump"}
           ELSE usedDirectSave' = (FileLike /\ ~CopyAsIs)
  BY DEF SaveVmcore, DumpSource
<1>2. o.result = "ok"
  BY <1>1, OutcomeFacts DEF Unnoticed
<1>3. content' = Put(TargetsUsed, Full(DumpSource))
  BY <1>1, <1>2, OutcomeFacts, UsedFacts DEF Values
<1>4. Full(DumpSource) \in Contents
  BY DEF Full, Contents
<1>5. \A x \in Dirs \X Names :
        content'[x] = IF x \in TargetsUsed THEN Full(DumpSource) ELSE content[x]
  BY <1>3, <1>4, PutFacts DEF Values
<1>6. TargetsUsed \subseteq Dirs \X Names /\ Dirs \X Parts \subseteq Dirs \X Names
  BY UsedFacts, OtherFacts DEF Values, DumpFiles
<1>7. /\ \A t \in TargetsUsed : content'[t] = Full(DumpSource)
      /\ \A x \in (Dirs \X Parts) \ TargetsUsed : content'[x] = "none"
  BY <1>5, <1>6
<1>8. cfg' = cfg /\ split' = SplitCount /\ useMakedumpfile' = ~CopyAsIs
  BY DEF SaveVmcore
<1>9. usedDirectSave' = (FileLike /\ ~CopyAsIs)
  BY <1>1, <1>2
<1>10. Direct(DumpSource) <=> FileLike /\ ~CopyAsIs
  BY DEF Direct, DumpSource
<1>11. AsWritten'
  BY <1>7, <1>8, ConfigConstant DEF AsWritten
<1>12. MembersSet'
  <2> DEFINE direct == Direct(DumpSource)
             copy   == CopyAsIs
  <2>1. direct \in BOOLEAN /\ copy \in BOOLEAN /\ (direct <=> FileLike /\ ~copy)
    BY <1>10 DEF Direct, CopyAsIs
  <2>2. useMakedumpfile' = ~copy /\ usedDirectSave' = (FileLike /\ ~copy)
    BY <1>8, <1>9
  <2>3. direct' = direct /\ copy' = copy /\ split' = SplitCount'
    BY <1>8, ConfigConstant
  <2> HIDE DEF direct, copy
  <2>5. useMakedumpfile' = TRUE <=> ~copy
    BY <2>1, <2>2
  <2>6. usedDirectSave' = TRUE <=> direct
    BY <2>1, <2>2
  <2> QED BY <2>3, <2>5, <2>6 DEF MembersSet, direct, copy
<1> QED BY <1>11, <1>12

\* The dump stays when the files that belong to it do.
LEMMA WrittenKept ==
  ASSUME Values, cfg' = cfg, UNCHANGED <<usedDirectSave, useMakedumpfile, split>>,
         \A x \in DumpFiles : content'[x] = content[x]
  PROVE  (AsWritten => AsWritten') /\ (MembersSet => MembersSet')
<1>1. TargetsUsed \subseteq DumpFiles /\ Dirs \X Parts \subseteq DumpFiles
  BY UsedFacts, OtherFacts DEF Values, DumpFiles
<1>2. AsWritten => AsWritten'
  BY <1>1, ConfigConstant DEF AsWritten
<1>3. MembersSet => MembersSet'
  BY ConfigConstant DEF MembersSet
<1> QED BY <1>2, <1>3

\* Nothing of the dump is there before it is written.
LEMMA EarlyStep == Values /\ EarlyInv /\ [Next]_vars => EarlyInv'
<1> SUFFICES ASSUME Values, EarlyInv, [Next]_vars PROVE EarlyInv'
  OBVIOUS
<1> USE DEF EarlyInv, Early
<1>1. CASE Start
  BY <1>1 DEF Start
<1>2. CASE SaveDmesg
  <2>1. UNCHANGED <<readme>> /\ pc = "dmesg"
    BY <1>2 DEF SaveDmesg, progress
  <2>2. \A x \in DumpFiles : content'[x] = content[x]
    BY <1>2, TransferFacts DEF SaveDmesg, Others
  <2> QED BY <2>1, <2>2, OtherFacts
<1>3. CASE LateStep
  <2>1. pc' \in Late \cup {"done"}
    BY <1>3, LateFacts
  <2> QED BY <2>1 DEF Late
<1>4. CASE pc' \notin Early
  BY <1>4
<1>5. CASE UNCHANGED vars
  BY <1>5 DEF vars, progress
<1> QED
  BY <1>1, <1>2, <1>3, <1>4, <1>5
     DEF Next, LateStep, StartFails, SkipVmcore, PrepareFails, SaveVmcore, FinishedTwice,
         NotifyFailure, CheckAfterFailure, Notify, Done, Exit

\* What SaveVmcore has written stays as it is, unless an error is remembered.
LEMMA WrittenStep ==
  Values /\ StatusInv /\ EarlyInv /\ WrittenInv /\ [Next]_vars => WrittenInv'
<1> SUFFICES ASSUME Values, StatusInv, EarlyInv, WrittenInv, [Next]_vars PROVE WrittenInv'
  OBVIOUS
<1> USE DEF WrittenInv
<1>1. CASE Start \/ StartFails
  BY <1>1 DEF Start, StartFails, Good, Early
<1>2. CASE SaveDmesg
  BY <1>2 DEF SaveDmesg, Good, Early
<1>3. CASE SkipVmcore
  BY <1>3 DEF SkipVmcore
<1>4. CASE SaveVmcore
  BY <1>4, VmcoreWritten DEF SaveVmcore, EarlyInv, Early, Good
<1>5. CASE NotifyFailure \/ CheckAfterFailure
  BY <1>5 DEF NotifyFailure, CheckAfterFailure, StatusInv, Good
<1>6. CASE Notify
  <2>1. UNCHANGED <<cfg, usedDirectSave, useMakedumpfile, split, content, failed, silent>>
        /\ pc \notin Early
    BY <1>6 DEF Notify, progress, Early
  <2> QED BY <2>1, WrittenKept DEF Good
<1>7. CASE LateStep
  <2>1. /\ pc \notin Early /\ UNCHANGED <<cfg, usedDirectSave, useMakedumpfile, split>>
        /\ failed \subseteq failed' /\ silent \subseteq silent'
        /\ ("check" \in failed' \/ \A x \in DumpFiles : content'[x] = content[x])
    BY <1>7, LateFacts DEF Late, Early, GoesOn, Errs
  <2> QED BY <2>1, WrittenKept DEF Good
<1>8. CASE Done \/ UNCHANGED vars
  <2>1. UNCHANGED <<cfg, usedDirectSave, useMakedumpfile, split, content, failed, silent, pc>>
    BY <1>8 DEF Done, vars
  <2> QED BY <2>1, WrittenKept DEF Good
<1>9. CASE PrepareFails \/ FinishedTwice
  BY <1>9 DEF PrepareFails, FinishedTwice, Good
<1> QED
  BY <1>1, <1>2, <1>3, <1>4, <1>5, <1>6, <1>7, <1>8, <1>9 DEF Next, LateStep

\* README.txt is written from the members, which no later step sets.
LEMMA ReadmeStep ==
  Values /\ Members /\ EarlyInv /\ ReadmeInv /\ [Next]_vars => ReadmeInv'
<1> SUFFICES ASSUME Values, Members, EarlyInv, ReadmeInv, [Next]_vars PROVE ReadmeInv'
  OBVIOUS
<1> USE DEF ReadmeInv, Members
<1>1. CASE SaveVmcore
  BY <1>1 DEF SaveVmcore, EarlyInv, Early
<1>2. CASE LateStep
  <2>1. UNCHANGED <<usedDirectSave, useMakedumpfile, split>>
    BY <1>2, LateFacts
  <2>2. CASE readme' = [flat  |-> useMakedumpfile /\ ~usedDirectSave,
                       parts |-> IF usedDirectSave THEN split ELSE 0]
    <3>1. readme'.flat = (useMakedumpfile /\ ~usedDirectSave)
          /\ readme'.parts = IF usedDirectSave THEN split ELSE 0
      BY <2>2
    <3>2. CASE usedDirectSave = TRUE
      BY <2>1, <3>1, <3>2
    <3>3. CASE usedDirectSave = FALSE
      BY <2>1, <3>1, <3>3
    <3> QED BY <3>2, <3>3
  <2> QED BY <1>2, <2>1, <2>2, ReadmeFacts
<1>3. CASE UNCHANGED <<readme, usedDirectSave, useMakedumpfile, split>>
  BY <1>3
<1>4. CASE PrepareFails
  BY <1>4 DEF PrepareFails, EarlyInv, Early
<1> QED
  BY <1>1, <1>2, <1>3, <1>4
     DEF Next, LateStep, Start, StartFails, SaveDmesg, SkipVmcore, FinishedTwice, NotifyFailure,
         CheckAfterFailure, Notify, Done, progress, vars

\* If the targets could not be made, the program ends.
LEMMA StartStep == Values /\ EarlyInv /\ StartInv /\ [Next]_vars => StartInv'
<1> SUFFICES ASSUME Values, EarlyInv, StartInv, [Next]_vars, "start" \in failed'
             PROVE  pc' = "done" /\ readme' = NoReadme
  BY DEF StartInv
<1>1. CASE StartFails
  BY <1>1 DEF StartFails, Exit, EarlyInv, Early, progress
<1>2. CASE LateStep
  <2>1. pc # "done" /\ (GoesOn \/ \E step \in Late : Errs(step))
    BY <1>2, LateFacts DEF Late
  <2>2. "start" \in failed
    BY <2>1 DEF GoesOn, Errs, Late
  <2> QED BY <2>1, <2>2 DEF StartInv
<1>3. CASE UNCHANGED failed /\ pc # "done"
  BY <1>3 DEF StartInv
<1>4. CASE SaveDmesg \/ PrepareFails \/ SaveVmcore \/ FinishedTwice
  BY <1>4 DEF SaveDmesg, PrepareFails, SaveVmcore, FinishedTwice, StartInv
<1>5. CASE Done \/ UNCHANGED vars
  BY <1>5 DEF Done, vars, StartInv
<1> QED
  BY <1>1, <1>2, <1>3, <1>4, <1>5
     DEF Next, LateStep, Start, SkipVmcore, NotifyFailure, CheckAfterFailure, Notify

\* Before the start nothing is written.
LEMMA InitIInv == Init => IInv
<1> SUFFICES ASSUME Init PROVE IInv
  OBVIOUS
<1>1. content \in [Dirs \X Names -> Contents]
  BY DEF Init, Contents
<1>2. Values
  BY <1>1 DEF Init, Values
<1>3. Members /\ StatusInv /\ MailInv /\ StartInv /\ ReadmeInv
  <2>1. Members /\ ReadmeInv
    BY DEF Init, Members, ReadmeInv
  <2>2. MailInv /\ StartInv
    BY DEF Init, MailInv, StartInv
  <2>3. StatusInv
    BY DEF Init, StatusInv, Early
  <2> QED BY <2>1, <2>2, <2>3
<1>4. EarlyInv /\ WrittenInv
  BY OtherFacts DEF Init, EarlyInv, WrittenInv, Early
<1> QED BY <1>2, <1>3, <1>4 DEF IInv

\* Every step keeps the invariant.
LEMMA StepIInv == IInv /\ [Next]_vars => IInv'
BY ValuesStep, MembersStep, StatusStep, MailStep, EarlyStep, WrittenStep, StartStep, ReadmeStep
   DEF IInv

-----------------------------------------------------------------------------
(***************************************************************************)
(* The inductive invariant, for every configuration, number of targets and  *)
(* number of parts.                                                         *)
(***************************************************************************)
THEOREM SaveInvariant == Spec => []IInv
BY InitIInv, StepIInv, PTL DEF Spec

(***************************************************************************)
(* The exit status is 0 exactly if no step raised an error, although errors *)
(* are caught in six places and KDUMP_CONTINUE_ON_ERROR goes on after them  *)
(* (savedump.cc:137-214, main.cc).                                          *)
(***************************************************************************)
THEOREM ExitStatusIsRight == Spec => []ExitStatusTellsErrors
<1>1. IInv => ExitStatusTellsErrors
  BY DEF IInv, StatusInv, ExitStatusTellsErrors, Terminated, Failed
<1> QED BY <1>1, SaveInvariant, PTL

\* A dump that is as it was written is whole.
LEMMA WrittenIsWhole == AsWritten => DumpWhole
BY DEF AsWritten, DumpWhole, Full, Whole

(***************************************************************************)
(* Exit status 0 without an unnoticed truncation means that every part of   *)
(* the dump is whole where it belongs: no later step writes to it, and the  *)
(* check of the free space did not take it away (savedump.cc:137-214).      *)
(***************************************************************************)
THEOREM SavedMeansDump == Spec => []SuccessMeansDump
<1>1. IInv => SuccessMeansDump
  <2> SUFFICES ASSUME IInv, Terminated, ~Failed, "dump" \notin silent, cfg.format # "none"
               PROVE  DumpWhole
    BY DEF SuccessMeansDump
  <2>1. failed = {} /\ pc \notin Early
    BY DEF IInv, StatusInv, Terminated, Failed, Early
  <2> QED BY <2>1, WrittenIsWhole DEF IInv, WrittenInv, Good
<1> QED BY <1>1, SaveInvariant, PTL

(***************************************************************************)
(* Without KDUMP_CONTINUE_ON_ERROR the mail that says the dump was copied   *)
(* is the only one, and the dump is whole when it goes out                  *)
(* (savedump.cc:138-163).                                                   *)
(***************************************************************************)
THEOREM CopiedMailTellsTruth == Spec => CopiedMailIsTrue
<1> DEFINE A == Len(mails') > Len(mails) /\ mails'[Len(mails')] = "copied"
                  /\ ~cfg.cont /\ cfg.format # "none" =>
                  /\ Len(mails) = 0
                  /\ DumpWhole \/ "dump" \in silent
<1>1. IInv /\ [Next]_vars => [A]_vars
  <2> SUFFICES ASSUME IInv, Next, Len(mails') > Len(mails), mails'[Len(mails')] = "copied",
                      cfg.cont = FALSE, cfg.format # "none"
               PROVE  Len(mails) = 0 /\ (DumpWhole \/ "dump" \in silent)
    <3>1. IInv => cfg.cont \in BOOLEAN
      BY ConfigFacts DEF IInv, Values
    <3> QED BY <3>1
  <2>1. mails \in Seq({"failed", "copied"}) /\ mails' # mails
    BY DEF IInv, Values
  <2>2. ~LateStep
    BY <2>1, LateFacts DEF IInv
  <2>3. CASE NotifyFailure
    <3>1. mails' = Append(mails, "failed")
      BY <2>1, <2>3 DEF NotifyFailure, Send
    <3> QED BY <2>1, <3>1
  <2>4. CASE Notify
    <3>1. mails = <<>> /\ failed = {} /\ pc \notin Early
      BY <2>4 DEF Notify, IInv, MailInv, Early
    <3>2. "dump" \notin silent => DumpWhole
      BY <3>1, WrittenIsWhole DEF IInv, WrittenInv, Good
    <3> QED BY <3>1, <3>2
  <2> QED
    BY <2>1, <2>2, <2>3, <2>4
       DEF Next, LateStep, Start, StartFails, SaveDmesg, SkipVmcore, PrepareFails, SaveVmcore,
           FinishedTwice, CheckAfterFailure, Done, vars
<1> QED BY <1>1, SaveInvariant, PTL DEF Spec, CopiedMailIsTrue

-----------------------------------------------------------------------------
\* The parts of a dump are as many as there are names for them.
LEMMA PartsCounted ==
  ASSUME cfg \in Configs, FileLike, SplitCount > 0
  PROVE  Cardinality(TargetsUsed) = SplitCount
<1> DEFINE n == SplitCount
           f == [i \in 1..n |-> DumpTargets[i]]
<1>1. n \in Nat /\ n <= Len(Part) /\ TargetsUsed = {DumpTargets[i] : i \in 1..n}
  BY SplitFacts, TargetFacts DEF TargetsUsed
<1>2. \A i \in 1..n : i \in DOMAIN Part /\ \E d \in Dirs : DumpTargets[i] = <<d, Part[i]>>
  BY <1>1, SplitFacts, TargetFacts, PartFacts
<1>3. \A i, j \in 1..n : DumpTargets[i] = DumpTargets[j] => i = j
  BY <1>2, PartAssumption
<1> HIDE DEF n
<1>4. f \in [1..n -> TargetsUsed]
  BY <1>1
<1>5. f \in Injection(1..n, TargetsUsed)
  BY <1>3, <1>4 DEF Injection, IsInjective
<1>6. f \in Surjection(1..n, TargetsUsed)
  BY <1>1, <1>4 DEF Surjection
<1>7. ExistsBijection(1..n, TargetsUsed)
  BY <1>5, <1>6 DEF ExistsBijection, Bijection
<1> QED BY <1>1, <1>7, FS_CountingElements DEF n

(***************************************************************************)
(* README.txt describes the dump next to it: flattened exactly if it is,    *)
(* and with as many parts as there are (savedump.cc:363-381, 461-530).      *)
(***************************************************************************)
THEOREM ReadmeTellsTruth == Spec => []ReadmeDescribesDump
<1>1. IInv => ReadmeDescribesDump
  <2> SUFFICES ASSUME IInv, readme # NoReadme, "dump" \notin failed \cup silent,
                      cfg.format # "none", "check" \notin failed
               PROVE  /\ readme.flat <=> \A t \in TargetsUsed : content[t] \in Flattened
                      /\ FileLike => readme.parts =
                           Cardinality({x \in Dirs \X Parts : content[x] \in Whole})
    BY DEF ReadmeDescribesDump
  <2>1. cfg \in Configs /\ Good /\ pc \notin Early
    BY DEF IInv, Values, StartInv, EarlyInv, Good
  <2>2. AsWritten /\ MembersSet
    BY <2>1 DEF IInv, WrittenInv
  <2>3. usedDirectSave \in BOOLEAN /\ useMakedumpfile \in BOOLEAN
    BY DEF IInv, Members
  <2>4. Direct(DumpSource) <=> FileLike /\ ~CopyAsIs
    BY DEF Direct, DumpSource
  <2>5. readme.flat <=> \A t \in TargetsUsed : content[t] \in Flattened
    <3>1. readme.flat \in BOOLEAN /\ (readme.flat = TRUE <=> ~CopyAsIs /\ ~FileLike)
      BY <2>2, <2>3, <2>4 DEF IInv, ReadmeInv, MembersSet
    <3>2. Full(DumpSource) \in Flattened <=> ~CopyAsIs /\ ~FileLike
      BY DEF Full, Flat, Flattened, DumpSource
    <3>3. (\A t \in TargetsUsed : content[t] \in Flattened) <=> Full(DumpSource) \in Flattened
      BY <2>1, <2>2, UsedFacts DEF AsWritten
    <3> QED BY <3>1, <3>2, <3>3
  <2>6. ASSUME FileLike
        PROVE  readme.parts = Cardinality({x \in Dirs \X Parts : content[x] \in Whole})
    <3> DEFINE W == {x \in Dirs \X Parts : content[x] \in Whole}
    <3>1. readme.parts = IF usedDirectSave = TRUE THEN SplitCount ELSE 0
      BY <2>2 DEF IInv, ReadmeInv, MembersSet
    <3>2. W = TargetsUsed \cap (Dirs \X Parts)
      BY <2>2, <2>6 DEF AsWritten, Full, Whole
    <3>3. CASE SplitCount > 0
      <4>1. usedDirectSave = TRUE
        BY <2>1, <2>2, <2>4, <2>6, <3>3, SplitFacts DEF MembersSet
      <4>2. TargetsUsed \subseteq Dirs \X Parts
        <5>1. TargetsUsed = {DumpTargets[i] : i \in 1..SplitCount}
          BY <2>1, <2>6, <3>3, TargetFacts DEF TargetsUsed
        <5>2. ASSUME NEW i \in 1..SplitCount PROVE DumpTargets[i] \in Dirs \X Parts
          <6>1. Part[i] \in Parts
            BY <2>1, SplitFacts, PartFacts
          <6>2. PICK d \in Dirs : DumpTargets[i] = <<d, Part[i]>>
            BY <2>1, <3>3, TargetFacts
          <6> QED BY <6>1, <6>2
        <5> QED BY <5>1, <5>2
      <4>3. W = TargetsUsed
        BY <3>2, <4>2
      <4> QED BY <2>1, <2>6, <3>1, <3>3, <4>1, <4>3, PartsCounted
    <3>4. CASE SplitCount = 0
      <4>1. "vmcore" \notin Parts
        BY PartAssumption
      <4>2. W = {}
        BY <2>1, <3>2, <3>4, <4>1, UsedFacts
      <4> QED BY <3>1, <3>4, <4>2, FS_EmptySet
    <3> QED BY <2>1, <3>3, <3>4, SplitFacts
  <2> QED BY <2>5, <2>6
<1> QED BY <1>1, SaveInvariant, PTL

-----------------------------------------------------------------------------
(***************************************************************************)
(* The types, beyond those that the invariant above is about.               *)
(***************************************************************************)
Pcs == {"start", "dmesg", "vmcore", "caught", "caughtCheck", "notify",
        "check", "perl", "script", "info", "map", "kernel", "done"}
Ranges ==
  /\ pc \in Pcs /\ exitCode \in {-1, 0, 1, Signalled}
  /\ failed \subseteq Steps /\ silent \subseteq Steps
Rest ==
  /\ dump \in {"missing", "empty", "good"} /\ deleted \subseteq Dirs
  /\ release \in BOOLEAN
  /\ split \in 0..cfg.online
  /\ cmd.threads = 0 \/ cmd.threads \in 1..(cfg.online - 1)

\* Without a stream nothing is in makedumpfile's flattened format.
Plain == FileLike => \A x \in Dirs \X Names : content[x] \notin Flattened

\* A step that goes on or fails stays in the ranges.
LEMMA GoesRange ==
  ASSUME Values, Members, Ranges, NEW step \in Steps, NEW next \in Pcs,
         Raise(step, next) \/ Proceed(next)
  PROVE  pc' \in Pcs /\ exitCode' \in {-1, 0, 1, Signalled} /\ failed' \subseteq Steps
<1>1. CASE Raise(step, next)
  <2>1. cfg.cont \in BOOLEAN
    BY ConfigFacts DEF Values
  <2> QED
    BY <1>1, <2>1 DEF Raise, Exit, Ranges, Pcs
<1>2. CASE Proceed(next)
  BY <1>2 DEF Proceed, Exit, Ranges, Members, Pcs
<1> QED
  BY <1>1, <1>2

\* So does a step that transfers a file.
LEMMA TryRange ==
  ASSUME Values, Members, Ranges, NEW step \in Steps, NEW name, NEW ok \in Pcs,
         NEW next \in Pcs, Try(step, name, ok, next)
  PROVE  Ranges'
<1>1. PICK o \in Outcomes("other", First(name)) :
        /\ silent' = Unnoticed(step, o)
        /\ IF o.result = "error" THEN Raise(step, next) ELSE Proceed(ok)
  BY DEF Try
<1>2. silent' \subseteq Steps
  BY <1>1 DEF Unnoticed, Ranges
<1>3. pc' \in Pcs /\ exitCode' \in {-1, 0, 1, Signalled} /\ failed' \subseteq Steps
  BY <1>1, GoesRange
<1> QED
  BY <1>2, <1>3 DEF Ranges

\* Every step keeps the program counter, the exit status and the histories in
\* their ranges.
LEMMA RangesStep == Values /\ Members /\ Ranges /\ [Next]_vars => Ranges'
<1> SUFFICES ASSUME Values, Members, Ranges, [Next]_vars PROVE Ranges'
  OBVIOUS
<1>0. {"start", "dump", "check", "perl", "script", "info", "map", "kernel"} \subseteq Steps
      /\ {"perl", "script", "info", "map", "kernel", "done"} \subseteq Pcs
  BY DEF Steps, Pcs
<1>1. CASE Start \/ SkipVmcore \/ NotifyFailure \/ Notify \/ Done \/ UNCHANGED vars
  BY <1>1 DEF Start, SkipVmcore, NotifyFailure, Notify, Done, vars, Ranges, Pcs
<1>2. CASE StartFails
  BY <1>0, <1>2 DEF StartFails, Exit, Ranges, Members, Pcs
<1>3. CASE SaveDmesg
  BY <1>0, <1>3 DEF SaveDmesg, Ranges, Pcs
<1>4. CASE SaveVmcore
  BY <1>0, <1>4 DEF SaveVmcore, Unnoticed, Ranges, Pcs
<1>5. CASE CheckAfterFailure
  BY <1>5 DEF CheckAfterFailure, Exit, Ranges, Members, Pcs
<1>10. CASE PrepareFails \/ FinishedTwice
  BY <1>0, <1>10 DEF PrepareFails, FinishedTwice, Ranges, Pcs
<1>6. CASE CheckAndDelete
  <2>1. pc' \in Pcs /\ exitCode' \in {-1, 0, 1, Signalled} /\ failed' \subseteq Steps
    BY <1>0, <1>6, GoesRange DEF CheckAndDelete
  <2> QED
    BY <1>6, <2>1 DEF CheckAndDelete, Ranges
<1>7. CASE CopyMakedumpfile
  <2>1. CASE Try("perl", "makedumpfile-R.pl", "script", "info")
    BY <1>0, <2>1, TryRange
  <2>2. CASE UNCHANGED silent /\ (Proceed("info") \/ Raise("perl", "info"))
    <3>1. pc' \in Pcs /\ exitCode' \in {-1, 0, 1, Signalled} /\ failed' \subseteq Steps
      BY <1>0, <2>2, GoesRange
    <3> QED
      BY <2>2, <3>1 DEF Ranges
  <2> QED
    BY <1>7, <2>1, <2>2 DEF CopyMakedumpfile
<1>8. CASE GenerateRearrange \/ GenerateInfo \/ CopyKernel
  BY <1>0, <1>8, TryRange DEF GenerateRearrange, GenerateInfo, CopyKernel
<1>9. CASE CopyMap
  <2>1. CASE Try("map", "System.map", "kernel", "done")
    BY <1>0, <2>1, TryRange
  <2>2. CASE UNCHANGED silent /\ (Proceed("done") \/ Raise("map", "done"))
    <3>1. pc' \in Pcs /\ exitCode' \in {-1, 0, 1, Signalled} /\ failed' \subseteq Steps
      BY <1>0, <2>2, GoesRange
    <3> QED
      BY <2>2, <3>1 DEF Ranges
  <2> QED
    BY <1>9, <2>1, <2>2 DEF CopyMap
<1> QED
  BY <1>1, <1>2, <1>3, <1>4, <1>5, <1>6, <1>7, <1>8, <1>9, <1>10 DEF Next

\* The threads and the parts are no more than the processors that are online.
LEMMA WorkersFacts ==
  ASSUME Values
  PROVE  /\ SplitCount \in 0..cfg.online
         /\ ThreadCount = 0 \/ ThreadCount \in 1..(cfg.online - 1)
<1>1. cfg.cpus \in Nat /\ cfg.online \in Nat
  BY ConfigsAssumption DEF Values, ConfigType
<1>2. Workers \in 0..cfg.online
  BY <1>1 DEF Workers
<1>3. Parallel => Workers > 1
  BY DEF Parallel
<1>4. SplitCount \in {0, Workers}
  BY DEF SplitCount
<1>5. ThreadCount = 0 \/ (Workers > 1 /\ ThreadCount = Workers - 1)
  BY <1>3 DEF ThreadCount
<1> QED
  BY <1>1, <1>2, <1>4, <1>5

\* Every step keeps the rest in its ranges.
LEMMA RestStep == Values /\ Rest /\ [Next]_vars => Rest'
<1> SUFFICES ASSUME Values, Rest, [Next]_vars PROVE Rest'
  OBVIOUS
<1>1. CASE SaveVmcore
  <2>1. cfg' = cfg /\ split' = SplitCount /\ UNCHANGED <<dump, deleted, release>>
    BY <1>1 DEF SaveVmcore
  <2>2. cmd'.threads \in {0, ThreadCount}
    BY <1>1 DEF SaveVmcore, NoCmd
  <2> QED
    BY <2>1, <2>2, WorkersFacts DEF Rest
<1>2. ASSUME UNCHANGED <<cfg, dump, split, cmd>>, deleted' \subseteq Dirs, release' \in BOOLEAN
      PROVE  Rest'
  BY <1>2 DEF Rest
<1>3. ASSUME CheckPasses \/ CheckThrows PROVE deleted' \subseteq Dirs
  <2>1. \A i \in DOMAIN cfg.urls : cfg.urls[i] \in Dirs
    BY ConfigFacts DEF Values
  <2>2. deleted \subseteq Dirs
    BY DEF Rest
  <2>3. CASE CheckPasses
    BY <2>2, <2>3 DEF CheckPasses
  <2>4. CASE CheckThrows
    <3>1. deleted' = deleted \/ \E i \in DOMAIN cfg.urls : deleted' = deleted \cup {cfg.urls[i]}
      BY <2>4 DEF CheckThrows
    <3> QED
      BY <2>1, <2>2, <3>1
  <2> QED
    BY <1>3, <2>3, <2>4
<1>4. CASE CheckAfterFailure \/ CheckAndDelete
  <2>1. deleted' \subseteq Dirs
    BY <1>3, <1>4 DEF CheckAfterFailure, CheckAndDelete
  <2> QED
    BY <1>2, <1>4, <2>1 DEF CheckAfterFailure, CheckAndDelete, progress, Rest
<1>5. CASE Start \/ GenerateInfo
  <2>1. release' \in BOOLEAN
    BY <1>5 DEF Start, GenerateInfo, Rest
  <2> QED
    BY <1>2, <1>5, <2>1 DEF Start, GenerateInfo, Rest
<1>6. CASE UNCHANGED <<cfg, dump, progress, deleted>>
  BY <1>2, <1>6 DEF progress, Rest
<1>7. CASE PrepareFails
  <2>1. UNCHANGED <<cfg, dump, cmd, deleted, release>> /\ split' \in {SplitCount, 0}
    BY <1>7 DEF PrepareFails
  <2>2. cfg.online \in Nat
    BY ConfigFacts DEF Values
  <2>3. split' \in 0..cfg.online
    BY <2>1, <2>2, WorkersFacts
  <2> QED
    BY <2>1, <2>3 DEF Rest
<1> QED
  BY <1>1, <1>4, <1>5, <1>6, <1>7
     DEF Next, StartFails, SaveDmesg, SkipVmcore, FinishedTwice, NotifyFailure, Notify, CopyMakedumpfile,
         GenerateRearrange, CopyMap, CopyKernel, Done, progress, vars

\* Writing something that is not flattened keeps Plain.
LEMMA PutPlain ==
  ASSUME Values, Plain, NEW S, NEW c \in Contents, FileLike => c \notin Flattened,
         NEW after, after = Put(S, c)
  PROVE  FileLike => \A x \in Dirs \X Names : after[x] \notin Flattened
BY PutFacts DEF Values, Plain

\* Any transfer keeps it, too.
LEMMA TransferPlain ==
  ASSUME Values, Plain, NEW source, NEW targets, NEW o \in Outcomes(source, targets)
  PROVE  FileLike => \A x \in Dirs \X Names : o.content[x] \notin Flattened
<1>1. PICK S : o.content \in {Put(S, Full(source)), Put(S, Short(source))}
  BY OutcomeFacts
<1>2. /\ Full(source) \in Contents /\ Short(source) \in Contents
      /\ FileLike => Full(source) \notin Flattened /\ Short(source) \notin Flattened
  BY DEF Full, Short, Flat, Contents, Flattened
<1> QED
  BY <1>1, <1>2, PutPlain

\* Every step keeps it.
LEMMA PlainStep == Values /\ Plain /\ [Next]_vars => Plain'
<1> SUFFICES ASSUME Values, Plain, [Next]_vars PROVE Plain'
  OBVIOUS
<1>1. cfg' = cfg /\ (FileLike' <=> FileLike)
  BY DEF Next, Start, StartFails, SaveDmesg, SkipVmcore, PrepareFails, SaveVmcore,
     FinishedTwice, NotifyFailure, CheckAfterFailure, Notify, CheckAndDelete, CopyMakedumpfile, GenerateRearrange,
     GenerateInfo, CopyMap, CopyKernel, Done, vars, FileLike
<1>2. ASSUME FileLike => \A x \in Dirs \X Names : content'[x] \notin Flattened PROVE Plain'
  BY <1>1, <1>2 DEF Plain
<1>3. ASSUME NEW source, NEW targets, NEW o \in Outcomes(source, targets), content' = o.content
      PROVE  Plain'
  BY <1>2, <1>3, TransferPlain
<1>4. ASSUME NEW step, NEW name, NEW ok, NEW next, Try(step, name, ok, next) PROVE Plain'
  BY <1>3, <1>4 DEF Try
<1>5. CASE UNCHANGED content
  BY <1>2, <1>5 DEF Plain
<1>6. CASE SaveDmesg
  BY <1>3, <1>5, <1>6 DEF SaveDmesg
<1>7. CASE SaveVmcore
  BY <1>3, <1>7 DEF SaveVmcore
<1>12. CASE FinishedTwice
  BY <1>3, <1>12 DEF FinishedTwice
<1>8. CASE CheckAfterFailure \/ CheckAndDelete
  <2>1. content' = content \/ \E S : content' = Put(S, "none")
    BY <1>8 DEF CheckAfterFailure, CheckAndDelete, CheckPasses, CheckThrows
  <2>2. "none" \in Contents /\ "none" \notin Flattened
    BY DEF Contents, Flattened
  <2> QED
    BY <1>2, <1>5, <2>1, <2>2, PutPlain
<1>9. CASE CopyMakedumpfile
  BY <1>4, <1>5, <1>9 DEF CopyMakedumpfile
<1>10. CASE GenerateRearrange \/ GenerateInfo \/ CopyKernel
  BY <1>4, <1>10 DEF GenerateRearrange, GenerateInfo, CopyKernel
<1>11. CASE CopyMap
  BY <1>4, <1>5, <1>11 DEF CopyMap
<1> QED
  BY <1>5, <1>6, <1>7, <1>8, <1>9, <1>10, <1>11, <1>12
     DEF Next, Start, StartFails, SkipVmcore, PrepareFails, NotifyFailure, Notify, Done, vars

(***************************************************************************)
(* The variables stay in their ranges for every configuration: no more      *)
(* threads and parts than processors, and no file in makedumpfile's stream  *)
(* format where the targets are files (savedump.cc:216-343, 347-386).       *)
(***************************************************************************)
THEOREM TypeCorrect == Spec => []TypeOK
<1>1. Init => Ranges /\ Rest /\ Plain
  <2> SUFFICES ASSUME Init PROVE Ranges /\ Rest /\ Plain
    OBVIOUS
  <2>1. cfg.online \in Nat
    BY ConfigsAssumption DEF Init, ConfigType
  <2>2. Rest
    <3>1. cmd.threads = 0
      BY DEF Init, NoCmd
    <3>2. split = 0 /\ deleted = {} /\ dump \in {"missing", "empty", "good"}
      BY DEF Init
    <3>3. release \in BOOLEAN
      BY DEF Init
    <3>4. split \in 0..cfg.online
      BY <2>1, <3>2
    <3> QED
      BY <3>1, <3>2, <3>3, <3>4 DEF Rest
  <2>3. Ranges
    BY DEF Init, Ranges, Pcs
  <2>4. Plain
    BY DEF Init, Plain, Flattened
  <2> QED
    BY <2>2, <2>3, <2>4
<1>2. IInv => Values /\ Members
  BY DEF IInv
<1>3. Spec => [](Ranges /\ Rest /\ Plain)
  BY <1>1, <1>2, RangesStep, RestStep, PlainStep, SaveInvariant, PTL DEF Spec
<1>4. IInv /\ Ranges /\ Rest /\ Plain => TypeOK
  <2> SUFFICES ASSUME IInv, Ranges, Rest, Plain PROVE TypeOK
    OBVIOUS
  <2>1. \A x \in Dirs \X Names : FileLike => content[x] \notin Flattened
    BY DEF Plain
  <2> QED
    BY <2>1 DEF IInv, Values, Members, Ranges, Rest, Pcs, TypeOK
<1> QED
  BY <1>3, <1>4, SaveInvariant, PTL
=============================================================================
