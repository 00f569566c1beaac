------------------------------ MODULE SaveDump ------------------------------
(***************************************************************************)
(* One invocation of "kdumptool save_dump" (src/kdumptool/savedump.cc), the *)
(* program that runs in the kdump environment after a crash: it creates the *)
(* target directories, extracts dmesg, writes the dump with makedumpfile,   *)
(* sends the notification mail, gives the disk space back when too little   *)
(* is left, and adds the helper files.  Every step can fail; what happens   *)
(* then depends on KDUMP_CONTINUE_ON_ERROR.                                 *)
(*                                                                         *)
(* Sizes and file contents are abstracted to "absent / cut short / whole",  *)
(* plus whether the file is in makedumpfile's flattened stream format.      *)
(***************************************************************************)
EXTENDS Integers, Sequences, FiniteSets

CONSTANTS
  Configs,    \* the configurations (records, see ConfigType) to start from
  Dirs,       \* per-crash directories, one below each KDUMP_SAVEDIR element
  Part        \* names of the split dump's parts: vmcore1, vmcore2, ...

VARIABLES
  cfg,        \* the configuration, fixed for the invocation
  pc,         \* the step of SaveDump::execute that comes next
  dump,       \* the dump file: "missing", "empty" or "good"
  exists,     \* directories that exist
  content,    \* content[d, n] of file n in directory d
  cmd,        \* the makedumpfile command line that was run, or NoCmd
  usedDirectSave, useMakedumpfile, split,   \* members of class SaveDump
  release,    \* m_crashrelease is known
  readme,     \* what README.txt says, or NoReadme
  errorCode,  \* Subcommand::m_errorcode
  exitCode,   \* the exit status, once pc = "done"
  mails,      \* notification mails that left the machine, in order
  failed,     \* history: steps that raised an error
  silent,     \* history: steps whose transfer was cut short unnoticed
  deleted     \* history: directories removed because the disk was too full

vars == <<cfg, pc, dump, exists, content, cmd, usedDirectSave,
          useMakedumpfile, split, release, readme, errorCode, exitCode, mails,
          failed, silent, deleted>>

progress == <<usedDirectSave, useMakedumpfile, split, release, cmd, readme>>

Parts  == {Part[i] : i \in DOMAIN Part}
Others == {"dmesg.txt", "makedumpfile-R.pl", "rearrange.sh", "README.txt",
           "System.map", "kernel"}
Names  == {"vmcore"} \cup Others \cup Parts

Contents  == {"none", "cut", "whole", "flatcut", "flatwhole"}
Whole     == {"whole", "flatwhole"}
Flattened == {"flatcut", "flatwhole"}

NoCmd    == [level |-> -1, threads |-> 0, split |-> 0, flat |-> FALSE]
NoReadme == [flat |-> FALSE, parts |-> -1]

(***************************************************************************)
(* kind: "file" = file:// targets, "mount" = nfs:// and cifs:// (a file     *)
(* transfer below a mount point, but not a PROT_FILE url), "stream" = ftp://,*)
(* and the sftp:// and ssh:// of which RemoteTransfers and the modules of    *)
(* the SSH uploads tell more.                                               *)
(***************************************************************************)
ConfigType ==
  [kind : {"file", "mount", "stream"}, urls : Seq(Dirs) \ {<<>>},
   cont : BOOLEAN, format : {"none", "elf", "compressed"}, level : Int,
   cpus : Nat, online : Nat, flags : SUBSET {"SINGLE", "SPLIT", "NOSPLIT"},
   xen : BOOLEAN, mail : BOOLEAN, copyKernel : BOOLEAN]

\* "vmcore" << i: a name for each part, and no other file is called like that.
ASSUME PartAssumption ==
  /\ Part \in Seq(Parts)
  /\ \A i, j \in DOMAIN Part : Part[i] = Part[j] => i = j
  /\ Parts \cap ({"vmcore"} \cup Others) = {}
ASSUME ConfigsAssumption ==
  Configs \subseteq ConfigType /\ \A c \in Configs : c.online <= Len(Part)

FileLike == cfg.kind \in {"file", "mount"}

-----------------------------------------------------------------------------
(***************************************************************************)
(* Transfer::perform.  A process provider (makedumpfile) writes all targets *)
(* itself when the transfer is a FileTransfer; everything else is piped to  *)
(* the first target, and makedumpfile's pipe is in flattened format.        *)
(*                                                                         *)
(* "silent": success is reported for a file that is cut short, because      *)
(* WEXITSTATUS of a child killed by a signal is 0 (saveToFile, finish), or  *)
(* because FileTransfer::close ignores the result of fclose.                *)
(***************************************************************************)
\* Every file of S has the contents c.
Put(S, c) == [x \in DOMAIN content |-> IF x \in S THEN c ELSE content[x]]

Direct(source) == source = "makedumpfile" /\ FileLike

Outcomes(source, targets) ==
  LET used == IF Direct(source) THEN {targets[i] : i \in DOMAIN targets}
                                ELSE {targets[1]}
      reach == {t \in used : FileLike => t[1] \in exists}
      flat  == source = "makedumpfile" /\ ~FileLike
      cut   == IF flat THEN "flatcut" ELSE "cut"
      whole == IF flat THEN "flatwhole" ELSE "whole"
      died  == IF source = "makedumpfile" THEN SUBSET reach
               ELSE {used} \cap (IF FileLike THEN {reach} ELSE {})
  IN  [content : {Put(used, whole) : S \in {used} \cap {reach}}, result : {"ok"}]
      \cup [content : {Put(S, cut) : S \in SUBSET reach}, result : {"error"}]
      \cup [content : {Put(S, cut) : S \in died}, result : {"silent"}]

First(name) == << <<cfg.urls[1], name>> >>

-----------------------------------------------------------------------------
\* The rest of saveDump(): how many processors, and what they are used for.
Contains(flag) ==   \* kdumptoolContainsFlag searches for a substring
  \/ flag \in cfg.flags
  \/ flag = "SPLIT" /\ "NOSPLIT" \in cfg.flags

Elf      == cfg.format = "elf"
Workers  == IF cfg.cpus > cfg.online THEN cfg.online ELSE cfg.cpus
Parallel == ~Contains("SINGLE") /\ Workers > 1
Splits   == Parallel /\ Contains("SPLIT") /\ ~Contains("NOSPLIT")

SplitCount  == IF Splits /\ ~Elf THEN Workers ELSE 0
ThreadCount == IF Parallel /\ ~Splits /\ ~Elf THEN Workers - 1 ELSE 0

Dumplevel == IF cfg.level \in 0..31 THEN cfg.level ELSE 0

\* FileDataProvider: the core is copied as it is, without makedumpfile.
CopyAsIs == Elf /\ Dumplevel = 0 /\ ~cfg.xen

\* FileTransfer::perform walks the directories in a circle.
Spread(names) ==
  [i \in DOMAIN names |->
     <<cfg.urls[((i - 1) % Len(cfg.urls)) + 1], names[i]>>]

DumpTargetsOneShort ==   \* altered: the loop over the parts ends too early
  IF SplitCount > 0 THEN Spread([i \in 1..(SplitCount - 1) |-> Part[i]])
                    ELSE First("vmcore")

DumpTargets ==
  IF SplitCount > 0 THEN Spread([i \in 1..SplitCount |-> Part[i]])
                    ELSE First("vmcore")

-----------------------------------------------------------------------------
Init ==
  /\ cfg \in Configs
  /\ pc = "start"
  /\ dump \in {"missing", "empty", "good"}
  /\ exists = {}
  /\ content = [x \in Dirs \X Names |-> "none"]
  /\ cmd = NoCmd
  /\ usedDirectSave = FALSE /\ useMakedumpfile = FALSE /\ split = 0
  /\ release = FALSE
  /\ readme = NoReadme
  /\ errorCode = 0 /\ exitCode = 0
  /\ mails = <<>>
  /\ failed = {} /\ silent = {} /\ deleted = {}

\* main(): an exception with error code 0 becomes exit status -1.
Exit(code, thrown) ==
  /\ pc' = "done"
  /\ exitCode' = IF thrown /\ code = 0 THEN -1 ELSE code

Raise(step, next) ==
  /\ failed' = failed \cup {step}
  /\ errorCode' = 1
  /\ CASE ~cfg.cont       -> Exit(1, TRUE)
       [] next = "done"    -> Exit(1, FALSE)
       [] OTHER            -> pc' = next /\ UNCHANGED exitCode

Proceed(next) ==
  /\ IF next = "done" THEN Exit(errorCode, FALSE)
                      ELSE pc' = next /\ UNCHANGED exitCode
  /\ UNCHANGED <<failed, errorCode>>

Unnoticed(step, o) ==
  IF o.result = "silent" THEN silent \cup {step} ELSE silent

\* A file beside the dump, with a try block of its own in execute().
Try(step, name, ok, next) ==
  \E o \in Outcomes("other", First(name)) :
    /\ content' = o.content
    /\ silent' = Unnoticed(step, o)
    /\ IF o.result = "error" THEN Raise(step, next) ELSE Proceed(ok)

(***************************************************************************)
(* Up to and including getTransfer(): errors here are not caught, whatever  *)
(* KDUMP_CONTINUE_ON_ERROR says.                                            *)
(***************************************************************************)
Start ==
  /\ pc = "start"
  /\ dump # "missing"
  /\ release' \in BOOLEAN
  /\ exists' = IF FileLike THEN {cfg.urls[i] : i \in DOMAIN cfg.urls} ELSE {}
  /\ pc' = "dmesg"
  /\ UNCHANGED <<cfg, dump, content, cmd, usedDirectSave, useMakedumpfile,
                 split, readme, errorCode, exitCode, mails, failed, silent,
                 deleted>>

StartFails ==
  /\ pc = "start"
  /\ failed' = failed \cup {"start"}
  /\ \E i \in DOMAIN cfg.urls :   \* mkdir or mount fails at element i
       exists' = IF FileLike /\ dump # "missing"
                 THEN {cfg.urls[j] : j \in 1..(i - 1)} ELSE {}
  /\ Exit(errorCode, TRUE)
  /\ UNCHANGED <<cfg, dump, content, progress, errorCode, mails, silent,
                 deleted>>

\* saveDump() checks the size, then extracts dmesg and ignores all errors.
SaveDmesg ==
  /\ pc = "dmesg"
  /\ IF dump = "empty"
     THEN /\ pc' = "caught"
          /\ failed' = failed \cup {"dump"}
          /\ UNCHANGED <<content, silent>>
     ELSE /\ pc' = "vmcore"
          /\ \E o \in Outcomes("makedumpfile", First("dmesg.txt")) :
               content' = o.content
          /\ UNCHANGED <<failed, silent>>
  /\ UNCHANGED <<cfg, dump, exists, progress, errorCode, exitCode, mails,
                 deleted>>

SkipVmcore ==
  /\ pc = "vmcore"
  /\ cfg.format = "none"
  /\ pc' = "notify"
  /\ UNCHANGED <<cfg, dump, exists, content, progress, errorCode, exitCode,
                 mails, failed, silent, deleted>>

(***************************************************************************)
(* Before the transfer begins: the processors cannot be counted, which is   *)
(* only tried if KDUMP_CPUS is not 0 (savedump.cc:288), or the dump cannot  *)
(* be looked through for Xen (line 313).                                    *)
(***************************************************************************)
PrepareFails ==
  /\ pc = "vmcore"
  /\ cfg.format # "none"
  /\ split' \in {SplitCount} \cup (IF cfg.cpus > 0 THEN {0} ELSE {})
  /\ pc' = "caught"
  /\ failed' = failed \cup {"dump"}
  /\ UNCHANGED <<cfg, dump, exists, content, cmd, usedDirectSave, useMakedumpfile,
                 release, readme, errorCode, exitCode, mails, silent, deleted>>

\* What the shell sees of a program that a signal has ended.
Signalled == 139

(***************************************************************************)
(* FTPTransfer::perform calls finish() again in its catch block.  If        *)
(* makedumpfile could not be started, or finish() threw because it had      *)
(* failed, that is pclose(NULL), which ends kdumptool with nothing caught.  *)
(***************************************************************************)
FinishedTwice ==
  /\ pc \in {"dmesg", "vmcore"} /\ dump # "empty" /\ cfg.kind = "stream"
  /\ pc = "vmcore" => cfg.format # "none" /\ ~CopyAsIs
  /\ \E o \in Outcomes("makedumpfile",
                        IF pc = "dmesg" THEN First("dmesg.txt") ELSE DumpTargets) :
       o.result = "error" /\ content' = o.content
  /\ failed' = failed \cup {"dump"}
  /\ pc' = "done" /\ exitCode' = Signalled
  /\ UNCHANGED <<cfg, dump, exists, progress, errorCode, mails, silent, deleted>>

\* m_usedDirectSave is assigned by the transfer: a FileTransfer does it only
\* after success.
SaveVmcore ==
  /\ pc = "vmcore"
  /\ cfg.format # "none"
  /\ split' = SplitCount
  /\ useMakedumpfile' = ~CopyAsIs
  /\ cmd' = IF CopyAsIs THEN NoCmd
            ELSE [level |-> cfg.level, threads |-> ThreadCount,
                  split |-> SplitCount, flat |-> ~FileLike]
  /\ \E o \in Outcomes(IF CopyAsIs THEN "other" ELSE "makedumpfile",
                       DumpTargets) :
       /\ content' = o.content
       /\ silent' = Unnoticed("dump", o)
       /\ IF o.result = "error"
          THEN /\ pc' = "caught"
               /\ failed' = failed \cup {"dump"}
               /\ UNCHANGED usedDirectSave
          ELSE /\ pc' = "notify"
               /\ usedDirectSave' = (FileLike /\ ~CopyAsIs)
               /\ UNCHANGED failed
  /\ UNCHANGED <<cfg, dump, exists, release, readme, errorCode, exitCode,
                 mails, deleted>>

-----------------------------------------------------------------------------
\* sendNotification(): nothing is sent unless configured; errors are logged.
Send(mail) ==
  \/ cfg.mail /\ mails' = Append(mails, mail)
  \/ UNCHANGED mails

(***************************************************************************)
(* checkAndDelete(): the local targets in order, up to the first that       *)
(* throws.  statfs() throws for a directory that is gone; too little free   *)
(* space removes the directory and throws; that removal can itself fail     *)
(* half way.                                                                *)
(***************************************************************************)
CheckPasses ==
  /\ cfg.kind = "file" => \A i \in DOMAIN cfg.urls : cfg.urls[i] \in exists
  /\ UNCHANGED <<exists, content, deleted>>

CheckThrows ==
  /\ cfg.kind = "file"
  /\ \E i \in DOMAIN cfg.urls :
       LET d == cfg.urls[i] IN
       /\ \A j \in 1..(i - 1) : cfg.urls[j] \in exists
       /\ \/ /\ d \notin exists
             /\ UNCHANGED <<exists, content, deleted>>
          \/ /\ d \in exists
             /\ exists' = exists \ {d}
             /\ content' = Put({d} \X Names, "none")
             /\ deleted' = deleted \cup {d}
          \/ /\ d \in exists
             /\ \E gone \in SUBSET {n \in Names : content[d, n] # "none"} :
                  content' = Put({d} \X gone, "none")
             /\ UNCHANGED <<exists, deleted>>

NotifyFailureKeepingCode ==   \* altered: no setErrorCode(1)
  /\ pc = "caught"
  /\ Send("failed")
  /\ pc' = "caughtCheck"
  /\ UNCHANGED <<cfg, dump, exists, content, progress, errorCode, exitCode,
                 failed, silent, deleted>>

\* The catch block around saveDump().
NotifyFailure ==
  /\ pc = "caught"
  /\ errorCode' = 1
  /\ Send("failed")
  /\ pc' = "caughtCheck"
  /\ UNCHANGED <<cfg, dump, exists, content, progress, exitCode, failed,
                 silent, deleted>>

CheckAfterFailureGoingOn ==   \* altered: never rethrows
  /\ pc = "caughtCheck"
  /\ CheckPasses \/ CheckThrows
  /\ pc' = "notify"
  /\ UNCHANGED <<cfg, dump, progress, errorCode, exitCode, mails, failed,
                 silent>>

CheckAfterFailure ==
  /\ pc = "caughtCheck"
  /\ CheckPasses \/ CheckThrows
  /\ IF cfg.cont THEN pc' = "notify" /\ UNCHANGED exitCode
                 ELSE Exit(errorCode, TRUE)
  /\ UNCHANGED <<cfg, dump, progress, errorCode, mails, failed, silent>>

Notify ==
  /\ pc = "notify"
  /\ Send("copied")
  /\ pc' = "check"
  /\ UNCHANGED <<cfg, dump, exists, content, progress, errorCode, exitCode,
                 failed, silent, deleted>>

CheckAndDeleteQuietly ==   \* altered: the error is not recorded
  /\ pc = "check"
  /\ CheckPasses \/ CheckThrows
  /\ Proceed("perl")
  /\ UNCHANGED <<cfg, dump, progress, mails, silent>>

CheckAndDelete ==
  /\ pc = "check"
  /\ \/ CheckPasses /\ Proceed("perl")
     \/ CheckThrows /\ Raise("check", "perl")
  /\ UNCHANGED <<cfg, dump, progress, mails, silent>>

-----------------------------------------------------------------------------
\* copyMakedumpfile(): the Perl script may not be installed.
NeedsRearrange == ~usedDirectSave /\ useMakedumpfile

CopyMakedumpfile ==
  /\ pc = "perl"
  /\ \/ /\ ~NeedsRearrange
        /\ Proceed("info")
        /\ UNCHANGED <<content, silent>>
     \/ /\ NeedsRearrange
        /\ Raise("perl", "info")
        /\ UNCHANGED <<content, silent>>
     \/ NeedsRearrange /\ Try("perl", "makedumpfile-R.pl", "script", "info")
  /\ UNCHANGED <<cfg, dump, exists, progress, mails, deleted>>

GenerateRearrange ==
  /\ pc = "script"
  /\ Try("script", "rearrange.sh", "info", "info")
  /\ UNCHANGED <<cfg, dump, exists, progress, mails, deleted>>

\* getKernelReleaseCommandline(), then generateInfo().
GenerateInfo ==
  /\ pc = "info"
  /\ release' \in (IF release THEN {TRUE} ELSE BOOLEAN)
  /\ Try("info", "README.txt", "map", "map")
  /\ readme' = IF content'[cfg.urls[1], "README.txt"] = "none" THEN readme
               ELSE [flat  |-> useMakedumpfile /\ ~usedDirectSave,
                     parts |-> IF usedDirectSave THEN split ELSE 0]
  /\ UNCHANGED <<cfg, dump, exists, cmd, usedDirectSave, useMakedumpfile,
                 split, mails, deleted>>

\* copyKernel(): System.map and the kernel are both looked up first.
CopyMap ==
  /\ pc = "map"
  /\ \/ /\ ~(release /\ cfg.copyKernel)
        /\ Proceed("done")
        /\ UNCHANGED <<content, silent>>
     \/ /\ release /\ cfg.copyKernel
        /\ Raise("map", "done")
        /\ UNCHANGED <<content, silent>>
     \/ /\ release /\ cfg.copyKernel
        /\ Try("map", "System.map", "kernel", "done")
  /\ UNCHANGED <<cfg, dump, exists, progress, mails, deleted>>

CopyKernel ==
  /\ pc = "kernel"
  /\ Try("kernel", "kernel", "done", "done")
  /\ UNCHANGED <<cfg, dump, exists, progress, mails, deleted>>

Done == pc = "done" /\ UNCHANGED vars

Next ==
  \/ Start \/ StartFails
  \/ SaveDmesg \/ SkipVmcore \/ PrepareFails \/ SaveVmcore \/ FinishedTwice
  \/ NotifyFailure \/ CheckAfterFailure
  \/ Notify \/ CheckAndDelete
  \/ CopyMakedumpfile \/ GenerateRearrange
  \/ GenerateInfo
  \/ CopyMap \/ CopyKernel
  \/ Done

Spec == Init /\ [][Next]_vars

-----------------------------------------------------------------------------
Steps == {"start", "dump", "check", "perl", "script", "info", "map", "kernel"}

(***************************************************************************)
(* Every variable stays in its range; in particular a cut or flattened file *)
(* only ever appears where a transfer of that kind ran.                     *)
(***************************************************************************)
TypeOK ==
  /\ cfg \in Configs
  /\ pc \in {"start", "dmesg", "vmcore", "caught", "caughtCheck", "notify",
             "check", "perl", "script", "info", "map", "kernel", "done"}
  /\ dump \in {"missing", "empty", "good"}
  /\ exists \subseteq Dirs /\ deleted \subseteq Dirs
  /\ content \in [Dirs \X Names -> Contents]
  /\ \A x \in Dirs \X Names : FileLike => content[x] \notin Flattened
  /\ usedDirectSave \in BOOLEAN /\ useMakedumpfile \in BOOLEAN
  /\ release \in BOOLEAN
  /\ split \in 0..cfg.online
  /\ cmd.threads = 0 \/ cmd.threads \in 1..(cfg.online - 1)
  /\ errorCode \in {0, 1} /\ exitCode \in {-1, 0, 1, Signalled}
  /\ mails \in Seq({"failed", "copied"})
  /\ failed \subseteq Steps /\ silent \subseteq Steps

Terminated == pc = "done"
Failed     == exitCode # 0

\* Where a complete dump is, if the dump was saved.
TargetsUsed ==
  IF FileLike THEN {DumpTargets[i] : i \in DOMAIN DumpTargets}
              ELSE {DumpTargets[1]}
DumpWhole == \A t \in TargetsUsed : content[t] \in Whole

(***************************************************************************)
(* The exit status of kdumptool tells save_dump.sh whether anything went    *)
(* wrong (continue_error, save_dump.sh:89): it is zero exactly if no step   *)
(* raised an error, although errors are caught in six different places.     *)
(***************************************************************************)
ExitStatusTellsErrors == Terminated => (Failed <=> failed # {})

(***************************************************************************)
(* Exit status 0 and no unnoticed truncation mean that every part of the    *)
(* dump is whole in its directory, whichever of direct saving, piping,      *)
(* splitting and the final free-space check was taken.                      *)
(***************************************************************************)
SuccessMeansDump ==
  Terminated /\ ~Failed /\ "dump" \notin silent /\ cfg.format # "none"
    => DumpWhole

(***************************************************************************)
(* README.txt describes the dump it was saved with: unless saving failed,   *)
(* it tells of a flattened file exactly if the dump is one, and of as many  *)
(* parts as there are (the members that generateInfo() reads were set three *)
(* calls earlier, by the transfer).                                         *)
(***************************************************************************)
ReadmeDescribesDump ==
  readme # NoReadme /\ "dump" \notin failed \cup silent
    /\ cfg.format # "none" /\ deleted = {} /\ "check" \notin failed =>
    /\ readme.flat <=> \A t \in TargetsUsed : content[t] \in Flattened
    /\ FileLike => readme.parts =
         Cardinality({x \in Dirs \X Parts : content[x] \in Whole})

(***************************************************************************)
(* A "Dump has been copied" mail without KDUMP_CONTINUE_ON_ERROR: the dump  *)
(* is whole at that moment, and no failure mail was sent before.            *)
(***************************************************************************)
CopiedMailIsTrue ==
  [][Len(mails') > Len(mails) /\ mails'[Len(mails')] = "copied"
       /\ ~cfg.cont /\ cfg.format # "none" =>
       /\ Len(mails) = 0
       /\ DumpWhole \/ "dump" \in silent]_vars

-----------------------------------------------------------------------------
\* What the documentation and messages say, and the code does not do.

(***************************************************************************)
(* The same sentence, for a transfer that reported success: the copied dump *)
(* is there.                                                                *)
(***************************************************************************)
ReportedDumpIsWhole ==
  Terminated /\ ~Failed /\ cfg.format # "none" => DumpWhole
=============================================================================
