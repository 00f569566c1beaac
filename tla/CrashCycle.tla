----------------------------- MODULE CrashCycle -----------------------------
(***************************************************************************)
(* The machine over several crashes: each crash boots the kdump environment *)
(* where src/init/save_dump.sh runs the prescript, kdumptool delete_dumps,  *)
(* kdumptool save_dump and the postscript, and the machine comes back up.   *)
(* The dump directories survive; the machine can lose power at any time.    *)
(*                                                                         *)
(* delete_dumps is the module DeleteDumps, step by step.  save_dump is      *)
(* reduced to what it does to the dump directories (module SaveDump has the *)
(* details): create them, write dmesg, write the dump, check the space.     *)
(***************************************************************************)
EXTENDS DeleteDumps

CONSTANTS
  Settings,    \* what /etc/sysconfig/kdump and the system may say
  ClockMoves,  \* by how many minutes the clock may have moved on between
               \* two crashes, e.g. {0, 1}
  MaxCrashes   \* bound on the number of crashes

(***************************************************************************)
(* continue: the text of KDUMP_CONTINUE_ON_ERROR; reboot: whether           *)
(* KDUMP_IMMEDIATE_REBOOT is "yes"; custom: KDUMP_TRANSFER is set; split:   *)
(* dumps are split, their files are vmcore1, vmcore2, ...; sourced: dracut  *)
(* sources the script (pre-pivot hook), otherwise systemd executes it       *)
(* (kdump-save.service).                                                    *)
(***************************************************************************)
ASSUME SettingsAssumption ==
  \A s \in Settings : /\ DOMAIN s = {"continue", "reboot", "custom", "split", "sourced"}
                      /\ {s.reboot, s.custom, s.split, s.sourced} \subseteq BOOLEAN
ASSUME CycleAssumption == ClockMoves \subseteq Nat /\ MaxCrashes \in Nat

VARIABLES
  set,      \* the settings; they stay the same from crash to crash
  script,   \* the step of save_dump.sh that comes next; "up" = normal system
  resume,   \* while script = "shell": the step that follows the shell
  now,      \* CRASHTIME of the current crash, in minutes
  made,     \* number of save directories save_dump has created
  crashes,  \* number of crashes so far
  saved,    \* history: stamps under which save_dump succeeded, one per crash
  trouble,  \* history: some step failed, was interrupted or gave space back
  shellLeft \* history: the error shell was left with "exit" in this cycle

svars == <<set, script, resume, now, made, crashes, saved, trouble, shellLeft>>
vars  == <<ddvars, svars>>

\* continue_error() compares the text.
ScriptContinues == set.continue \in {"true", "TRUE"}

Mine(d) == <<d, now>>

-----------------------------------------------------------------------------
Init ==
  /\ DDInit
  /\ set \in Settings
  /\ script = "up" /\ resume = "up"
  /\ now = 0 /\ made = 0 /\ crashes = 0
  /\ saved = <<>>
  /\ trouble = FALSE /\ shellLeft = FALSE

\* The kernel panics; the stamp has a resolution of one minute.
Panic ==
  /\ script = "up"
  /\ crashes < MaxCrashes
  /\ crashes' = crashes + 1
  /\ \E m \in ClockMoves : now + m \in Stamps /\ now' = now + m
  /\ script' \in {"prescript"} \cup (IF set.custom THEN {"transfer"} ELSE {})
  /\ made' = 0
  /\ shellLeft' = FALSE
  /\ UNCHANGED <<set, ddvars, resume, saved, trouble>>

(***************************************************************************)
(* "if ! continue_error $?; then return; fi".  A return at the top level of *)
(* a script that is executed, not sourced, is an error message and nothing  *)
(* else: the script goes on with the next command.                          *)
(***************************************************************************)
ContinueErrorAlwaysShell(ok, next) ==   \* altered: the option is not read
  /\ IF ok THEN script' = next /\ UNCHANGED resume
           ELSE script' = "shell" /\ resume' = IF set.sourced THEN "up" ELSE next
  /\ trouble' = (trouble \/ ~ok)

ContinueError(ok, next) ==
  /\ IF ok \/ ScriptContinues
     THEN script' = next /\ UNCHANGED resume
     ELSE script' = "shell" /\ resume' = IF set.sourced THEN "up" ELSE next
  /\ trouble' = (trouble \/ ~ok)

Prescript ==
  /\ script = "prescript"
  /\ \E ok \in BOOLEAN : ContinueError(ok, "delete")
  /\ UNCHANGED <<set, ddvars, now, made, crashes, saved, shellLeft>>

DeleteSkipped ==   \* altered: old dumps are not deleted first
  /\ script = "delete"
  /\ script' = "save"
  /\ UNCHANGED <<set, ddvars, resume, now, made, crashes, saved, trouble, shellLeft>>

\* kdumptool delete_dumps: started, working, and its exit status.
DeleteStart ==
  /\ script = "delete"
  /\ Execute
  /\ script' = "deleting"
  /\ UNCHANGED <<set, resume, now, made, crashes, saved, trouble, shellLeft>>

DeleteWork ==
  /\ script = "deleting"
  /\ DDStep
  /\ UNCHANGED svars

DeleteEndEarly ==   \* altered: the script does not wait for delete_dumps
  /\ script = "deleting"
  /\ ContinueError(phase # "failed", "save")
  /\ UNCHANGED <<set, ddvars, now, made, crashes, saved, shellLeft>>

DeleteEnd ==
  /\ script = "deleting"
  /\ ~Running
  /\ ContinueError(phase = "ok", "save")
  /\ UNCHANGED <<set, ddvars, now, made, crashes, saved, shellLeft>>

-----------------------------------------------------------------------------
(***************************************************************************)
(* kdumptool save_dump.  SaveMkdir is the constructor of FileTransfer and   *)
(* dmesg.txt, which goes to the first directory.                            *)
(***************************************************************************)
Put(d, kinds) ==
  /\ dirs' = dirs \cup {Mine(d)}
  /\ files' = files \cup ({d} \X {now} \X kinds)
  /\ phase' = "idle"
  /\ UNCHANGED <<at, todo>>

SaveMkdir ==
  /\ script = "save"
  /\ made < Len(SaveDirs)
  /\ made' = made + 1
  /\ \E kinds \in {{}, IF made' = 1 THEN {"other"} ELSE {}} :
       Put(SaveDirs[made'], kinds)
  /\ UNCHANGED <<set, script, resume, now, crashes, saved, trouble, shellLeft>>

\* The dump itself: "vmcore" in the first directory, or its parts, which go
\* to all directories in turn (the first one stands for them here).
DumpKind == IF set.split THEN "other" ELSE "vmcore"

SaveWrite ==
  /\ script = "save"
  /\ SaveDirs # <<>>   \* getTransfer(): "No target specified!"
  /\ made = Len(SaveDirs)
  /\ Put(SaveDirs[1], {DumpKind})
  /\ script' = "check"
  /\ UNCHANGED <<set, resume, now, made, crashes, saved, trouble, shellLeft>>

\* An error before, during or after writing.
SaveFails ==
  /\ script \in {"save", "check"}
  /\ UNCHANGED ddvars
  /\ ContinueError(FALSE, "postscript")
  /\ UNCHANGED <<set, now, made, crashes, saved, shellLeft>>

SaveSucceeds ==
  /\ script = "check"
  /\ UNCHANGED ddvars
  /\ saved' = Append(saved, now)
  /\ ContinueError(TRUE, "postscript")
  /\ UNCHANGED <<set, now, made, crashes, shellLeft>>

\* Too little space is left, after success or after failure: the first such
\* directory is removed again, file by file. Nobody else looks at it meanwhile;
\* an error or a power loss leaves the directory and the files not yet removed.
SaveGivesBack ==
  /\ script \in {"save", "check"} /\ made = Len(SaveDirs)
  /\ \E d \in LocalDirs \cap AllDirs :
       /\ Mine(d) \in dirs
       /\ \/ /\ dirs' = dirs \ {Mine(d)}
             /\ files' = files \ FilesOf(d, now)
          \/ /\ UNCHANGED dirs
             /\ \E gone \in SUBSET FilesOf(d, now) : files' = files \ gone
  /\ phase' = "idle"
  /\ ContinueError(FALSE, "postscript")
  /\ UNCHANGED <<set, at, todo, now, made, crashes, saved, shellLeft>>

-----------------------------------------------------------------------------
Postscript ==
  /\ script = "postscript"
  /\ \E ok \in BOOLEAN : ContinueError(ok, "exit")
  /\ UNCHANGED <<set, ddvars, now, made, crashes, saved, shellLeft>>

\* KDUMP_TRANSFER replaces everything; its exit status is not looked at.
RunTransfer ==
  /\ script = "transfer"
  /\ script' = "exit"
  /\ UNCHANGED <<set, ddvars, resume, now, made, crashes, saved, trouble, shellLeft>>

\* handle_exit(): reboot, or a shell and then the normal system.
HandleExit ==
  /\ script = "exit"
  /\ script' = IF set.reboot THEN "up" ELSE "shell"
  /\ resume' = "up"
  /\ UNCHANGED <<set, ddvars, now, made, crashes, saved, trouble, shellLeft>>

\* The operator types "exit" in the error shell, or "reboot -f".
LeaveShell ==
  /\ script = "shell"
  /\ script' = resume
  /\ shellLeft' = TRUE
  /\ UNCHANGED <<set, ddvars, resume, now, made, crashes, saved, trouble>>

Reboot ==
  /\ script = "shell"
  /\ script' = "up"
  /\ UNCHANGED <<set, ddvars, resume, now, made, crashes, saved, trouble, shellLeft>>

PowerLoss ==
  /\ script # "up"
  /\ script' = "up"
  /\ trouble' = TRUE
  /\ IF Running THEN Killed ELSE UNCHANGED ddvars
  /\ UNCHANGED <<set, resume, now, made, crashes, saved, shellLeft>>

-----------------------------------------------------------------------------
ScriptStep ==
  \/ Prescript
  \/ DeleteStart \/ DeleteWork \/ DeleteEnd
  \/ SaveMkdir \/ SaveWrite \/ SaveFails \/ SaveSucceeds \/ SaveGivesBack
  \/ Postscript
  \/ RunTransfer
  \/ HandleExit

Next == Panic \/ ScriptStep \/ LeaveShell \/ Reboot \/ PowerLoss

Spec == Init /\ [][Next]_vars

\* The script's own steps do not wait for anybody; the shell does.
FairSpec == Spec /\ WF_vars(ScriptStep)

-----------------------------------------------------------------------------
\* The variables stay in their ranges.
TypeOK ==
  /\ DDTypeOK
  /\ set \in Settings
  /\ script \in {"up", "transfer", "prescript", "delete", "deleting", "save",
                 "check", "postscript", "exit", "shell"}
  /\ resume \in {"up", "delete", "save", "postscript", "exit"}
  /\ now \in Stamps \cup {0}
  /\ made \in 0..Len(SaveDirs)
  /\ crashes \in 0..MaxCrashes
  /\ Len(saved) <= crashes
  /\ \A i \in DOMAIN saved : saved[i] \in Stamps
  /\ trouble \in BOOLEAN /\ shellLeft \in BOOLEAN

(***************************************************************************)
(* save_dump.sh drives delete_dumps as that program's own specification     *)
(* allows: nothing writes to the save directories while it deletes, and it  *)
(* is not started twice.                                                    *)
(***************************************************************************)
DeleteDumpsSpec == DDSpec

(***************************************************************************)
(* "So if you specify 3 here, then after the dump has been saved, 4 dumps   *)
(* are on disk" (kdump.5:306): as long as nothing failed, never more than   *)
(* KDUMP_KEEP_OLD_DUMPS + 1 directories with a vmcore exist.                *)
(***************************************************************************)
RetentionBound ==
  ~trouble /\ Keep # 0 =>
    \A d \in AllDirs \cap LocalDirs : Cardinality(Listed(d)) <= KeepCount + 1

(***************************************************************************)
(* The machine comes back: with KDUMP_CONTINUE_ON_ERROR "true" and          *)
(* KDUMP_IMMEDIATE_REBOOT "yes" no failing step leaves it waiting for an    *)
(* operator.                                                                *)
(***************************************************************************)
ComesBack ==
  ScriptContinues /\ set.reboot /\ script # "up" ~> script = "up"

-----------------------------------------------------------------------------
\* What the documentation and messages say, and the code does not do.

(***************************************************************************)
(* kdump.5:306 again, for every dump directory: dumps that were split have  *)
(* no file called "vmcore" and are never deleted.                           *)
(***************************************************************************)
DumpDirsBounded ==
  ~trouble /\ Keep # 0 =>
    \A d \in AllDirs \cap LocalDirs :
      Cardinality({t \in Stamps : <<d, t>> \in dirs}) <= KeepCount + 1

=============================================================================
