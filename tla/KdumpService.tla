---------------------------- MODULE KdumpService ----------------------------
(***************************************************************************)
(* Loading the panic kernel in the normal system: kdump.service and         *)
(* kdump-early.service run load.sh and unload.sh, and udev runs             *)
(* load-once.sh (module LoadOnce) for the hotplug events that its rule       *)
(* matches, if the rule is installed and a panic kernel is loaded.  The ELF core        *)
(* headers of the loaded image describe the hardware as kexec found it, so  *)
(* they go stale with the next event.  The services do not take the lock    *)
(* of load-once.sh.                                                         *)
(***************************************************************************)
EXTENDS LoadOnce

CONSTANTS
  Units,    \* systemd units in use, of {"kdump-early", "kdump"}
  Booting,  \* FALSE: start with the panic kernel loaded, initrd built
  MaxHw,    \* bound on the number of hotplug events
  MaxStarts \* bound on the number of times each unit is started

ASSUME ServiceAssumption ==
  /\ Units \subseteq {"kdump-early", "kdump"} /\ Units \cap Procs = {}
  /\ Booting \in BOOLEAN /\ MaxHw \in Nat /\ MaxStarts \in Nat

Loaders == Procs \cup Units    \* everything that runs load.sh

VARIABLES
  hw,       \* version of the hardware: number of hotplug events so far
  uevents,  \* events udev has not looked at yet
  image,    \* the panic kernel: [hw, by], what it describes and who loaded it
  rule,     \* 70-kdump.rules is in /run/udev/rules.d
  initrd,   \* the kdump initrd: "none", "old" (older than its inputs) or "new"
  load,     \* load[l]: the step of load.sh that loader l executes next
  snap,     \* snap[l]: the hardware as l's kexec saw it
  unit,     \* unit[u]: state of the systemd unit u
  starts,   \* starts[u]: how often u was started
  skipped,  \* history: the udev rule ignored an event
  broken,   \* history: a load.sh failed, or a service's ran beside another one
  once      \* history: the newest image that load-once.sh has loaded

kvars == <<hw, uevents, image, rule, initrd, load, snap, unit, starts, skipped,
           broken, once>>
vars  == <<lvars, kvars>>

NoImage == [hw |-> 0, by |-> None]
Loaded  == image # NoImage     \* /sys/kernel/kexec_crash_loaded

Init ==
  /\ LInit
  /\ hw = 1 /\ uevents = 0
  /\ image = IF Booting THEN NoImage ELSE [hw |-> 1, by |-> "boot"]
  /\ rule = ~Booting
  /\ initrd \in (IF Booting THEN {"none", "old", "new"} ELSE {"old", "new"})
  /\ load = [l \in Loaders |-> "ended"]
  /\ snap = [l \in Loaders |-> 0]
  /\ unit = [u \in Units |-> IF Booting THEN "inactive" ELSE "active"]
  /\ starts = [u \in Units |-> 0]
  /\ skipped = FALSE /\ broken = FALSE /\ once = 0

-----------------------------------------------------------------------------
\* Memory or a CPU comes or goes; the kernel queues an event for udev.
Hotplug ==
  /\ hw <= MaxHw
  /\ hw' = hw + 1
  /\ uevents' = uevents + 1
  /\ UNCHANGED <<lvars, image, rule, initrd, load, snap, unit, starts, skipped,
                 broken, once>>

\* udev applies the rule: "Reload only if panic kernel is already loaded". Some
\* events pass it by in any case: it matches memory that is added or removed, and
\* CPUs that come online on POWER, so on other machines no CPU at all.
Udev ==
  /\ uevents > 0
  /\ uevents' = uevents - 1
  /\ \/ rule /\ Loaded /\ (\E p \in Procs : Invoke(p)) /\ UNCHANGED skipped
     \/ skipped' = TRUE /\ UNCHANGED lvars
  /\ UNCHANGED <<hw, image, rule, initrd, load, snap, unit, starts, broken, once>>

\* The steps of load-once.sh; the lock holder waits for load.sh.
OnceStep(p) ==
  /\ \/ AppendJob(p) \/ Flock(p) \/ FlockBusy(p)
     \/ TestPending(p) \/ TestEmpty(p)
     \/ Truncate(p) \/ TruncateFails(p) \/ Unlock(p)
     \/ load[p] = "ended" /\ LoadEnd(p)
  /\ UNCHANGED kvars

RunLoad(l) == load' = [load EXCEPT ![l] = "find"]

\* Somebody else's load.sh is running, and a service is involved.
Beside(l) ==
  \E m \in Loaders \ {l} : load[m] # "ended" /\ (l \in Units \/ m \in Units)

OnceLoads(p) ==
  /\ LoadBegin(p)
  /\ RunLoad(p)
  /\ broken' = (broken \/ Beside(p))
  /\ UNCHANGED <<hw, uevents, image, rule, initrd, snap, unit, starts, skipped, once>>

-----------------------------------------------------------------------------
(***************************************************************************)
(* load.sh, run by l.  Only kdump.service passes --update.                  *)
(***************************************************************************)
LoadFailed(l, status) ==
  /\ load' = [load EXCEPT ![l] = "ended"]
  /\ broken' = TRUE
  /\ IF l \in Units   \* SuccessExitStatus=6
     THEN unit' = [unit EXCEPT ![l] =
            IF status = 6 /\ l = "kdump-early" THEN "active" ELSE "failed"]
     ELSE UNCHANGED unit
  /\ UNCHANGED <<rule, initrd, snap, once>>

LoadGoes(l, from, to) ==
  /\ load[l] = from
  /\ load' = [load EXCEPT ![l] = to]
  /\ UNCHANGED <<unit, broken>>

FindKernel(l) ==
  /\ \/ LoadGoes(l, "find", IF l = "kdump" THEN "rebuild" ELSE "check")
        /\ UNCHANGED <<rule, initrd, snap, once>>
     \/ load[l] = "find" /\ LoadFailed(l, 6)
  /\ UNCHANGED <<lvars, hw, uevents, image, starts, skipped>>

\* mkdumprd builds the initrd if it is missing or older than its inputs.
RebuildKdumprd(l) ==
  /\ \/ LoadGoes(l, "rebuild", "check") /\ initrd' = "new"
        /\ UNCHANGED <<rule, snap, once>>
     \/ load[l] = "rebuild" /\ initrd # "new" /\ LoadFailed(l, 1)
  /\ UNCHANGED <<lvars, hw, uevents, image, starts, skipped>>

\* load_kdump_kexec() takes any initrd that exists.
CheckInitrd(l) ==
  /\ \/ initrd # "none" /\ LoadGoes(l, "check", "kexec_file_load")
        /\ UNCHANGED <<rule, initrd, snap, once>>
     \/ initrd = "none" /\ load[l] = "check" /\ LoadFailed(l, 6)
  /\ UNCHANGED <<lvars, hw, uevents, image, starts, skipped>>

Calls == {"kexec_file_load", "kexec_load"}

\* kexec, or the kernel for it, looks at the memory map and the CPUs ...
KexecReads(l) ==
  /\ load[l] \in Calls
  /\ snap[l] = 0
  /\ snap' = [snap EXCEPT ![l] = hw]
  /\ UNCHANGED <<lvars, hw, uevents, image, rule, initrd, load, unit, starts,
                 skipped, broken, once>>

\* ... and later replaces the panic kernel ...
KexecInstalls(l) ==
  /\ load[l] \in Calls /\ snap[l] # 0
  /\ LoadGoes(l, load[l], "rule")
  /\ image' = [hw |-> snap[l], by |-> l]
  /\ once' = IF l \in Procs THEN snap[l] ELSE once
  /\ snap' = [snap EXCEPT ![l] = 0]
  /\ UNCHANGED <<lvars, hw, uevents, rule, initrd, starts, skipped>>

\* ... or fails, and may have dropped the old one already.  load.sh tries
\* kexec_file_load(2) first and kexec_load(2) after it.
KexecFails(l) ==
  /\ load[l] \in Calls /\ snap[l] # 0
  /\ image' \in {image, NoImage}
  /\ IF load[l] = "kexec_file_load"
     THEN /\ LoadGoes(l, "kexec_file_load", "kexec_load")
          /\ snap' = [snap EXCEPT ![l] = 0]
          /\ UNCHANGED <<rule, initrd, once>>
     ELSE /\ load' = [load EXCEPT ![l] = "ended"]
          /\ snap' = [snap EXCEPT ![l] = 0]
          /\ unit' = IF l \in Units THEN [unit EXCEPT ![l] = "failed"] ELSE unit
          /\ broken' = TRUE
          /\ UNCHANGED <<rule, initrd, once>>
  /\ UNCHANGED <<lvars, hw, uevents, starts, skipped>>

\* panic_on_oops and the udev rule.
InstallRule(l) ==
  /\ load[l] = "rule"
  /\ load' = [load EXCEPT ![l] = "ended"]
  /\ rule' = TRUE
  /\ unit' = IF l \in Units THEN [unit EXCEPT ![l] = "active"] ELSE unit
  /\ UNCHANGED <<lvars, hw, uevents, image, initrd, snap, starts, skipped,
                 broken, once>>

LoadStep(l) ==
  \/ FindKernel(l) \/ RebuildKdumprd(l) \/ CheckInitrd(l)
  \/ KexecReads(l) \/ KexecInstalls(l) \/ KexecFails(l)
  \/ InstallRule(l)

-----------------------------------------------------------------------------
\* systemd: start and stop of a unit do not overlap.
StartUnit(u) ==
  /\ unit[u] \in {"inactive", "failed"}
  /\ starts[u] < MaxStarts
  /\ unit' = [unit EXCEPT ![u] = "starting"]
  /\ starts' = [starts EXCEPT ![u] = @ + 1]
  /\ RunLoad(u)
  /\ broken' = (broken \/ Beside(u))
  /\ UNCHANGED <<lvars, hw, uevents, image, rule, initrd, snap, skipped, once>>

\* unload.sh: kexec -p -u ...
Unload(u) ==
  /\ unit[u] = "active"
  /\ \/ image' = NoImage /\ unit' = [unit EXCEPT ![u] = "stopping"]
     \/ UNCHANGED image /\ unit' = [unit EXCEPT ![u] = "failed"]
  /\ UNCHANGED <<lvars, hw, uevents, rule, initrd, load, snap, starts, skipped,
                 broken, once>>

\* ... and then the rule goes.
RemoveRule(u) ==
  /\ unit[u] = "stopping"
  /\ unit' = [unit EXCEPT ![u] = "inactive"]
  /\ rule' = FALSE
  /\ UNCHANGED <<lvars, hw, uevents, image, initrd, load, snap, starts, skipped,
                 broken, once>>

Next ==
  \/ Hotplug \/ Udev
  \/ \E p \in Procs : OnceStep(p) \/ OnceLoads(p)
  \/ \E l \in Loaders : LoadStep(l)
  \/ \E u \in Units : StartUnit(u) \/ Unload(u) \/ RemoveRule(u)

Spec == Init /\ [][Next]_vars

\* Processes run until they end; udev works off its events.
FairSpec ==
  /\ Spec
  /\ WF_vars(Udev)
  /\ \A p \in Procs : WF_vars(OnceStep(p) \/ OnceLoads(p))
  /\ \A l \in Loaders : WF_vars(LoadStep(l))

-----------------------------------------------------------------------------
\* The variables stay in their ranges; only lock holders load.
TypeOK ==
  /\ LTypeOK
  /\ hw \in 1..(MaxHw + 1) /\ uevents \in 0..MaxHw
  /\ image \in {NoImage} \cup [hw : 1..hw, by : Loaders \cup {"boot"}]
  /\ {rule, skipped, broken} \subseteq BOOLEAN /\ initrd \in {"none", "old", "new"}
  /\ load \in [Loaders -> {"ended", "find", "rebuild", "check", "rule"} \cup Calls]
  /\ snap \in [Loaders -> 0..hw]
  /\ unit \in [Units -> {"inactive", "starting", "active", "stopping", "failed"}]
  /\ starts \in [Units -> 0..MaxStarts]
  /\ once \in 0..hw
  /\ \A p \in Procs : load[p] # "ended" => pc[p] = "loading"

(***************************************************************************)
(* When everything is at rest and the loaded image is stale, one of these   *)
(* happened: the udev rule ignored an event, a load failed or ran beside    *)
(* one that a service started, truncate failed, or a job was left in the    *)
(* jobs file by the last lock holder.  There is no other way to lose an     *)
(* event between udev, the jobs file, the lock and load.sh.                 *)
(***************************************************************************)
AtRest ==
  /\ uevents = 0
  /\ \A p \in Procs : pc[p] \in {"new", "done"}
  /\ \A l \in Loaders : load[l] = "ended"

StaleHasCause ==
  AtRest /\ Loaded /\ image.hw < hw =>
    skipped \/ broken \/ ioError \/ jobs # {}

-----------------------------------------------------------------------------
(***************************************************************************)
(* "Kdump core headers needs to be regnerated if the CPUs or memory         *)
(* changes. For this, reload kdump." (70-kdump.rules.in:7): when everything *)
(* is at rest, udev has ignored no event and nothing failed, a loaded image *)
(* is not stale.                                                            *)
(***************************************************************************)
ImageIsFresh ==
  AtRest /\ Loaded /\ ~skipped /\ ~broken /\ ~ioError => image.hw = hw
=============================================================================
