---------------------------- MODULE PanicKernel ----------------------------
(***************************************************************************)
(* Which kernel load.sh takes for the panic kernel, and with which initrd. *)
(* "kdumptool find_kernel" searches /boot, mkdumprd rebuilds the initrd if  *)
(* it is missing or not newer than what it is made of, and kexec loads the  *)
(* two. Meanwhile packages come and go and the configuration is edited.     *)
(*                                                                         *)
(* A version is the sequence of its parts between dashes; <<>> is that of   *)
(* /boot/vmlinuz, and a last part that ends in "kdump" is written "kdump".   *)
(* Modification times are ticks of a clock, and 0 is the time at which a    *)
(* package was built. The machine is an x86 one, without FADUMP.            *)
(***************************************************************************)
EXTENDS Integers, Sequences

CONSTANTS
  Running,     \* uname -r
  Versions,    \* versions in the names of the files in /boot
  Boots,       \* what may be in /boot at first
  Installs,    \* images that are installed later
  Wanted,      \* values that KDUMP_KERNELVER may get
  NotSet,      \* KDUMP_KERNELVER is empty
  NoFile,      \* there is no such file
  MaxChanges,  \* bound on the number of changes to packages and configuration
  MaxLoads     \* bound on the number of times load.sh is run

\* Of an image, what find_kernel learns of it: which kernel getKernelType()
\* takes it for, and what the later tests say.
Slots  == {"vmlinuz", "vmlinux"} \X Versions
Images == [type : {"x86", "elf", "none"}, reloc : BOOLEAN, config : BOOLEAN,
           xen : BOOLEAN, weak : BOOLEAN, release : Versions]
Files  == [image : Images, mtime : Nat]

ASSUME PanicKernelAssumption ==
  /\ Versions \subseteq Seq(STRING)
  /\ Running \in Versions \ {<<>>} /\ NotSet \notin Versions
  /\ Boots \subseteq [Slots -> Files \cup {NoFile}]
  /\ Installs \subseteq Images /\ Wanted \subseteq (Versions \ {<<>>}) \cup {NotSet}
  /\ MaxChanges \in Nat /\ MaxLoads \in Nat

\* Only vmlinuz and vmlinuz-kdump may hold any release.
AnyRelease == {<<>>, <<"kdump">>}
FitsSlot(i, s) == s[2] \in AnyRelease \/ i.release = s[2]

\* No file is newer than the clock, which begins with 1.
ASSUME BootsAssumption ==
  \A b \in Boots : \A s \in Slots :
    b[s] # NoFile => FitsSlot(b[s].image, s) /\ b[s].mtime <= 1

VARIABLES
  boot,      \* boot[s]: the kernel image s
  initrds,   \* initrds[v]: /boot/initrd-v, what it was made for and from
  wanted,    \* KDUMP_KERNELVER
  conf,      \* the rest of the configuration: [edit, mtime]
  clock,     \* modification time of the newest file
  step,      \* the step of load.sh that comes next
  update,    \* load.sh was called with --update
  slot,      \* the kernel that find_kernel chose
  making,    \* what the dracut that is running began with
  loaded,    \* the panic kernel in memory and its initrd, or NoFile
  loads,     \* runs of load.sh so far
  changes,   \* changes so far
  began,     \* history: the changes when load.sh began
  settled    \* history: kernel and changes of the last dracut, if undisturbed

disk == <<boot, initrds, wanted, conf, clock>>
vars == <<disk, step, update, slot, making, loaded, loads, changes, began, settled>>

KdumpNamed(v) == v # <<>> /\ v[Len(v)] = "kdump"
Flavour(v, f) == [v EXCEPT ![Len(v)] = f]

\* KernelPath::initrdPath(): never the initrd of the normal system.
InitrdPath(v) == IF KdumpNamed(v) THEN v ELSE Append(v, "kdump")

InitrdNames == {InitrdPath(v) : v \in Versions}

InitrdFiles == [release : Versions, edit : Nat, mtime : Nat, undisturbed : BOOLEAN]
Makings == [release : Versions, edit : Nat, at : Nat]
Loadeds == [slot : Slots, release : Versions, initrd : InitrdFiles]

ASSUME NoFileAssumption ==
  NoFile \notin Files \cup Slots \cup InitrdFiles \cup Makings \cup (Slots \X Nat)

Init ==
  /\ boot \in Boots
  /\ initrds = [v \in InitrdNames |-> NoFile]
  /\ wanted \in Wanted
  /\ conf = [edit |-> 0, mtime |-> 1]
  /\ clock = 1 /\ step = "idle" /\ update = FALSE /\ slot = NoFile
  /\ making = NoFile /\ loaded = NoFile /\ loads = 0 /\ changes = 0
  /\ began = 0 /\ settled = NoFile

-----------------------------------------------------------------------------
(* find_kernel.                                                            *)

\* The first image name that exists: vmlinuz hides vmlinux.
FindForVersion(v) ==
  IF boot[<<"vmlinuz", v>>] # NoFile THEN <<"vmlinuz", v>>
  ELSE IF boot[<<"vmlinux", v>>] # NoFile THEN <<"vmlinux", v>>
  ELSE NoFile

\* The boot sector tells of a bzImage, the configuration of an ELF image.
Relocatable(i) == i.reloc /\ (i.type = "elf" => i.config)

SuitableLenient(s, strict) ==   \* altered: the strict tries are not strict
  LET i == boot[s].image IN
  IF ~KdumpNamed(s[2]) /\ i.type = "none" THEN "throw"
  ELSE IF ~KdumpNamed(s[2]) /\ ~Relocatable(i) THEN "no"
  ELSE IF ~i.config THEN "throw"
  ELSE IF i.xen THEN "no"
  ELSE "yes"

\* suitableForKdump(): "throw" if the image, or its configuration, which is
\* read from /boot or extracted from the image, cannot be read.
Suitable(s, strict) ==
  LET i == boot[s].image IN
  IF ~KdumpNamed(s[2]) /\ i.type = "none" THEN "throw"
  ELSE IF ~KdumpNamed(s[2]) /\ ~Relocatable(i) THEN "no"
  ELSE IF ~i.config THEN "throw"
  ELSE IF i.xen \/ (strict /\ i.weak) THEN "no"
  ELSE "yes"

\* The tries of findKernelAuto(), strict ones first. The seventh is missing in
\* the list of kdump.5.txt.in:101-109.
Try(v, s) == [version |-> v, strict |-> s]
Tries ==
  <<Try(Flavour(Running, "kdump"), TRUE), Try(<<"kdump">>, TRUE),
    Try(Running, TRUE), Try(Flavour(Running, "default"), TRUE), Try(<<>>, TRUE),
    Try(Running, FALSE), Try(Flavour(Running, "default"), FALSE), Try(<<>>, FALSE)>>

ASSUME TriesAssumption == \A n \in DOMAIN Tries : Tries[n].version \in Versions

Verdict(t) ==
  LET s == FindForVersion(t.version) IN
  IF s = NoFile THEN "no" ELSE Suitable(s, t.strict)

\* The first try that does not say no: the image, or the exception, of it.
FindKernelAuto ==
  LET Hits == {n \in DOMAIN Tries : Verdict(Tries[n]) # "no"}
      First == CHOOSE n \in Hits : \A m \in Hits : n <= m IN
  IF Hits = {} \/ Verdict(Tries[First]) = "throw"
    THEN NoFile ELSE FindForVersion(Tries[First].version)

GetPaths ==
  IF wanted = NotSet THEN FindKernelAuto
  ELSE IF Verdict(Try(wanted, FALSE)) = "yes" THEN FindForVersion(wanted) ELSE NoFile

-----------------------------------------------------------------------------
(* load.sh and mkdumprd.                                                   *)

\* kdump-early.service and load-once.sh call it without --update.
Load(up) ==
  /\ step = "idle" /\ loads < MaxLoads
  /\ step' = "find" /\ update' = up /\ loads' = loads + 1
  /\ began' = changes
  /\ UNCHANGED <<disk, slot, making, loaded, changes, settled>>

\* load.sh exits.
End ==
  /\ step' = "idle" /\ slot' = NoFile /\ making' = NoFile
  /\ UNCHANGED <<update, loads, changes, began>>

GoTo(s) == step' = s /\ UNCHANGED <<update, loads, changes, began>>

FindKernel ==
  /\ step = "find"
  /\ \/ GetPaths = NoFile /\ End
     \/ /\ GetPaths # NoFile
        /\ slot' = GetPaths
        /\ GoTo(IF update THEN "mkdumprd" ELSE "kexec")
        /\ UNCHANGED making
  /\ UNCHANGED <<disk, loaded, settled>>

Initrd == InitrdPath(slot[2])

NotRegeneratingOld ==   \* altered: the configuration is not looked at
  /\ initrds[Initrd] # NoFile
  /\ boot[slot].mtime < initrds[Initrd].mtime

\* What it is made of is older than the initrd.
NotRegenerating ==
  /\ initrds[Initrd] # NoFile
  /\ conf.mtime < initrds[Initrd].mtime
  /\ boot[slot].mtime < initrds[Initrd].mtime

\* The version that dracut collects modules for is read from the image.
Mkdumprd ==
  /\ step = "mkdumprd"
  /\ \/ boot[slot] = NoFile /\ End
     \/ boot[slot] # NoFile /\ NotRegenerating /\ GoTo("kexec") /\ UNCHANGED <<slot, making>>
     \/ /\ boot[slot] # NoFile /\ ~NotRegenerating
        /\ making' = [release |-> boot[slot].image.release, edit |-> conf.edit, at |-> changes]
        /\ GoTo("dracut") /\ UNCHANGED slot
  /\ UNCHANGED <<disk, loaded, settled>>

DracutDated ==   \* altered: the initrd is dated when the configuration was
  /\ step = "dracut"
  /\ \E e \in making.edit..conf.edit :
       initrds' = [initrds EXCEPT ![Initrd] =
         [release |-> making.release, edit |-> e, mtime |-> conf.mtime,
          undisturbed |-> changes = making.at]]
  /\ settled' = IF changes = making.at THEN <<slot, changes>> ELSE NoFile
  /\ GoTo("kexec")
  /\ UNCHANGED <<boot, wanted, conf, clock, slot, making, loaded>>

\* The configuration that it copies is the one of some moment of its run.
\* undisturbed: nothing changed while the initrd was built.
Dracut ==
  /\ step = "dracut"
  /\ clock' = clock + 1
  /\ \E e \in making.edit..conf.edit :
       initrds' = [initrds EXCEPT ![Initrd] =
         [release |-> making.release, edit |-> e, mtime |-> clock',
          undisturbed |-> changes = making.at]]
  /\ settled' = IF changes = making.at THEN <<slot, changes>> ELSE NoFile
  /\ GoTo("kexec")
  /\ UNCHANGED <<boot, wanted, conf, slot, making, loaded>>

\* No space, or interrupted: the initrd may be left as it was or removed.
DracutFails ==
  /\ step = "dracut"
  /\ initrds' \in {initrds, [initrds EXCEPT ![Initrd] = NoFile]}
  /\ settled' = NoFile
  /\ End
  /\ UNCHANGED <<boot, wanted, conf, clock, loaded>>

KexecLoads ==
  /\ step = "kexec" /\ initrds[Initrd] # NoFile /\ boot[slot] # NoFile
  /\ loaded' = [slot |-> slot, release |-> boot[slot].image.release,
                initrd |-> initrds[Initrd]]
  /\ End
  /\ UNCHANGED <<disk, settled>>

\* No initrd, or both calls of kexec fail: the kernel may have dropped the
\* old image before.
KexecFails ==
  /\ step = "kexec"
  /\ loaded' \in (IF initrds[Initrd] = NoFile THEN {loaded} ELSE {loaded, NoFile})
  /\ End
  /\ UNCHANGED <<disk, settled>>

LoadStep ==
  \/ FindKernel \/ Mkdumprd \/ Dracut \/ DracutFails \/ KexecLoads \/ KexecFails

-----------------------------------------------------------------------------
(* The administrator and the package manager.                              *)

Change ==
  /\ changes < MaxChanges /\ changes' = changes + 1
  /\ UNCHANGED <<initrds, step, update, slot, making, loaded, loads, began, settled>>

\* A file from a package has the time of the build, others that of now.
Install(s, i) ==
  /\ Change
  /\ FitsSlot(i, s)
  /\ \E t \in {0, clock + 1} :
       /\ boot' = [boot EXCEPT ![s] = [image |-> i, mtime |-> t]]
       /\ clock' = IF t = 0 THEN clock ELSE t
  /\ UNCHANGED <<wanted, conf>>

Remove(s) ==
  /\ Change
  /\ boot[s] # NoFile /\ boot' = [boot EXCEPT ![s] = NoFile]
  /\ UNCHANGED <<wanted, conf, clock>>

EditConfig ==
  /\ Change
  /\ clock' = clock + 1
  /\ conf' = [edit |-> conf.edit + 1, mtime |-> clock']
  /\ wanted' \in Wanted
  /\ UNCHANGED boot

Next ==
  \/ \E up \in BOOLEAN : Load(up)
  \/ LoadStep
  \/ \E s \in Slots : Remove(s) \/ \E i \in Installs : Install(s, i)
  \/ EditConfig

Spec == Init /\ [][Next]_vars

-----------------------------------------------------------------------------
(* Properties.                                                             *)

\* Types; dracut and mkdumprd only run under load.sh --update, for a kernel
\* that find_kernel printed, and no file is newer than the clock.
TypeOK ==
  /\ boot \in [Slots -> Files \cup {NoFile}]
  /\ initrds \in [InitrdNames -> InitrdFiles \cup {NoFile}]
  /\ wanted \in Wanted /\ conf \in [edit : Nat, mtime : Nat] /\ clock \in Nat
  /\ \A s \in Slots : boot[s] # NoFile => boot[s].mtime <= clock
  /\ \A v \in InitrdNames : initrds[v] # NoFile => initrds[v].mtime <= clock
  /\ conf.mtime <= clock
  /\ step \in {"idle", "find", "mkdumprd", "dracut", "kexec"} /\ update \in BOOLEAN
  /\ step \in {"mkdumprd", "dracut"} => update
  /\ slot \in (IF step \in {"idle", "find"} THEN {NoFile} ELSE Slots)
  /\ making \in Makings \cup {NoFile}
  /\ step = "dracut" => making # NoFile /\ making.at >= began
  /\ loaded \in Loadeds \cup {NoFile} /\ settled \in (Slots \X Nat) \cup {NoFile}
  /\ loads \in 0..MaxLoads /\ changes \in 0..MaxChanges /\ began \in 0..changes

\* With the requirements of the first tries and of the last ones.
Strict(s) == Suitable(s, TRUE)
Lenient(s) == Suitable(s, FALSE)

Candidates ==
  {FindForVersion(Tries[n].version) : n \in DOMAIN Tries} \ {NoFile}

\* The order in which kdump.5.txt.in:101-109 says that kernels are tried.
ManPage ==
  <<Try(Flavour(Running, "kdump"), TRUE), Try(<<"kdump">>, TRUE),
    Try(Running, TRUE), Try(Flavour(Running, "default"), TRUE), Try(<<>>, TRUE),
    Try(Running, FALSE), Try(<<>>, FALSE)>>

\* The first one of that list that can be used.
FirstOfManPage(s) ==
  \E n \in DOMAIN ManPage :
    /\ Verdict(ManPage[n]) = "yes" /\ s = FindForVersion(ManPage[n].version)
    /\ \A m \in DOMAIN ManPage : m < n => Verdict(ManPage[m]) # "yes"

\* No entry of the man page before the last one can be used, and
\* BASEVERSION-default is weak: the try that the man page does not have.
NotInManPage(s) ==
  /\ s = FindForVersion(Flavour(Running, "default")) /\ boot[s].image.weak
  /\ \A m \in DOMAIN ManPage : Verdict(ManPage[m]) = "yes" => m = Len(ManPage)

\* findKernelAuto() takes the kernel that the man page says, with one
\* exception in which the code departs from it: after the weak check of
\* KERNELRELEASE it makes one of BASEVERSION-default as well
\* (findkernel.cc:294-303), so it takes such a kernel where the man page knows
\* of none, or of the weak "" only.  In both searches a kernel with too many
\* CPUs or a realtime one is only taken if no kernel that is seen meets the
\* strict requirements, and no kernel is taken that cannot run.  One is found
\* if one of those that are not special kdump kernels can be used, unless an
\* image is met that cannot be read.
BestChosen ==
  [][FindKernel /\ wanted = NotSet =>
       IF slot' # NoFile
         THEN /\ FirstOfManPage(slot') \/ NotInManPage(slot')
              /\ Lenient(slot') = "yes"
              /\ boot[slot'].image.weak =>
                   \A s \in Candidates : Lenient(s) # "yes" \/ boot[s].image.weak
         ELSE \/ \E s \in Candidates : Strict(s) = "throw"
              \/ \A s \in Candidates : KdumpNamed(s[2]) \/ Lenient(s) # "yes"]_vars

\* No other kernel has an initrd of this name.  The initrd of a version 5 is
\* named like that of the kdump kernel 5-kdump (kernelpath.cc:110).
OwnInitrd(v) ==
  v \notin AnyRelease /\ \A u \in Versions : InitrdPath(u) = InitrdPath(v) => u = v

\* load.sh --update rebuilds the initrd when it must and only then
\* (mkdumprd:155-166).  If nothing changed while load.sh ran, the panic kernel
\* gets an initrd that was made from the present configuration, unless
\* something changed while dracut made it, and with the modules of its own
\* release, unless the name of the initrd may stand for several kernels.  And
\* dracut is not called again for the same kernel if nothing changed since:
\* the kdump service would rebuild the initrd on every boot.
FreshInitrd ==
  [][/\ KexecLoads /\ update /\ changes = began =>
          /\ loaded'.initrd.undisturbed => loaded'.initrd.edit = conf.edit
          /\ OwnInitrd(slot[2]) =>
               loaded'.initrd.release = loaded'.release
     /\ Mkdumprd /\ step' = "dracut" => settled # <<slot, changes>>]_vars
=============================================================================
