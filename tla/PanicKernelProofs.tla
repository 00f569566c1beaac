------------------------- MODULE PanicKernelProofs -------------------------
(***************************************************************************)
(* load.sh takes the best kernel that it can see, and gives it an initrd    *)
(* that was made from the present configuration, whatever kernels there     *)
(* are and however often they and the configuration change meanwhile.       *)
(***************************************************************************)
EXTENDS PanicKernel, SequenceTheorems, TLAPS

(***************************************************************************)
(* The inductive invariant.  What mkdumprd compares are modification times; *)
(* EditInv and NamedInv say what they tell of the contents.  MakingInv is   *)
(* about the dracut that is running, KexecInv keeps what mkdumprd found out *)
(* until kexec is called, SettledInv until load.sh runs again.              *)
(***************************************************************************)
Fits == \A s \in Slots : boot[s] # NoFile => FitsSlot(boot[s].image, s)

NewerThanConf(v) == initrds[v] # NoFile /\ conf.mtime < initrds[v].mtime

EditInv ==
  \A v \in InitrdNames :
    NewerThanConf(v) /\ initrds[v].undisturbed => initrds[v].edit = conf.edit

NamedInv ==
  \A v \in Versions :
    OwnInitrd(v) /\ initrds[InitrdPath(v)] # NoFile => initrds[InitrdPath(v)].release = v

MakingInv ==
  step = "dracut" =>
    /\ making.at <= changes
    /\ making.at = changes => making.edit = conf.edit
    /\ OwnInitrd(slot[2]) => making.release = slot[2]

KexecInv == step = "kexec" /\ update /\ changes = began => NewerThanConf(Initrd)

UpToDate(s) ==
  /\ NewerThanConf(InitrdPath(s[2]))
  /\ boot[s] # NoFile => boot[s].mtime < initrds[InitrdPath(s[2])].mtime

SettledInv ==
  settled # NoFile => settled[2] <= changes /\ (settled[2] = changes => UpToDate(settled[1]))

PKInv == TypeOK /\ Fits /\ EditInv /\ NamedInv /\ MakingInv /\ KexecInv /\ SettledInv

-----------------------------------------------------------------------------
(* find_kernel.                                                            *)

\* findForVersion() answers with an image that exists and has that version.
LEMMA FoundExists ==
  ASSUME boot \in [Slots -> Files \cup {NoFile}], NEW v \in Versions,
         FindForVersion(v) # NoFile
  PROVE  /\ FindForVersion(v) \in Slots /\ FindForVersion(v)[2] = v
         /\ boot[FindForVersion(v)] # NoFile
BY DEF FindForVersion, Slots

\* suitableForKdump() says yes, says no, or throws.
LEMMA VerdictCases ==
  ASSUME NEW t
  PROVE  Verdict(t) \in {"yes", "no", "throw"}
BY DEF Verdict, Suitable

\* Of several tries one is the first.
LEMMA FirstTry ==
  ASSUME NEW H \in SUBSET DOMAIN Tries, H # {}
  PROVE  \E n \in H : \A m \in H : n <= m
<1>1. DOMAIN Tries = 1..8
  BY DEF Tries
<1>2. \E n \in 1..8 : n \in H /\ \A m \in 1..8 : m \in H => n <= m
  BY <1>1
<1> QED
  BY <1>1, <1>2

\* findKernelAuto() answers with the image of the first try that does not say
\* no, unless there is none or it throws.
LEMMA AutoAnswers ==
  \/ /\ \E n \in DOMAIN Tries : Verdict(Tries[n]) = "throw"
     /\ FindKernelAuto = NoFile
  \/ /\ \A n \in DOMAIN Tries : Verdict(Tries[n]) = "no"
     /\ FindKernelAuto = NoFile
  \/ \E n \in DOMAIN Tries :
       /\ Verdict(Tries[n]) = "yes"
       /\ FindKernelAuto = FindForVersion(Tries[n].version)
       /\ FindForVersion(Tries[n].version) # NoFile
       /\ \A m \in DOMAIN Tries : m < n => Verdict(Tries[m]) = "no"
<1> DEFINE Hits == {n \in DOMAIN Tries : Verdict(Tries[n]) # "no"}
           First == CHOOSE n \in Hits : \A m \in Hits : n <= m
<1>0. FindKernelAuto = IF Hits = {} \/ Verdict(Tries[First]) = "throw"
                         THEN NoFile ELSE FindForVersion(Tries[First].version)
  BY DEF FindKernelAuto
<1>1. CASE Hits = {}
  BY <1>0, <1>1
<1>2. CASE Hits # {}
  <2>1. \E n \in Hits : \A m \in Hits : n <= m
    BY <1>2, FirstTry
  <2>2. First \in Hits /\ \A m \in Hits : First <= m
    BY <2>1
  <2> HIDE DEF First
  <2>3. First \in DOMAIN Tries /\ Verdict(Tries[First]) # "no"
    BY <2>2
  <2>4. \A m \in DOMAIN Tries : m < First => Verdict(Tries[m]) = "no"
    <3>1. DOMAIN Tries = 1..8
      BY DEF Tries
    <3> SUFFICES ASSUME NEW m \in 1..8, m < First, Verdict(Tries[m]) # "no" PROVE FALSE
      BY <3>1
    <3>2. m \in Hits /\ First \in 1..8
      BY <2>3, <3>1
    <3> QED
      BY <2>2, <3>2
  <2>5. CASE Verdict(Tries[First]) = "throw"
    BY <1>0, <2>3, <2>5
  <2>6. CASE Verdict(Tries[First]) # "throw"
    <3>1. Verdict(Tries[First]) = "yes"
      BY <2>3, <2>6, VerdictCases
    <3>2. FindForVersion(Tries[First].version) # NoFile
      BY <3>1 DEF Verdict
    <3> QED
      BY <1>0, <1>2, <2>3, <2>4, <2>6, <3>1, <3>2
  <2> QED
    BY <2>5, <2>6
<1> QED
  BY <1>1, <1>2

\* find_kernel prints the name of an image that exists.
LEMMA FindKernelFinds ==
  ASSUME boot \in [Slots -> Files \cup {NoFile}], wanted \in Wanted, GetPaths # NoFile
  PROVE  GetPaths \in Slots /\ boot[GetPaths] # NoFile
<1>1. CASE wanted = NotSet
  <2>1. GetPaths = FindKernelAuto
    BY <1>1 DEF GetPaths
  <2>2. PICK n \in DOMAIN Tries : /\ FindKernelAuto = FindForVersion(Tries[n].version)
                                  /\ FindForVersion(Tries[n].version) # NoFile
    BY <2>1, AutoAnswers
  <2> QED
    BY <2>1, <2>2, TriesAssumption, FoundExists
<1>2. CASE wanted # NotSet
  <2>1. GetPaths = FindForVersion(wanted)
    BY <1>2 DEF GetPaths
  <2>2. wanted \in Versions
    BY <1>2, PanicKernelAssumption
  <2> QED
    BY <2>1, <2>2, FoundExists
<1> QED
  BY <1>1, <1>2

\* A special kdump kernel is tried under two names, any other one twice: first
\* with the strict requirements, then without.
LEMMA TriesAre ==
  /\ DOMAIN Tries = 1..8
  /\ \A n \in 1..5 : Tries[n].strict
  /\ \A n \in 6..8 : ~Tries[n].strict
  /\ \A n \in 1..2 : KdumpNamed(Tries[n].version)
  /\ \A n \in 3..5 : Tries[n + 3].version = Tries[n].version
<1>1. /\ DOMAIN Tries = 1..8
      /\ \A n \in 1..5 : Tries[n].strict
      /\ \A n \in 6..8 : ~Tries[n].strict
      /\ \A n \in 3..5 : Tries[n + 3].version = Tries[n].version
  BY DEF Tries, Try
<1>2. KdumpNamed(<<"kdump">>)
  BY DEF KdumpNamed
<1>3. KdumpNamed(Flavour(Running, "kdump"))
  <2> DEFINE Parts == STRING \cup {"kdump"}
  <2>1. Running \in Seq(Parts) /\ Running # <<>>
    BY PanicKernelAssumption
  <2>2. Len(Running) \in 1..Len(Running) /\ "kdump" \in Parts
    BY <2>1
  <2> HIDE DEF Parts
  <2>3. /\ Flavour(Running, "kdump") \in Seq(Parts)
        /\ Len(Flavour(Running, "kdump")) = Len(Running)
        /\ Flavour(Running, "kdump")[Len(Running)] = "kdump"
    BY <2>1, <2>2, ExceptSeq DEF Flavour
  <2> QED
    BY <2>1, <2>2, <2>3 DEF KdumpNamed
<1>4. \A n \in 1..2 : Tries[n].version \in {Flavour(Running, "kdump"), <<"kdump">>}
  BY DEF Tries, Try
<1> QED
  BY <1>1, <1>2, <1>3, <1>4

\* What the strict requirements add.
LEMMA StrictOrNot ==
  ASSUME NEW s
  PROVE  /\ Strict(s) = "yes" => Lenient(s) = "yes" /\ ~boot[s].image.weak
         /\ Strict(s) = "no" => Lenient(s) # "yes" \/ boot[s].image.weak
         /\ Strict(s) = "throw" <=> Lenient(s) = "throw"
BY DEF Suitable, Strict, Lenient

\* What a try says is what suitableForKdump() says of the image it finds.
LEMMA VerdictOf ==
  ASSUME NEW n \in 1..8, FindForVersion(Tries[n].version) # NoFile
  PROVE  /\ n <= 5 => Verdict(Tries[n]) = Strict(FindForVersion(Tries[n].version))
         /\ n > 5 => Verdict(Tries[n]) = Lenient(FindForVersion(Tries[n].version))
<1> DEFINE s == FindForVersion(Tries[n].version)
<1>1. CASE n <= 5
  <2>1. Tries[n].strict
    BY <1>1, TriesAre
  <2>2. Verdict(Tries[n]) = Strict(s)
    BY <2>1 DEF Verdict, Suitable, Strict
  <2> QED
    BY <1>1, <2>2
<1>2. CASE n > 5
  <2>1. ~Tries[n].strict
    BY <1>2, TriesAre
  <2>2. Verdict(Tries[n]) = Lenient(s)
    BY <2>1 DEF Verdict, Suitable, Lenient
  <2> QED
    BY <1>2, <2>2
<1> QED
  BY <1>1, <1>2

\* Every candidate is found by one of the first five tries.
LEMMA CandidateTried ==
  ASSUME NEW s \in Candidates
  PROVE  \E n \in 1..5 : s = FindForVersion(Tries[n].version) /\ s # NoFile
<1>1. PICK n \in DOMAIN Tries : s = FindForVersion(Tries[n].version) /\ s # NoFile
  BY DEF Candidates
<1>2. n \in 1..8
  BY TriesAre
<1>3. CASE n > 5
  <2>1. n - 3 \in 3..5 /\ (n - 3) + 3 = n
    BY <1>2, <1>3
  <2>2. Tries[n].version = Tries[n - 3].version
    BY <2>1, TriesAre
  <2> QED
    BY <1>1, <2>1, <2>2
<1> QED
  BY <1>1, <1>2, <1>3

\* The list of the man page is that of the code without its seventh try.
LEMMA ManPageIs ==
  /\ DOMAIN ManPage = 1..7 /\ Len(ManPage) = 7
  /\ \A n \in 1..6 : ManPage[n] = Tries[n]
  /\ ManPage[7] = Tries[8]
  /\ Tries[7].version = Flavour(Running, "default")
BY DEF ManPage, Tries, Try

\* The kernel of the first try that does not say no, beside the man page.
LEMMA ManPageAnswers ==
  ASSUME NEW n \in 1..8, Verdict(Tries[n]) = "yes",
         \A m \in 1..8 : m < n => Verdict(Tries[m]) = "no",
         NEW s, s = FindForVersion(Tries[n].version), s # NoFile
  PROVE  FirstOfManPage(s) \/ NotInManPage(s)
<1>1. CASE n <= 6
  <2>1. n \in 1..6 /\ ManPage[n] = Tries[n]
    BY <1>1, ManPageIs
  <2>2. \A m \in 1..7 : m < n => Verdict(ManPage[m]) # "yes"
    BY <1>1, ManPageIs
  <2> QED
    BY <2>1, <2>2, ManPageIs DEF FirstOfManPage
<1>2. CASE n = 7
  <2>1. \A m \in 1..7 : Verdict(ManPage[m]) = "yes" => m = 7
    BY <1>2, ManPageIs
  <2>2. FindForVersion(Tries[4].version) = s
    BY <1>2, TriesAre
  <2>3. Verdict(Tries[4]) = Strict(s) /\ Verdict(Tries[4]) = "no"
    BY <1>2, <2>2, VerdictOf
  <2>4. Verdict(Tries[7]) = Lenient(s)
    BY <1>2, VerdictOf
  <2>5. boot[s].image.weak
    BY <1>2, <2>3, <2>4, StrictOrNot
  <2> QED
    BY <1>2, <2>1, <2>5, ManPageIs DEF NotInManPage
<1>3. CASE n = 8
  <2>1. ManPage[7] = Tries[n]
    BY <1>3, ManPageIs
  <2>2. \A m \in 1..7 : m < 7 => Verdict(ManPage[m]) # "yes"
    BY <1>3, ManPageIs
  <2> QED
    BY <2>1, <2>2, ManPageIs DEF FirstOfManPage
<1> QED
  BY <1>1, <1>2, <1>3

\* What find_kernel prints, if KDUMP_KERNELVER is empty.
LEMMA BestStep ==
  ASSUME TypeOK, FindKernel, wanted = NotSet
  PROVE  IF slot' # NoFile
           THEN /\ FirstOfManPage(slot') \/ NotInManPage(slot')
                /\ Lenient(slot') = "yes"
                /\ boot[slot'].image.weak =>
                     \A s \in Candidates : Lenient(s) # "yes" \/ boot[s].image.weak
           ELSE \/ \E s \in Candidates : Strict(s) = "throw"
                \/ \A s \in Candidates : KdumpNamed(s[2]) \/ Lenient(s) # "yes"
<1>1. slot' = FindKernelAuto
  BY DEF FindKernel, End, GetPaths
<1>2. CASE /\ \E n \in DOMAIN Tries : Verdict(Tries[n]) = "throw"
           /\ FindKernelAuto = NoFile
  <2>1. PICK n \in 1..8 : Verdict(Tries[n]) = "throw"
    BY <1>2, TriesAre
  <2>2. FindForVersion(Tries[n].version) # NoFile
    BY <2>1 DEF Verdict
  <2>3. FindForVersion(Tries[n].version) \in Candidates
    BY <2>2, TriesAre DEF Candidates
  <2>4. Strict(FindForVersion(Tries[n].version)) = "throw"
    BY <2>1, <2>2, VerdictOf, StrictOrNot
  <2> QED
    BY <1>1, <1>2, <2>3, <2>4
<1>3. CASE /\ \A n \in DOMAIN Tries : Verdict(Tries[n]) = "no"
           /\ FindKernelAuto = NoFile
  <2> SUFFICES ASSUME NEW s \in Candidates PROVE KdumpNamed(s[2]) \/ Lenient(s) # "yes"
    BY <1>1, <1>3
  <2>1. PICK n \in 1..5 : s = FindForVersion(Tries[n].version) /\ s # NoFile
    BY CandidateTried
  <2>2. CASE n <= 2
    <3>1. Tries[n].version \in Versions
      BY TriesAre, TriesAssumption
    <3>2. s[2] = Tries[n].version
      BY <2>1, <3>1, FoundExists DEF TypeOK
    <3> QED
      BY <2>2, <3>2, TriesAre
  <2>3. CASE n > 2
    <3>1. n + 3 \in 6..8 /\ Tries[n + 3].version = Tries[n].version
      BY <2>3, TriesAre
    <3>2. Verdict(Tries[n + 3]) = "no"
      BY <1>3, <3>1, TriesAre
    <3>3. n + 3 \in 1..8 /\ ~(n + 3 <= 5)
      BY <3>1
    <3>4. Verdict(Tries[n + 3]) = Lenient(s)
      BY <2>1, <3>1, <3>3, VerdictOf
    <3> QED
      BY <3>2, <3>4
  <2> QED
    BY <2>2, <2>3
<1>4. CASE \E n \in DOMAIN Tries :
             /\ Verdict(Tries[n]) = "yes"
             /\ FindKernelAuto = FindForVersion(Tries[n].version)
             /\ FindForVersion(Tries[n].version) # NoFile
             /\ \A m \in DOMAIN Tries : m < n => Verdict(Tries[m]) = "no"
  <2>1. PICK n \in 1..8 : /\ Verdict(Tries[n]) = "yes"
                          /\ slot' = FindForVersion(Tries[n].version) /\ slot' # NoFile
                          /\ \A m \in 1..8 : m < n => Verdict(Tries[m]) = "no"
    BY <1>1, <1>4, TriesAre
  <2>2. /\ n <= 5 => Verdict(Tries[n]) = Strict(slot')
        /\ n > 5 => Verdict(Tries[n]) = Lenient(slot')
    BY <2>1, VerdictOf
  <2>3. Lenient(slot') = "yes"
    BY <2>1, <2>2, StrictOrNot
  <2>4. ASSUME boot[slot'].image.weak, NEW s \in Candidates
        PROVE  Lenient(s) # "yes" \/ boot[s].image.weak
    <3>1. n > 5
      BY <2>1, <2>2, <2>4, StrictOrNot
    <3>2. PICK m \in 1..5 : s = FindForVersion(Tries[m].version) /\ s # NoFile
      BY CandidateTried
    <3>3. Verdict(Tries[m]) = "no" /\ m \in 1..8 /\ m <= 5
      BY <2>1, <3>1
    <3>4. Strict(s) = "no"
      BY <3>2, <3>3, VerdictOf
    <3> QED
      BY <3>4, StrictOrNot
  <2>5. FirstOfManPage(slot') \/ NotInManPage(slot')
    BY <2>1, <2>2, StrictOrNot, ManPageAnswers
  <2> QED
    BY <2>1, <2>3, <2>4, <2>5
<1> QED
  BY <1>2, <1>3, <1>4, AutoAnswers

-----------------------------------------------------------------------------
(* load.sh, mkdumprd and the changes.                                      *)

\* Where the initrd of the chosen kernel is.
LEMMA InitrdIs ==
  ASSUME NEW s \in Slots
  PROVE  s[2] \in Versions /\ InitrdPath(s[2]) \in InitrdNames
BY DEF Slots, InitrdNames

\* At first nothing is loaded and no initrd exists.
LEMMA InitPKInv == Init => PKInv
<1> SUFFICES ASSUME Init PROVE PKInv
  OBVIOUS
<1>1. TypeOK
  <2>1. \A s \in Slots : boot[s] # NoFile => boot[s].mtime <= clock
    BY BootsAssumption DEF Init
  <2>2. boot \in [Slots -> Files \cup {NoFile}]
    BY PanicKernelAssumption DEF Init
  <2>3. initrds \in [InitrdNames -> InitrdFiles \cup {NoFile}]
    BY DEF Init
  <2>4. \A v \in InitrdNames : initrds[v] = NoFile
    BY DEF Init
  <2>5. conf \in [edit : Nat, mtime : Nat] /\ conf.mtime <= clock /\ clock \in Nat
    BY DEF Init
  <2>6. loads \in 0..MaxLoads /\ changes \in 0..MaxChanges /\ began \in 0..changes
    BY PanicKernelAssumption DEF Init
  <2>7. update \in BOOLEAN
    BY DEF Init
  <2>8. /\ wanted \in Wanted /\ step = "idle" /\ slot = NoFile /\ making = NoFile
        /\ loaded = NoFile /\ settled = NoFile
    BY DEF Init
  <2> QED
    BY <2>1, <2>2, <2>3, <2>4, <2>5, <2>6, <2>7, <2>8 DEF TypeOK
<1>2. Fits
  BY BootsAssumption DEF Init, Fits
<1>3. EditInv /\ MakingInv /\ KexecInv /\ SettledInv
  BY DEF Init, EditInv, NewerThanConf, MakingInv, KexecInv, SettledInv
<1>4. NamedInv
  BY DEF Init, NamedInv, InitrdNames
<1> QED
  BY <1>1, <1>2, <1>3, <1>4 DEF PKInv

\* load.sh begins.
LEMMA LoadStepInv ==
  ASSUME PKInv, NEW up \in BOOLEAN, Load(up)
  PROVE  PKInv'
<1> USE DEF Load, disk
<1>1. TypeOK'
  <2>1. update' \in BOOLEAN
    OBVIOUS
  <2>2. changes \in Nat /\ loads' \in 0..MaxLoads /\ began' \in 0..changes
    BY PanicKernelAssumption DEF PKInv, TypeOK
  <2>3. step = "idle" /\ step' = "find" /\ slot \in {NoFile}
    BY DEF PKInv, TypeOK
  <2>4. UNCHANGED <<boot, initrds, wanted, conf, clock, slot, making, loaded, changes, settled>>
    OBVIOUS
  <2> HIDE DEF Load
  <2> QED
    BY <2>1, <2>2, <2>3, <2>4 DEF PKInv, TypeOK
<1>2. Fits' /\ EditInv' /\ NamedInv'
  BY DEF PKInv, Fits, EditInv, NewerThanConf, NamedInv
<1>3. MakingInv' /\ KexecInv'
  BY DEF MakingInv, KexecInv
<1>4. SettledInv'
  BY DEF PKInv, SettledInv, UpToDate, NewerThanConf
<1> QED
  BY <1>1, <1>2, <1>3, <1>4 DEF PKInv

\* find_kernel answers.
LEMMA FindKernelInv ==
  ASSUME PKInv, FindKernel
  PROVE  PKInv'
<1> USE DEF FindKernel, End, GoTo, disk
<1>1. TypeOK'
  <2>1. GetPaths # NoFile => GetPaths \in Slots
    BY FindKernelFinds DEF PKInv, TypeOK
  <2> QED
    BY <2>1 DEF PKInv, TypeOK
<1>2. Fits' /\ EditInv' /\ NamedInv'
  BY DEF PKInv, Fits, EditInv, NewerThanConf, NamedInv
<1>3. MakingInv' /\ KexecInv'
  BY DEF PKInv, TypeOK, MakingInv, KexecInv
<1>4. SettledInv'
  BY DEF PKInv, SettledInv, UpToDate, NewerThanConf
<1> QED
  BY <1>1, <1>2, <1>3, <1>4 DEF PKInv

\* mkdumprd compares times and may call dracut.
LEMMA MkdumprdInv ==
  ASSUME PKInv, Mkdumprd
  PROVE  PKInv'
<1> USE DEF Mkdumprd, End, GoTo, disk
<1>0. slot \in Slots /\ slot[2] \in Versions
  BY InitrdIs DEF PKInv, TypeOK
<1>1. TypeOK'
  <2>1. boot[slot] # NoFile => boot[slot] \in Files /\ boot[slot].image.release \in Versions
    BY <1>0 DEF PKInv, TypeOK, Files, Images
  <2>2. CASE step' = "dracut"
    <3>1. making' \in Makings /\ making'.at = changes
      BY <2>1, <2>2 DEF PKInv, TypeOK, Makings
    <3> QED
      BY <2>2, <3>1, NoFileAssumption DEF PKInv, TypeOK
  <2>3. CASE step' # "dracut"
    BY <2>3 DEF PKInv, TypeOK
  <2> QED
    BY <2>2, <2>3
<1>2. Fits' /\ EditInv' /\ NamedInv'
  BY DEF PKInv, Fits, EditInv, NewerThanConf, NamedInv
<1>3. MakingInv'
  <2> SUFFICES ASSUME step' = "dracut" PROVE MakingInv'
    BY DEF MakingInv
  <2>1. /\ making' = [release |-> boot[slot].image.release, edit |-> conf.edit, at |-> changes]
        /\ boot[slot] # NoFile /\ slot' = slot /\ changes' = changes /\ conf' = conf
    OBVIOUS
  <2>2. OwnInitrd(slot[2]) => boot[slot].image.release = slot[2]
    BY <1>0, <2>1 DEF PKInv, Fits, FitsSlot, OwnInitrd
  <2> QED
    BY <2>1, <2>2 DEF MakingInv, PKInv, TypeOK
<1>4. KexecInv'
  BY DEF KexecInv, NotRegenerating, NewerThanConf, Initrd
<1>5. SettledInv'
  BY DEF PKInv, SettledInv, UpToDate, NewerThanConf
<1> QED
  BY <1>1, <1>2, <1>3, <1>4, <1>5 DEF PKInv

\* What dracut writes is undisturbed exactly when nothing was changed while
\* it ran.
LEMMA UndisturbedMeans ==
  ASSUME NEW release, NEW e, NEW m, NEW x, NEW y, NEW file, file.undisturbed,
         file = [release |-> release, edit |-> e, mtime |-> m,
                 undisturbed |-> x = y]
  PROVE  x = y
<1> DEFINE b == x = y
<1> SUFFICES b
  OBVIOUS
<1>1. b \in BOOLEAN
  OBVIOUS
<1>2. file = [release |-> release, edit |-> e, mtime |-> m, undisturbed |-> b]
  OBVIOUS
<1> HIDE DEF b
<1> QED
  BY <1>1, <1>2

\* dracut writes the initrd: it is newer than everything else.
LEMMA DracutInv ==
  ASSUME PKInv, Dracut
  PROVE  PKInv'
<1> USE DEF GoTo
<1>0. /\ slot \in Slots /\ slot[2] \in Versions /\ Initrd \in InitrdNames
      /\ making \in Makings /\ changes \in Nat /\ clock \in Nat /\ step = "dracut"
      /\ conf \in [edit : Nat, mtime : Nat] /\ conf.mtime <= clock
      /\ UNCHANGED <<boot, wanted, conf, slot, making, loaded, update, loads, changes, began>>
      /\ clock' = clock + 1 /\ step' = "kexec"
  BY InitrdIs DEF Dracut, PKInv, TypeOK, Initrd
<1>1. PICK e \in making.edit..conf.edit :
        initrds' = [initrds EXCEPT ![Initrd] =
          [release |-> making.release, edit |-> e, mtime |-> clock',
           undisturbed |-> changes = making.at]]
  BY DEF Dracut
<1>2. initrds'[Initrd] =
        [release |-> making.release, edit |-> e, mtime |-> clock + 1,
         undisturbed |-> changes = making.at]
  BY <1>0, <1>1 DEF PKInv, TypeOK
<1>3. \A v \in InitrdNames : v # Initrd => initrds'[v] = initrds[v]
  BY <1>0, <1>1 DEF PKInv, TypeOK
<1>4. initrds'[Initrd] \in InitrdFiles /\ initrds'[Initrd] # NoFile
  <2>1. e \in Nat /\ making.release \in Versions
    BY <1>0, <1>1 DEF Makings
  <2>2. initrds'[Initrd] \in InitrdFiles
    BY <1>0, <1>2, <2>1 DEF InitrdFiles
  <2> QED
    BY <2>2, NoFileAssumption
<1>5. settled' = (IF changes = making.at THEN <<slot, changes>> ELSE NoFile)
  BY DEF Dracut
<1>6. TypeOK'
  <2>1. initrds' \in [InitrdNames -> InitrdFiles \cup {NoFile}]
    BY <1>0, <1>1, <1>4, <1>2 DEF PKInv, TypeOK
  <2>2. \A v \in InitrdNames : initrds'[v] # NoFile => initrds'[v].mtime <= clock + 1
    <3>1. \A v \in InitrdNames : initrds[v] # NoFile => initrds[v].mtime \in Nat
      BY DEF PKInv, TypeOK, InitrdFiles
    <3> QED
      BY <1>0, <1>2, <1>3, <3>1 DEF PKInv, TypeOK
  <2>3. \A s \in Slots : boot'[s] # NoFile => boot'[s].mtime <= clock + 1
    <3>1. \A s \in Slots : boot[s] # NoFile => boot[s].mtime \in Nat
      BY DEF PKInv, TypeOK, Files
    <3> QED
      BY <1>0, <3>1 DEF PKInv, TypeOK
  <2>4. settled' \in (Slots \X Nat) \cup {NoFile}
    BY <1>0, <1>5
  <2> QED
    BY <1>0, <2>1, <2>2, <2>3, <2>4 DEF PKInv, TypeOK
<1>7. Fits'
  BY <1>0 DEF PKInv, Fits
<1>8. EditInv'
  <2> SUFFICES ASSUME NEW v \in InitrdNames, NewerThanConf(v)', initrds'[v].undisturbed
               PROVE  initrds'[v].edit = conf'.edit
    BY DEF EditInv
  <2>1. CASE v = Initrd
    <3>1. changes = making.at
      BY <1>2, <2>1, UndisturbedMeans
    <3>2. making.edit = conf.edit
      BY <1>0, <3>1 DEF PKInv, MakingInv
    <3> QED
      BY <1>0, <1>1, <1>2, <2>1, <3>2
  <2>2. CASE v # Initrd
    BY <1>0, <1>3, <2>2 DEF PKInv, EditInv, NewerThanConf
  <2> QED
    BY <2>1, <2>2
<1>9. NamedInv'
  <2> SUFFICES ASSUME NEW v \in Versions, OwnInitrd(v), initrds'[InitrdPath(v)] # NoFile
               PROVE  initrds'[InitrdPath(v)].release = v
    BY DEF NamedInv
  <2>1. CASE v = slot[2]
    BY <1>0, <1>2, <2>1 DEF PKInv, MakingInv, Initrd
  <2>2. CASE v # slot[2]
    <3>1. InitrdPath(v) # Initrd
      BY <1>0, <2>2 DEF OwnInitrd, Initrd
    <3>2. InitrdPath(v) \in InitrdNames
      BY DEF InitrdNames
    <3> QED
      BY <1>3, <3>1, <3>2 DEF PKInv, NamedInv
  <2> QED
    BY <2>1, <2>2
<1>10. MakingInv'
  BY <1>0 DEF MakingInv
<1>11. NewerThanConf(Initrd)'
  BY <1>0, <1>2, <1>4 DEF NewerThanConf, Initrd
<1>12. KexecInv'
  BY <1>11 DEF KexecInv
<1>13. SettledInv'
  <2> SUFFICES ASSUME changes = making.at, settled' = <<slot, changes>> PROVE SettledInv'
    BY <1>5 DEF SettledInv
  <2>1. boot'[slot] # NoFile => boot'[slot].mtime < initrds'[Initrd].mtime
    <3>1. boot[slot] # NoFile => boot[slot].mtime \in Nat /\ boot[slot].mtime <= clock
      BY <1>0 DEF PKInv, TypeOK, Files
    <3> QED
      BY <1>0, <1>2, <3>1
  <2> QED
    BY <1>0, <1>11, <2>1 DEF SettledInv, UpToDate, Initrd
<1> QED
  BY <1>6, <1>7, <1>8, <1>9, <1>10, <1>12, <1>13 DEF PKInv

\* dracut leaves the old initrd or none.
LEMMA DracutFailsInv ==
  ASSUME PKInv, DracutFails
  PROVE  PKInv'
<1> USE DEF DracutFails, End
<1>0. /\ slot \in Slots /\ slot[2] \in Versions /\ Initrd \in InitrdNames
      /\ initrds \in [InitrdNames -> InitrdFiles \cup {NoFile}]
  BY InitrdIs DEF PKInv, TypeOK, Initrd
<1>1. /\ initrds' \in [InitrdNames -> InitrdFiles \cup {NoFile}]
      /\ \A v \in InitrdNames : initrds'[v] # NoFile => initrds'[v] = initrds[v]
  BY <1>0
<1>2. TypeOK'
  BY <1>1 DEF PKInv, TypeOK
<1>3. Fits'
  BY DEF PKInv, Fits
<1>4. EditInv'
  BY <1>1 DEF PKInv, EditInv, NewerThanConf
<1>5. NamedInv'
  BY <1>1 DEF PKInv, NamedInv, InitrdNames
<1>6. MakingInv' /\ KexecInv' /\ SettledInv'
  BY DEF MakingInv, KexecInv, SettledInv
<1> QED
  BY <1>2, <1>3, <1>4, <1>5, <1>6 DEF PKInv

\* kexec loads the kernel and the initrd, or fails.
LEMMA KexecStepInv ==
  ASSUME PKInv, KexecLoads \/ KexecFails
  PROVE  PKInv'
<1>0. /\ UNCHANGED <<boot, initrds, wanted, conf, clock, update, loads, changes, began, settled>>
      /\ step' = "idle" /\ slot' = NoFile /\ making' = NoFile
  BY DEF KexecLoads, KexecFails, End, disk
<1>1. loaded' \in Loadeds \cup {NoFile}
  <2>1. CASE KexecLoads
    <3>1. /\ slot \in Slots /\ boot[slot] \in Files /\ boot[slot].image.release \in Versions
          /\ initrds[Initrd] \in InitrdFiles
      BY <2>1, InitrdIs DEF KexecLoads, PKInv, TypeOK, Initrd, Files, Images
    <3> QED
      BY <2>1, <3>1 DEF KexecLoads, Loadeds
  <2>2. CASE KexecFails
    BY <2>2 DEF KexecFails, PKInv, TypeOK
  <2> QED
    BY <2>1, <2>2
<1>2. TypeOK'
  BY <1>0, <1>1 DEF PKInv, TypeOK
<1>3. Fits' /\ EditInv' /\ NamedInv'
  BY <1>0 DEF PKInv, Fits, EditInv, NewerThanConf, NamedInv
<1>4. MakingInv' /\ KexecInv'
  BY <1>0 DEF MakingInv, KexecInv
<1>5. SettledInv'
  BY <1>0 DEF PKInv, SettledInv, UpToDate, NewerThanConf
<1> QED
  BY <1>2, <1>3, <1>4, <1>5 DEF PKInv

\* A change makes what was found out before it worthless: dracut, load.sh and
\* the last dracut began with another number of changes.
LEMMA ChangeInv ==
  ASSUME PKInv, Change
  PROVE  /\ changes' \in 0..MaxChanges /\ changes' = changes + 1 /\ began' \in 0..changes'
         /\ UNCHANGED <<initrds, step, update, slot, making, loaded, loads, began, settled>>
         /\ MakingInv' /\ KexecInv' /\ SettledInv'
<1> USE DEF Change
<1>1. /\ changes' \in 0..MaxChanges /\ changes' = changes + 1 /\ began' \in 0..changes'
      /\ UNCHANGED <<initrds, step, update, slot, making, loaded, loads, began, settled>>
      /\ changes \in Nat /\ began \in 0..changes
  BY PanicKernelAssumption DEF PKInv, TypeOK
<1> HIDE DEF Change
<1>2. MakingInv'
  <2> SUFFICES ASSUME step = "dracut" PROVE MakingInv'
    BY <1>1 DEF MakingInv
  <2>1. making \in Makings /\ making.at \in Nat /\ making.at <= changes
    BY DEF PKInv, TypeOK, MakingInv, Makings
  <2> QED
    BY <1>1, <2>1 DEF PKInv, MakingInv
<1>3. KexecInv'
  BY <1>1 DEF KexecInv
<1>4. SettledInv'
  <2>1. settled # NoFile => settled[2] \in Nat /\ settled[2] <= changes
    BY DEF PKInv, TypeOK, SettledInv
  <2> QED
    BY <1>1, <2>1 DEF SettledInv
<1> QED
  BY <1>1, <1>2, <1>3, <1>4

\* A kernel is installed, with the time of its build or the present time.
LEMMA InstallInv ==
  ASSUME PKInv, NEW s \in Slots, NEW i \in Installs, Install(s, i)
  PROVE  PKInv'
<1>0. Change /\ FitsSlot(i, s) /\ UNCHANGED <<wanted, conf>>
  BY DEF Install
<1>1. PICK t \in {0, clock + 1} :
        /\ boot' = [boot EXCEPT ![s] = [image |-> i, mtime |-> t]]
        /\ clock' = IF t = 0 THEN clock ELSE t
  BY DEF Install
<1>2. /\ clock \in Nat /\ t \in Nat /\ clock' \in Nat /\ clock <= clock' /\ t <= clock'
      /\ boot \in [Slots -> Files \cup {NoFile}]
  BY <1>1 DEF PKInv, TypeOK
<1>3. [image |-> i, mtime |-> t] \in Files
  BY <1>2, PanicKernelAssumption DEF Files
<1>4. /\ boot' \in [Slots -> Files \cup {NoFile}]
      /\ boot'[s] = [image |-> i, mtime |-> t]
      /\ \A u \in Slots : u # s => boot'[u] = boot[u]
  BY <1>1, <1>2, <1>3
<1>5. TypeOK'
  <2>1. \A u \in Slots : boot'[u] # NoFile => boot'[u].mtime <= clock'
    <3>1. \A u \in Slots : boot[u] # NoFile => boot[u].mtime \in Nat /\ boot[u].mtime <= clock
      BY DEF PKInv, TypeOK, Files
    <3> QED
      BY <1>2, <1>4, <3>1
  <2>2. \A v \in InitrdNames : initrds[v] # NoFile => initrds[v].mtime <= clock'
    <3>1. \A v \in InitrdNames :
            initrds[v] # NoFile => initrds[v].mtime \in Nat /\ initrds[v].mtime <= clock
      BY DEF PKInv, TypeOK, InitrdFiles
    <3> QED
      BY <1>2, <3>1
  <2>3. conf.mtime <= clock'
    BY <1>2 DEF PKInv, TypeOK
  <2> QED
    BY <1>0, <1>2, <1>4, <2>1, <2>2, <2>3, ChangeInv DEF PKInv, TypeOK
<1>6. Fits'
  BY <1>0, <1>4 DEF PKInv, Fits, FitsSlot
<1>7. EditInv' /\ NamedInv'
  BY <1>0, ChangeInv DEF PKInv, EditInv, NewerThanConf, NamedInv
<1> QED
  BY <1>0, <1>5, <1>6, <1>7, ChangeInv DEF PKInv

\* A kernel is removed.
LEMMA RemoveInv ==
  ASSUME PKInv, NEW s \in Slots, Remove(s)
  PROVE  PKInv'
<1>0. Change /\ UNCHANGED <<wanted, conf, clock>> /\ boot' = [boot EXCEPT ![s] = NoFile]
  BY DEF Remove
<1>1. /\ boot' \in [Slots -> Files \cup {NoFile}]
      /\ \A u \in Slots : boot'[u] # NoFile => boot'[u] = boot[u]
  BY <1>0 DEF PKInv, TypeOK
<1>2. TypeOK'
  BY <1>0, <1>1, ChangeInv DEF PKInv, TypeOK
<1>3. Fits'
  BY <1>1 DEF PKInv, Fits, FitsSlot
<1>4. EditInv' /\ NamedInv'
  BY <1>0, ChangeInv DEF PKInv, EditInv, NewerThanConf, NamedInv
<1> QED
  BY <1>0, <1>2, <1>3, <1>4, ChangeInv DEF PKInv

\* The configuration is edited: it is now newer than every initrd.
LEMMA EditConfigInv ==
  ASSUME PKInv, EditConfig
  PROVE  PKInv'
<1>0. /\ Change /\ UNCHANGED boot /\ wanted' \in Wanted
      /\ clock' = clock + 1 /\ conf' = [edit |-> conf.edit + 1, mtime |-> clock']
  BY DEF EditConfig
<1>1. /\ clock \in Nat /\ conf'.mtime = clock + 1 /\ conf' \in [edit : Nat, mtime : Nat]
      /\ UNCHANGED initrds
  BY <1>0, ChangeInv DEF PKInv, TypeOK
<1>2. \A v \in InitrdNames :
        initrds[v] # NoFile => initrds[v].mtime \in Nat /\ initrds[v].mtime <= clock
  BY DEF PKInv, TypeOK, InitrdFiles
<1>3. TypeOK'
  <2>1. \A u \in Slots : boot[u] # NoFile => boot[u].mtime <= clock'
    <3>1. \A u \in Slots : boot[u] # NoFile => boot[u].mtime \in Nat /\ boot[u].mtime <= clock
      BY DEF PKInv, TypeOK, Files
    <3> QED
      BY <1>0, <1>1, <3>1
  <2>2. \A v \in InitrdNames : initrds[v] # NoFile => initrds[v].mtime <= clock'
    BY <1>0, <1>1, <1>2
  <2>3. clock' \in Nat /\ conf'.mtime <= clock'
    BY <1>0, <1>1
  <2> QED
    BY <1>0, <1>1, <2>1, <2>2, <2>3, ChangeInv DEF PKInv, TypeOK
<1>4. Fits'
  BY <1>0 DEF PKInv, Fits
<1>5. EditInv'
  <2>1. \A v \in InitrdNames : ~NewerThanConf(v)'
    BY <1>0, <1>1, <1>2 DEF NewerThanConf
  <2> QED
    BY <2>1 DEF EditInv
<1>6. NamedInv'
  BY <1>1 DEF PKInv, NamedInv
<1> QED
  BY <1>0, <1>3, <1>4, <1>5, <1>6, ChangeInv DEF PKInv

\* The inductive invariant holds.
THEOREM KernelInvariant == Spec => []PKInv
<1>1. Init => PKInv
  BY InitPKInv
<1>2. PKInv /\ [Next]_vars => PKInv'
  <2> SUFFICES ASSUME PKInv, [Next]_vars PROVE PKInv'
    OBVIOUS
  <2>1. CASE \E up \in BOOLEAN : Load(up)
    BY <2>1, LoadStepInv
  <2>2. CASE LoadStep
    BY <2>2, FindKernelInv, MkdumprdInv, DracutInv, DracutFailsInv, KexecStepInv DEF LoadStep
  <2>3. CASE \E s \in Slots : Remove(s) \/ \E i \in Installs : Install(s, i)
    BY <2>3, RemoveInv, InstallInv
  <2>4. CASE EditConfig
    BY <2>4, EditConfigInv
  <2>5. CASE UNCHANGED vars
    BY <2>5 DEF vars, disk, PKInv, TypeOK, Fits, EditInv, NewerThanConf, NamedInv, MakingInv,
                KexecInv, SettledInv, UpToDate, Initrd
  <2> QED
    BY <2>1, <2>2, <2>3, <2>4, <2>5 DEF Next
<1> QED
  BY <1>1, <1>2, PTL DEF Spec

\* Types, the order of the steps, and that no file is newer than the clock.
THEOREM TypeCorrect == Spec => []TypeOK
<1>1. PKInv => TypeOK
  BY DEF PKInv
<1> QED
  BY <1>1, KernelInvariant, PTL

\* BestChosen: findKernelAuto() takes the kernel that the man page says, or
\* BASEVERSION-default where only the try that the man page does not have can
\* be used, prefers a kernel that meets the strict requirements, prints none
\* that cannot run, and finds one if it can.
THEOREM TakesTheBest == Spec => BestChosen
<1>1. PKInv /\ [Next]_vars =>
        [FindKernel /\ wanted = NotSet =>
           IF slot' # NoFile
             THEN /\ FirstOfManPage(slot') \/ NotInManPage(slot')
                  /\ Lenient(slot') = "yes"
                  /\ boot[slot'].image.weak =>
                       \A s \in Candidates : Lenient(s) # "yes" \/ boot[s].image.weak
             ELSE \/ \E s \in Candidates : Strict(s) = "throw"
                  \/ \A s \in Candidates : KdumpNamed(s[2]) \/ Lenient(s) # "yes"]_vars
  BY BestStep DEF PKInv
<1> QED
  BY <1>1, KernelInvariant, PTL DEF Spec, BestChosen

\* FreshInitrd: what mkdumprd compares, modification times, is enough: the
\* panic kernel gets an initrd of the present configuration and of its own
\* release, and no initrd is made twice.
THEOREM LoadsFreshInitrd == Spec => FreshInitrd
<1>1. PKInv /\ [Next]_vars =>
        [/\ KexecLoads /\ update /\ changes = began =>
               /\ loaded'.initrd.undisturbed => loaded'.initrd.edit = conf.edit
               /\ OwnInitrd(slot[2]) => loaded'.initrd.release = loaded'.release
         /\ Mkdumprd /\ step' = "dracut" => settled # <<slot, changes>>]_vars
  <2>1. ASSUME PKInv, KexecLoads, update, changes = began
        PROVE  /\ loaded'.initrd.undisturbed => loaded'.initrd.edit = conf.edit
               /\ OwnInitrd(slot[2]) => loaded'.initrd.release = loaded'.release
    <3>1. slot \in Slots /\ slot[2] \in Versions /\ Initrd \in InitrdNames
      BY <2>1, InitrdIs DEF KexecLoads, PKInv, TypeOK, Initrd
    <3>2. loaded'.initrd = initrds[Initrd] /\ loaded'.release = boot[slot].image.release
      BY <2>1 DEF KexecLoads
    <3>3. NewerThanConf(Initrd)
      BY <2>1 DEF KexecLoads, PKInv, KexecInv
    <3>4. initrds[Initrd].undisturbed => initrds[Initrd].edit = conf.edit
      BY <2>1, <3>1, <3>3 DEF PKInv, EditInv
    <3>5. ASSUME OwnInitrd(slot[2]) PROVE initrds[Initrd].release = boot[slot].image.release
      <4>1. initrds[Initrd].release = slot[2]
        BY <2>1, <3>1, <3>3, <3>5 DEF PKInv, NamedInv, NewerThanConf, Initrd
      <4>2. boot[slot].image.release = slot[2]
        BY <2>1, <3>1, <3>5 DEF KexecLoads, PKInv, Fits, FitsSlot, OwnInitrd
      <4> QED
        BY <4>1, <4>2
    <3> QED
      BY <3>2, <3>4, <3>5
  <2>2. ASSUME PKInv, Mkdumprd, step' = "dracut", settled = <<slot, changes>> PROVE FALSE
    <3>1. step = "mkdumprd" /\ boot[slot] # NoFile /\ ~NotRegenerating
      BY <2>2 DEF Mkdumprd, End, GoTo
    <3>2. slot \in Slots /\ changes \in Nat
      BY <2>2, <3>1 DEF PKInv, TypeOK
    <3>3. settled # NoFile /\ settled[1] = slot /\ settled[2] = changes
      BY <2>2, <3>2, NoFileAssumption
    <3>4. UpToDate(slot)
      BY <2>2, <3>3 DEF PKInv, SettledInv
    <3> QED
      BY <3>1, <3>4 DEF UpToDate, NewerThanConf, NotRegenerating, Initrd
  <2> QED
    BY <2>1, <2>2
<1> QED
  BY <1>1, KernelInvariant, PTL DEF Spec, FreshInitrd
=============================================================================
