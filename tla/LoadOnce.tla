------------------------------ MODULE LoadOnce ------------------------------
(***************************************************************************)
(* src/init/load-once.sh: udev starts one instance of the script for every  *)
(* hotplug event; the instances agree, through a lock file and a file of    *)
(* pending jobs, that only one of them at a time runs load.sh.              *)
(***************************************************************************)
EXTENDS Naturals, FiniteSets

CONSTANTS
  Procs,   \* instances of the script (their process ids)
  None     \* no process

ASSUME NoneAssumption == None \notin Procs

VARIABLES
  pc,        \* pc[p]: the command of the script that p executes next
  jobs,      \* contents of JOBSFILE: process ids appended since truncation
  holder,    \* the instance that holds the flock on LOCKFILE, or None
  unserved,  \* history: jobs taken from the file, with no load begun since
  found,     \* history: found[p], the jobs in the file when p took the lock
  ioError    \* history: truncate has failed

lvars == <<pc, jobs, holder, unserved, found, ioError>>

LInit ==
  /\ pc = [p \in Procs |-> "new"]
  /\ jobs = {}
  /\ holder = None
  /\ unserved = {}
  /\ found = [p \in Procs |-> {}]
  /\ ioError = FALSE

Goto(p, from, to) == pc[p] = from /\ pc' = [pc EXCEPT ![p] = to]

InvokeQueued(p) ==   \* altered: the job is queued before the script runs
  /\ Goto(p, "new", "append")
  /\ jobs' = jobs \cup {p}
  /\ UNCHANGED <<holder, unserved, found, ioError>>

\* udev starts the script.
Invoke(p) ==
  /\ Goto(p, "new", "append")
  /\ UNCHANGED <<jobs, holder, unserved, found, ioError>>

\* echo $$ >> "$JOBSFILE": one short write to a file opened for appending.
AppendJob(p) ==
  /\ Goto(p, "append", "flock")
  /\ jobs' = jobs \cup {p}
  /\ UNCHANGED <<holder, unserved, found, ioError>>

FlockShared(p) ==   \* altered: the lock does not exclude the others
  /\ Goto(p, "flock", "test")
  /\ holder' = p
  /\ found' = [found EXCEPT ![p] = jobs]
  /\ UNCHANGED <<jobs, unserved, ioError>>

\* flock -n: take the lock if it is free ...
Flock(p) ==
  /\ holder = None
  /\ Goto(p, "flock", "test")
  /\ holder' = p
  /\ found' = [found EXCEPT ![p] = jobs]
  /\ UNCHANGED <<jobs, unserved, ioError>>

\* ... and give up at once if it is not.
FlockBusy(p) ==
  /\ holder # None
  /\ Goto(p, "flock", "done")
  /\ UNCHANGED <<jobs, holder, unserved, found, ioError>>

\* while [ -s "$JOBSFILE" ]
TestPending(p) ==
  /\ jobs # {}
  /\ Goto(p, "test", "truncate")
  /\ UNCHANGED <<jobs, holder, unserved, found, ioError>>

TestEmptyUnchecked(p) ==   \* altered: the loop may end with jobs pending
  /\ Goto(p, "test", "unlock")
  /\ UNCHANGED <<jobs, holder, unserved, found, ioError>>

TestEmpty(p) ==
  /\ jobs = {}
  /\ Goto(p, "test", "unlock")
  /\ UNCHANGED <<jobs, holder, unserved, found, ioError>>

TruncateNothing(p) ==   \* altered: the jobs stay in the file
  /\ Goto(p, "truncate", "load")
  /\ UNCHANGED <<jobs, holder, unserved, found, ioError>>

\* truncate -s 0 "$JOBSFILE": whatever was appended since the test goes too.
Truncate(p) ==
  /\ Goto(p, "truncate", "load")
  /\ jobs' = {}
  /\ unserved' = unserved \cup jobs
  /\ UNCHANGED <<holder, found, ioError>>

\* "|| exit 1"
TruncateFails(p) ==
  /\ Goto(p, "truncate", "unlock")
  /\ ioError' = TRUE
  /\ UNCHANGED <<jobs, holder, unserved, found>>

\* /lib/kdump/load.sh starts, and looks at the machine as it is now ...
LoadBegin(p) ==
  /\ Goto(p, "load", "loading")
  /\ unserved' = {}
  /\ UNCHANGED <<jobs, holder, found, ioError>>

LoadEndTruncating(p) ==   \* altered: the jobs are done when load.sh ends
  /\ Goto(p, "loading", "test")
  /\ jobs' = {}
  /\ UNCHANGED <<holder, unserved, found, ioError>>

\* ... and ends; the loop does not look at its exit status.
LoadEnd(p) ==
  /\ Goto(p, "loading", "test")
  /\ UNCHANGED <<jobs, holder, unserved, found, ioError>>

\* The command of flock -c has ended: the lock file is closed.
Unlock(p) ==
  /\ Goto(p, "unlock", "done")
  /\ holder' = None
  /\ UNCHANGED <<jobs, unserved, found, ioError>>

Script(p) ==
  \/ AppendJob(p)
  \/ Flock(p) \/ FlockBusy(p)
  \/ TestPending(p) \/ TestEmpty(p)
  \/ Truncate(p) \/ TruncateFails(p)
  \/ LoadBegin(p) \/ LoadEnd(p)
  \/ Unlock(p)

LNext == \E p \in Procs : Invoke(p) \/ Script(p)

LSpec == LInit /\ [][LNext]_lvars

\* Every instance is a process the scheduler runs; udev owes us no events.
LFairSpec == LSpec /\ \A p \in Procs : WF_lvars(Script(p))

-----------------------------------------------------------------------------
Locked  == {"test", "truncate", "load", "loading", "unlock"}
States  == {"new", "append", "flock", "done"} \cup Locked

\* The variables stay in their ranges; a job in the file was put there.
LTypeOK ==
  /\ pc \in [Procs -> States]
  /\ jobs \subseteq {p \in Procs : pc[p] \notin {"new", "append"}}
  /\ holder \in Procs \cup {None}
  /\ unserved \subseteq Procs
  /\ found \in [Procs -> SUBSET Procs]
  /\ ioError \in BOOLEAN

(***************************************************************************)
(* "It prevents multiple invocation of load.sh even if multiple instances   *)
(* of the script are run in parallel" (load-once.sh:4).                     *)
(***************************************************************************)
OneLoader ==
  \A p, q \in Procs : pc[p] = "loading" /\ pc[q] = "loading" => p = q

(***************************************************************************)
(* A job that was taken out of the file is followed by a load that begins   *)
(* after it was queued, so that the load sees the event the job stands for: *)
(* between truncate and the start of load.sh there is nothing that can stop *)
(* the lock holder.                                                         *)
(***************************************************************************)
TakenIsServed == unserved # {} => \E p \in Procs : pc[p] = "load"

(***************************************************************************)
(* The lock holder does not leave jobs behind that were there when it took  *)
(* the lock, unless truncate failed: a lost job waits for the next event.   *)
(***************************************************************************)
HolderDrains ==
  ~ioError => \A p \in Procs : pc[p] = "unlock" => found[p] \cap jobs = {}

(***************************************************************************)
(* What the lock is for (load-once.sh:2-6): load.sh runs once at a time,    *)
(* and no job that the lock holder took, or found when it got the lock, is  *)
(* left without a load that begins afterwards.                              *)
(***************************************************************************)
LockProtectsJobs == OneLoader /\ TakenIsServed /\ HolderDrains

(***************************************************************************)
(* Every instance ends: the loop of the lock holder is bounded by the       *)
(* number of jobs, and nobody waits for the lock.                           *)
(***************************************************************************)
InstancesEnd == \A p \in Procs : pc[p] # "new" ~> pc[p] = "done"

=============================================================================
