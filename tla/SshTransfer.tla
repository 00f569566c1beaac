---------------------------- MODULE SshTransfer ----------------------------
(***************************************************************************)
(* An upload to an ssh:// target: kdumptool (SSHTransfer and SubProcess),  *)
(* the ssh client it spawns, and the remote command                        *)
(*     dd of=F-incomplete && mv F-incomplete F                             *)
(* They share a pipe and a connection, and each can end before the others. *)
(* The dump is a number of blocks, each as large as one getData() returns; *)
(* what counts is how many of them are where.                              *)
(***************************************************************************)
EXTENDS Naturals

CONSTANTS
  Blocks,    \* length of the file that is sent
  PipeCap,   \* how many blocks the pipe to ssh holds
  NoFile     \* a file that does not exist on the target

ASSUME SshAssumption ==
  Blocks \in Nat \ {0} /\ PipeCap \in Nat \ {0} /\ NoFile \notin Nat

VARIABLES
  pc,          \* where SSHTransfer is
  sigpipe,     \* TRUE iff a write to a closed pipe kills kdumptool
  given,       \* blocks the data provider has returned
  finishes,    \* calls of DataProvider::finish()
  prepared,    \* prepare() returned
  pipe,        \* blocks in the pipe
  wopen,       \* a write end of the pipe is open
  ssh,         \* the ssh child
  conn,        \* the connection to the target is up
  eof,         \* ssh has forwarded the end of its input
  net,         \* blocks sent by ssh that dd has not read
  remote,      \* the remote shell and its dd
  incomplete,  \* blocks in F-incomplete
  final        \* blocks in F

provider == <<given, finishes, prepared>>
child    == <<pipe, wopen, ssh>>
target   == <<conn, eof, net, remote, incomplete, final>>
vars     == <<pc, sigpipe, provider, child, target>>

Steps == {"start", "perform", "prepare", "read", "write", "finish", "wait",
          "catch", "unwind", "reap"}
Ended == {"ok", "thrown", "killed"}

Init ==
  /\ pc = "start" /\ sigpipe \in BOOLEAN
  /\ given = 0 /\ finishes = 0 /\ prepared = FALSE
  /\ pipe = 0 /\ wopen = FALSE /\ ssh = "none"
  /\ conn = FALSE /\ eof = FALSE /\ net = 0 /\ remote = "none"
  /\ incomplete = NoFile /\ final = NoFile

-----------------------------------------------------------------------------
(* kdumptool.                                                              *)

\* The constructor warns if the target is not routable and goes on; it throws
\* if "ssh mkdir -p" does not exit with 0.
MakeDirectory ==
  /\ pc = "start"
  /\ pc' \in {"perform", "thrown"}
  /\ UNCHANGED <<sigpipe, provider, child, target>>

\* pipe2() or fork() may fail; otherwise kdumptool keeps the write end, once
\* in its local variable and once in the map of the SubProcess.
Spawn ==
  /\ pc = "perform"
  /\ \/ pc' = "thrown" /\ UNCHANGED <<child, target>>
     \/ /\ pc' = "prepare" /\ ssh' = "run" /\ wopen' = TRUE /\ conn' = TRUE
        /\ UNCHANGED <<pipe, eof, net, remote, incomplete, final>>
  /\ UNCHANGED <<sigpipe, provider>>

Prepare ==
  /\ pc = "prepare"
  /\ \/ pc' = "catch" /\ UNCHANGED prepared
     \/ pc' = "read" /\ prepared' = TRUE
  /\ UNCHANGED <<sigpipe, given, finishes, child, target>>

\* getData(): the next block, the end (of the data, or of a makedumpfile that
\* stopped too early), or an exception.
GetData ==
  /\ pc = "read"
  /\ \/ given < Blocks /\ given' = given + 1 /\ pc' = "write"
     \/ pc' \in {"finish", "catch"} /\ UNCHANGED given
  /\ UNCHANGED <<sigpipe, finishes, prepared, child, target>>

\* write() blocks while the pipe is full; without a reader it fails, or the
\* signal ends the process on the spot.
Write ==
  /\ pc = "write"
  /\ \/ ssh = "run" /\ pipe < PipeCap /\ pipe' = pipe + 1 /\ pc' = "read"
        /\ UNCHANGED <<wopen, ssh>>
     \/ ssh # "run" /\ ~sigpipe /\ pc' = "catch" /\ UNCHANGED child
     \/ ssh # "run" /\ sigpipe /\ pc' = "killed" /\ wopen' = FALSE
        /\ UNCHANGED <<pipe, ssh>>
  /\ UNCHANGED <<sigpipe, provider, target>>

\* altered: the try block reaches to the end of the function
FinishInTry ==
  /\ pc = "finish"
  /\ finishes' = finishes + 1
  /\ pc' \in {"wait", "catch"}
  /\ UNCHANGED <<sigpipe, given, prepared, child, target>>

\* The call after the loop stands outside the try block. finish() throws if the
\* provider's process failed (one killed by a signal passes for a success).
Finish ==
  /\ pc = "finish"
  /\ finishes' = finishes + 1
  /\ pc' \in {"wait", "unwind"}
  /\ UNCHANGED <<sigpipe, given, prepared, child, target>>

\* p.wait(), with both references to the write end still there. Afterwards
\* there is no child left for the destructor to kill.
Wait ==
  /\ pc = "wait" /\ ssh \in {"ok", "err"}
  /\ pc' = IF ssh = "ok" THEN "ok" ELSE "thrown"
  /\ ssh' = "reaped" /\ wopen' = FALSE /\ pipe' = 0
  /\ UNCHANGED <<sigpipe, provider, target>>

\* The catch block; finish() may throw again, which only replaces the error.
Catch ==
  /\ pc = "catch"
  /\ finishes' = IF prepared THEN finishes + 1 ELSE finishes
  /\ pc' = "unwind"
  /\ UNCHANGED <<sigpipe, given, prepared, child, target>>

\* altered: ~SubProcess() only waits
UnwindPolitely ==
  /\ pc = "unwind"
  /\ pc' = "reap"
  /\ UNCHANGED <<sigpipe, provider, child, target>>

\* ~SubProcess() kills the child before it waits, and it is killed although
\* the pipe is still open. What ssh had sent may arrive or be lost.
Unwind ==
  /\ pc = "unwind"
  /\ pc' = "reap"
  /\ IF ssh = "run"
       THEN /\ ssh' = "err" /\ conn' = FALSE /\ net' \in 0..net
       ELSE UNCHANGED <<ssh, conn, net>>
  /\ UNCHANGED <<sigpipe, provider, pipe, wopen, eof, remote, incomplete, final>>

\* altered: the exception leaves the child behind
ReapNothing ==
  /\ pc = "reap"
  /\ pc' = "thrown" /\ wopen' = FALSE
  /\ UNCHANGED <<sigpipe, provider, pipe, ssh, target>>

\* Only after the child is gone does the member map close the pipe.
Reap ==
  /\ pc = "reap" /\ ssh \in {"ok", "err"}
  /\ pc' = "thrown" /\ ssh' = "reaped" /\ wopen' = FALSE /\ pipe' = 0
  /\ UNCHANGED <<sigpipe, provider, target>>

Kdumptool ==
  \/ MakeDirectory \/ Spawn \/ Prepare \/ GetData \/ Write
  \/ Finish \/ Wait \/ Catch \/ Unwind \/ Reap

\* The out-of-memory killer, or an operator, ends kdumptool; ssh lives on.
Killed ==
  /\ pc \in Steps \ {"start", "perform"} /\ ssh # "none"
  /\ pc' = "killed" /\ wopen' = FALSE
  /\ UNCHANGED <<sigpipe, provider, pipe, ssh, target>>

-----------------------------------------------------------------------------
(* The ssh client and the connection.                                      *)

SshForwards ==
  /\ ssh = "run" /\ conn /\ remote = "dd" /\ pipe > 0
  /\ pipe' = pipe - 1 /\ net' = net + 1
  /\ UNCHANGED <<pc, sigpipe, provider, wopen, ssh, conn, eof, remote,
                 incomplete, final>>

SshForwardsEnd ==
  /\ ssh = "run" /\ conn /\ pipe = 0 /\ ~wopen /\ ~eof
  /\ eof' = TRUE
  /\ UNCHANGED <<pc, sigpipe, provider, child, conn, net, remote, incomplete,
                 final>>

\* ssh exits with the status of the remote command, or because there is no
\* connection any more.
SshExits ==
  /\ ssh = "run" /\ (~conn \/ remote \in {"moved", "failed"})
  /\ ssh' = IF conn /\ remote = "moved" THEN "ok" ELSE "err"
  /\ conn' = FALSE
  /\ UNCHANGED <<pc, sigpipe, provider, pipe, wopen, eof, net, remote,
                 incomplete, final>>

Ssh == SshForwards \/ SshForwardsEnd \/ SshExits

ConnectionLost ==
  /\ conn
  /\ conn' = FALSE /\ net' \in 0..net
  /\ UNCHANGED <<pc, sigpipe, provider, child, eof, remote, incomplete, final>>

-----------------------------------------------------------------------------
(* The target host.                                                        *)

RemoteStarts ==
  /\ remote = "none" /\ conn
  /\ remote' = "dd" /\ incomplete' = 0
  /\ UNCHANGED <<pc, sigpipe, provider, child, conn, eof, net, final>>

\* altered: "dd of=F"
DdWritesFinal ==
  /\ remote = "dd" /\ net > 0
  /\ net' = net - 1 /\ incomplete' = incomplete + 1 /\ final' = incomplete + 1
  /\ UNCHANGED <<pc, sigpipe, provider, child, conn, eof, remote>>

DdWrites ==
  /\ remote = "dd" /\ net > 0
  /\ net' = net - 1 /\ incomplete' = incomplete + 1
  /\ UNCHANGED <<pc, sigpipe, provider, child, conn, eof, remote, final>>

\* altered: "dd ...; mv ..."
DdFailsMoving ==
  /\ remote = "dd"
  /\ remote' = "failed" /\ final' = incomplete /\ incomplete' = NoFile
  /\ UNCHANGED <<pc, sigpipe, provider, child, conn, eof, net>>

\* dd cannot open or write its file: no room, or no permission.
DdFails ==
  /\ remote = "dd"
  /\ remote' = "failed"
  /\ UNCHANGED <<pc, sigpipe, provider, child, conn, eof, net, incomplete, final>>

\* dd cannot tell the end that ssh forwards from the end of the connection;
\* either way it exits with 0 and the file is renamed.
DdEnds ==
  /\ remote = "dd" /\ net = 0 /\ (eof \/ ~conn)
  /\ remote' = "moved" /\ final' = incomplete /\ incomplete' = NoFile
  /\ UNCHANGED <<pc, sigpipe, provider, child, conn, eof, net>>

Target == RemoteStarts \/ DdWrites \/ DdEnds

-----------------------------------------------------------------------------
Next ==
  \/ Kdumptool \/ Killed
  \/ Ssh \/ ConnectionLost
  \/ Target \/ DdFails

Spec == Init /\ [][Next]_vars

\* Each process goes on if it can; nobody has to be killed, no connection has
\* to break and no disk has to be full.
FairSpec == Spec /\ WF_vars(Kdumptool) /\ WF_vars(Ssh) /\ WF_vars(Target)

-----------------------------------------------------------------------------
(* Properties.                                                             *)

\* Every variable has its type; nothing is in the pipe beyond its capacity.
TypeOK ==
  /\ pc \in Steps \union Ended
  /\ ssh \in {"none", "run", "ok", "err", "reaped"}
  /\ remote \in {"none", "dd", "moved", "failed"}
  /\ sigpipe \in BOOLEAN /\ prepared \in BOOLEAN /\ wopen \in BOOLEAN
  /\ conn \in BOOLEAN /\ eof \in BOOLEAN
  /\ given \in 0..Blocks /\ finishes \in Nat
  /\ pipe \in 0..PipeCap /\ net \in 0..Blocks
  /\ incomplete \in 0..Blocks \union {NoFile}
  /\ final \in 0..Blocks \union {NoFile}

\* perform() never returns or throws with its ssh child running or unreaped,
\* at whatever step it failed.
NoChildLeft == pc \in {"ok", "thrown"} => ssh \in {"none", "reaped"}

\* Transfer::perform() promises its data provider exactly one finish() after a
\* prepare() that succeeded, whichever of the calls, or finish() itself, throws.
FinishedOnce ==
  /\ finishes <= 1
  /\ pc \in {"ok", "thrown"} => (finishes = 1 <=> prepared)

\* "dd && mv": on the target, nobody sees the final name while the transfer
\* goes on (it takes the end of kdumptool or of the connection), and a dd that
\* failed, for instance on a full disk, never gives it, not even when the
\* connection breaks afterwards.
NameMeansTheEnd ==
  final # NoFile => (~conn \/ ~wopen) /\ remote # "failed"

\* Once something went wrong in perform(), it does end: killing ssh first is
\* what keeps the destructor from waiting for a process that waits for it.
ErrorsEnd == (pc = "catch") ~> (pc \in Ended)

\* An upload to a live target ends: perform() returns or throws.
\* kdump.5 says of ssh that it "transfers the data to a remote dd command".
PerformEnds == (pc = "perform") ~> (pc \in Ended)
=============================================================================
