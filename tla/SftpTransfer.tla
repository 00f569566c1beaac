---------------------------- MODULE SftpTransfer ----------------------------
(***************************************************************************)
(* An upload to an sftp:// target. SFTPTransfer waits for the network with *)
(* Routable, starts ssh with the sftp subsystem, and then sends one        *)
(* request at a time through a pipe and waits for its reply. The server    *)
(* may refuse a request, and ssh may end at any time. Other machines crash *)
(* too and create the same directories on the server.                      *)
(***************************************************************************)
EXTENDS Routable

CONSTANTS
  Depth,    \* components of the target path
  Blocks,   \* length of the file, in buffers
  IdMod,    \* request ids wrap around; 2^32 in the program
  NoMsg     \* nothing in a pipe

ASSUME SftpAssumption ==
  Depth \in Nat \ {0} /\ Blocks \in Nat /\ IdMod \in Nat \ {0, 1}

VARIABLES
  spc,       \* the step of SFTPTransfer, one for each kind of request
  waiting,   \* the request is sent, its reply not received
  result,    \* how perform() ended
  level,     \* mkpath() looks at, or makes, the first level components
  off,       \* offset of the next write, in buffers
  given,     \* buffers the data provider has returned
  prepared,  \* DataProvider::prepare() returned
  finishes,  \* calls of DataProvider::finish()
  lastid,    \* m_lastid
  sigpipe,   \* TRUE iff a write to a closed pipe kills kdumptool
  ssh,       \* the ssh child
  req,       \* the request in the pipe
  resp,      \* the reply in the pipe
  depth,     \* how many components of the path exist on the server
  file,      \* the file on the server: which buffer is at which offset
  handles    \* open handles on the server

provider == <<given, prepared, finishes>>
client   == <<spc, waiting, result, level, off, provider, lastid, sigpipe>>
server   == <<depth, file, handles>>
vars     == <<rvars, client, ssh, req, resp, server>>

Constructing == {"init", "stat", "mkdir"}
Requests == Constructing \union {"open", "write", "close", "abort"}
Ended == {"thrown", "ended", "terminated", "killed"}
Steps == Requests \union {"route", "unwind", "prepare", "read", "finish",
                          "failing", "destroy", "wait"}
Answers == {"version", "attrs", "no such file", "ok", "handle", "failure"}

ASSUME NoMsgAssumption ==
  /\ NoMsg \notin [id : Nat, answer : Answers]
  /\ NoMsg \notin [type : Requests, id : Nat, level : Nat, off : Nat, data : Nat]

Init ==
  /\ RInit
  /\ spc = "route" /\ waiting = FALSE /\ result = "none"
  /\ level = Depth /\ off = 0
  /\ given = 0 /\ prepared = FALSE /\ finishes = 0
  /\ lastid = 0 /\ sigpipe = FALSE
  /\ ssh = "none" /\ req = NoMsg /\ resp = NoMsg
  /\ depth = 0 /\ file = <<>> /\ handles = 0

-----------------------------------------------------------------------------
(* kdumptool: requests and replies.                                        *)

\* Without a route, the constructor warns and goes on; an exception of check(),
\* pipe2() or fork() is the end. m_lastid has no initial value.
Spawn ==
  /\ spc = "route" /\ rpc \in Checked
  /\ \/ rpc # "throw" /\ spc' = "init" /\ ssh' = "run"
     \/ spc' = "thrown" /\ UNCHANGED ssh
  /\ lastid' \in 0..IdMod-1 /\ sigpipe' \in BOOLEAN /\ depth' \in 0..Depth
  /\ Destroy
  /\ UNCHANGED <<waiting, result, level, off, provider, req, resp, file, handles>>

\* altered: no closefile() after a failed write
RaiseUnclosed(step) ==
  /\ spc' = IF step \in Constructing THEN "unwind" ELSE "destroy"
  /\ result' = "error"

\* An exception leaves the constructor; in perform(), one of a write is followed
\* by finish() and by closefile(), which sends a request again.
Raise(step) ==
  /\ spc' = CASE step \in Constructing -> "unwind"
              [] step = "write"        -> "failing"
              [] OTHER                 -> "destroy"
  /\ result' = IF step \in {"open", "close", "abort"} THEN "error" ELSE result

\* sendPacket(): without ssh the write fails, or kills the process. The request
\* for the version carries no id.
Send ==
  /\ spc \in Requests /\ ~waiting
  /\ \/ /\ ssh = "run"
        /\ lastid' = IF spc = "init" THEN lastid ELSE (lastid + 1) % IdMod
        /\ req' = [type |-> spc, id |-> lastid', level |-> level, off |-> off,
                   data |-> given]
        /\ waiting' = TRUE /\ UNCHANGED <<spc, result>>
     \/ /\ ssh # "run" /\ UNCHANGED <<lastid, req, waiting>>
        /\ IF sigpipe THEN spc' = "killed" /\ UNCHANGED result ELSE Raise(spc)
  /\ UNCHANGED <<rvars, level, off, provider, sigpipe, ssh, resp, server>>

Received ==
  /\ waiting /\ waiting' = FALSE
  /\ UNCHANGED <<rvars, provider, lastid, sigpipe, ssh, req, server>>

Reply(step, answer) ==
  /\ spc = step /\ resp # NoMsg /\ resp.id = lastid /\ resp.answer = answer
  /\ resp' = NoMsg
  /\ Received

Goto(step, l) == spc' = step /\ level' = l /\ UNCHANGED <<result, off>>

\* mkpath() goes up to the first directory that exists ...
Missing ==
  /\ Reply("stat", "no such file")
  /\ IF level = 1 THEN Goto("mkdir", 1) ELSE Goto("stat", level - 1)

\* ... and makes the missing ones on the way down; createfile() comes next.
Present ==
  /\ Reply("stat", "attrs") \/ Reply("mkdir", "ok")
  /\ IF level = Depth THEN Goto("open", level) ELSE Goto("mkdir", level + 1)

Version == Reply("init", "version") /\ Goto("stat", Depth)
Opened  == Reply("open", "handle") /\ Goto("prepare", level)

\* altered: the offset stays
WrittenInPlace ==
  /\ Reply("write", "ok")
  /\ spc' = "read"
  /\ UNCHANGED <<result, level, off>>

Written ==
  /\ Reply("write", "ok")
  /\ spc' = "read" /\ off' = off + 1
  /\ UNCHANGED <<result, level>>

Closed ==
  /\ Reply("close", "ok")
  /\ spc' = "destroy" /\ result' = "ok"
  /\ UNCHANGED <<level, off>>

\* The file is closed after an error, which is thrown on.
Aborted ==
  /\ Reply("abort", "ok")
  /\ Raise("abort")
  /\ UNCHANGED <<level, off>>

\* altered: read() returning 0 is no error
RefusedOnly ==
  /\ \E step \in Requests : Reply(step, "failure")
  /\ Raise(spc)
  /\ UNCHANGED <<level, off>>

\* A status that is not expected, or the end of the pipe.
Refused ==
  /\ \/ \E step \in Requests : Reply(step, "failure")
     \/ resp = NoMsg /\ ssh # "run" /\ UNCHANGED resp /\ Received
  /\ Raise(spc)
  /\ UNCHANGED <<level, off>>

-----------------------------------------------------------------------------
(* kdumptool: perform() between the requests, and the destructors.         *)

Local == UNCHANGED <<rvars, waiting, level, off, lastid, sigpipe, req, resp, server>>

Prepare ==
  /\ spc = "prepare"
  /\ \/ spc' = "read" /\ prepared' = TRUE
     \/ spc' = "abort" /\ UNCHANGED prepared
  /\ Local /\ UNCHANGED <<result, given, finishes, ssh>>

\* The next buffer, the end of the data (whether or not the provider's process
\* was through), or an exception.
GetData ==
  /\ spc = "read"
  /\ \/ given < Blocks /\ given' = given + 1 /\ spc' = "write"
     \/ spc' \in {"finish", "failing"} /\ UNCHANGED given
  /\ Local /\ UNCHANGED <<result, prepared, finishes, ssh>>

\* altered: finish() within the inner try block
FinishInTry ==
  /\ spc = "finish"
  /\ finishes' = finishes + 1 /\ spc' \in {"close", "failing"}
  /\ Local /\ UNCHANGED <<result, given, prepared, ssh>>

\* finish() after the last buffer; its own exception is not answered with
\* another finish().
Finish ==
  /\ spc = "finish"
  /\ finishes' = finishes + 1 /\ spc' \in {"close", "abort"}
  /\ Local /\ UNCHANGED <<result, given, prepared, ssh>>

\* The inner catch block.
FinishFailed ==
  /\ spc = "failing"
  /\ finishes' = finishes + 1 /\ spc' = "abort"
  /\ Local /\ UNCHANGED <<result, given, prepared, ssh>>

\* No object was constructed: ~SubProcess() kills ssh.
Unwind ==
  /\ spc = "unwind"
  /\ spc' = "thrown" /\ ssh' = "reaped"
  /\ UNCHANGED <<rvars, waiting, result, level, off, provider, lastid, sigpipe,
                 server>>
  /\ req' = NoMsg /\ resp' = NoMsg

\* ~SFTPTransfer() closes both pipes and waits for ssh.
ClosePipes ==
  /\ spc = "destroy"
  /\ spc' = "wait"
  /\ Local /\ UNCHANGED <<result, provider, ssh>>

\* If ssh failed, the destructor throws, and that is the end of the program.
Reap ==
  /\ spc = "wait" /\ ssh \in {"ok", "err"}
  /\ spc' = IF ssh = "ok" THEN "ended" ELSE "terminated"
  /\ ssh' = "reaped"
  /\ Local /\ UNCHANGED <<result, provider>>

Kdumptool ==
  \/ Spawn \/ Send
  \/ Version \/ Missing \/ Present \/ Opened \/ Written \/ Closed \/ Aborted
  \/ Refused
  \/ Prepare \/ GetData \/ Finish \/ FinishFailed
  \/ Unwind \/ ClosePipes \/ Reap

-----------------------------------------------------------------------------
(* ssh, the server and other machines.                                     *)

Answer(a) ==
  /\ resp' = [id |-> req.id, answer |-> a]
  /\ req' = NoMsg
  /\ UNCHANGED <<rvars, client, ssh>>

\* The file with buffer d at offset o.
Put(d, o) ==
  [i \in 1..(IF o < Len(file) THEN Len(file) ELSE o + 1) |->
     IF i = o + 1 THEN d ELSE file[i]]

Serve ==
  /\ ssh = "run" /\ req # NoMsg /\ resp = NoMsg
  /\ \/ req.type = "init" /\ Answer("version") /\ UNCHANGED server
     \/ /\ req.type = "stat" /\ UNCHANGED server
        /\ Answer(IF req.level <= depth THEN "attrs" ELSE "no such file")
     \/ /\ req.type = "mkdir" /\ req.level = depth + 1 /\ Answer("ok")
        /\ depth' = req.level /\ UNCHANGED <<file, handles>>
     \/ /\ req.type = "open" /\ depth = Depth /\ Answer("handle")
        /\ file' = <<>> /\ handles' = handles + 1 /\ UNCHANGED depth
     \/ /\ req.type = "write" /\ Answer("ok")
        /\ file' = Put(req.data, req.off) /\ UNCHANGED <<depth, handles>>
     \/ /\ req.type \in {"close", "abort"} /\ Answer("ok")
        /\ handles' = handles - 1 /\ UNCHANGED <<depth, file>>

\* No permission, no room, or a directory that exists by now.
Refuse ==
  /\ ssh = "run" /\ req # NoMsg /\ req.type # "init" /\ resp = NoMsg
  /\ Answer("failure")
  /\ handles' = IF req.type \in {"close", "abort"} THEN handles - 1 ELSE handles
  /\ UNCHANGED <<depth, file>>

\* ssh loses its connection, or ends after its input did. A reply that is in
\* the pipe can still be read.
SshEnds ==
  /\ ssh = "run"
  /\ ssh' = IF spc = "wait" THEN "ok" ELSE "err"
  /\ req' = NoMsg /\ handles' = 0
  /\ UNCHANGED <<rvars, client, resp, depth, file>>

\* Another machine makes the next directory of the path.
OtherHost ==
  /\ ssh = "run" /\ depth < Depth
  /\ depth' = depth + 1
  /\ UNCHANGED <<rvars, client, ssh, req, resp, file, handles>>

Next ==
  \/ RNext /\ UNCHANGED <<client, ssh, req, resp, server>>
  \/ Kdumptool
  \/ Serve \/ Refuse \/ SshEnds \/ OtherHost

Spec == Init /\ [][Next]_vars

\* The network settles, time passes, the server answers, and ssh ends when its
\* input is closed; that it ends before is not assumed.
FairSpec ==
  /\ Spec
  /\ WF_vars(CheckStep /\ UNCHANGED <<client, ssh, req, resp, server>>)
  /\ WF_vars(Tick /\ UNCHANGED <<client, ssh, req, resp, server>>)
  /\ WF_vars(Kdumptool)
  /\ WF_vars(Serve \/ Refuse)
  /\ WF_vars(spc = "wait" /\ SshEnds)

-----------------------------------------------------------------------------
(* Properties.                                                             *)

\* Every variable has its type.
TypeOK ==
  /\ spc \in Steps \union Ended /\ waiting \in BOOLEAN /\ sigpipe \in BOOLEAN
  /\ result \in {"none", "ok", "error"}
  /\ level \in 1..Depth /\ off \in 0..Blocks /\ given \in 0..Blocks
  /\ finishes \in Nat /\ prepared \in BOOLEAN /\ lastid \in 0..IdMod-1
  /\ ssh \in {"none", "run", "ok", "err", "reaped"}
  /\ depth \in 0..Depth /\ handles \in 0..1
  /\ file \in Seq(1..Blocks)

\* If perform() returns, the server has confirmed a file that holds every buffer
\* the provider returned, each at its place.
SavedIsWhole == result = "ok" => file = [i \in 1..given |-> i]

\* Whichever step failed, perform() leaves no handle open on a server that is
\* still there, and the data provider is finished exactly once after a
\* successful prepare() (sshtransfer.cc:426-457: finish() and closefile() stand
\* in nested catch blocks and can throw themselves).
CleansUp ==
  /\ spc = "destroy" /\ ssh = "run" => handles = 0
  /\ finishes <= 1
  /\ spc \in {"destroy", "wait", "ended"} => (finishes = 1 <=> prepared)

\* Whether the network comes up and ssh lives or not, the upload ends.
UploadEnds == (spc = "route") ~> (spc \in Ended)
=============================================================================
