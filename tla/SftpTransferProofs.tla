------------------------- MODULE SftpTransferProofs -------------------------
(***************************************************************************)
(* What an SFTP upload guarantees, for paths and files of any length, any  *)
(* number of addresses and any time limit.                                 *)
(***************************************************************************)
EXTENDS SftpTransfer, SequenceTheorems, TLAPS

\* The parts of TypeOK.
Flags == waiting \in BOOLEAN /\ sigpipe \in BOOLEAN /\ prepared \in BOOLEAN
Places ==
  /\ spc \in Steps \union Ended /\ result \in {"none", "ok", "error"}
  /\ ssh \in {"none", "run", "ok", "err", "reaped"}
Counts ==
  /\ level \in 1..Depth /\ off \in 0..Blocks /\ given \in 0..Blocks
  /\ finishes \in Nat /\ lastid \in 0..IdMod-1
  /\ depth \in 0..Depth /\ handles \in 0..1
Bytes == file \in Seq(1..Blocks)

(***************************************************************************)
(* The inductive invariant.  At most one message is under way: the request *)
(* that kdumptool made in its present step, or the reply to it.            *)
(***************************************************************************)
OneMessage ==
  /\ waiting => spc \in Requests /\ (req = NoMsg \/ resp = NoMsg)
  /\ ~waiting => req = NoMsg /\ resp = NoMsg
  /\ ssh # "run" => req = NoMsg
  /\ req # NoMsg => req = [type |-> spc, id |-> lastid, level |-> level,
                           off |-> off, data |-> given]
  /\ resp # NoMsg => resp \in [id : {lastid}, answer : Answers]

\* The server has done what it was asked for, and kdumptool does not know yet.
Done == resp # NoMsg /\ resp.answer # "failure"

FileIs(n) == file = [i \in 1..n |-> i]

\* The first buffers are in the file, in order, as many as kdumptool has written.
ContentsInv ==
  /\ spc \in Constructing \cup {"route", "open"} => off = 0 /\ given = 0
  /\ spc = "open" /\ Done => FileIs(0)
  /\ spc \in {"prepare", "read", "finish"} => off = given /\ FileIs(given)
  /\ spc = "write" => given = off + 1 /\ FileIs(IF Done THEN given ELSE off)
  /\ spc = "close" => FileIs(given)
  /\ result = "ok" => spc \in {"destroy", "wait", "ended", "terminated"} /\ FileIs(given)

\* A handle is open on the server from the reply to "open" to that to "close".
HandleInv ==
  /\ ssh # "run" => handles = 0
  /\ ssh = "run" =>
       handles = IF \/ spc \in {"prepare", "read", "write", "finish", "failing"}
                    \/ spc = "open" /\ Done
                    \/ spc \in {"close", "abort"} /\ resp = NoMsg
                 THEN 1 ELSE 0
  /\ spc \in {"route", "thrown"} => ssh # "run"

\* The provider is prepared once and finished once.
ProviderInv ==
  /\ finishes \in {0, 1}
  /\ spc \in Constructing \cup {"route", "open", "unwind", "thrown", "prepare"} =>
       finishes = 0 /\ prepared = FALSE
  /\ spc \in {"read", "write", "finish", "failing"} => finishes = 0 /\ prepared = TRUE
  /\ spc = "close" => finishes = 1 /\ prepared = TRUE
  /\ spc \in {"abort", "destroy", "wait", "ended", "terminated"} =>
       \/ finishes = 0 /\ prepared = FALSE
       \/ finishes = 1 /\ prepared = TRUE

IInv == TypeOK /\ OneMessage /\ ContentsInv /\ HandleInv /\ ProviderInv

-----------------------------------------------------------------------------
\* The steps of kdumptool with a reply, and those without messages.
Reactions == Version \/ Missing \/ Present \/ Opened \/ Written \/ Closed \/ Aborted \/ Refused
Quiet == Prepare \/ GetData \/ Finish \/ FinishFailed \/ ClosePipes \/ Reap

\* The type invariant is its parts.
LEMMA TypeParts == TypeOK <=> Flags /\ Places /\ Counts /\ Bytes
BY DEF TypeOK, Flags, Places, Counts, Bytes

\* Where an exception of a request leads.
LEMMA RaiseEnds ==
  ASSUME spc \in Requests, Raise(spc)
  PROVE  \/ spc \in Constructing /\ spc' = "unwind" /\ result' = result
         \/ spc = "write" /\ spc' = "failing" /\ result' = result
         \/ spc \in {"open", "close", "abort"} /\ spc' = "destroy" /\ result' = "error"
BY DEF Raise, Requests, Constructing

\* A reply is not mistaken for an empty pipe.
LEMMA ReplyIsMessage ==
  ASSUME NEW i \in Nat, NEW a \in Answers
  PROVE  NoMsg # [id |-> i, answer |-> a]
<1>1. [id |-> i, answer |-> a] \in [id : Nat, answer : Answers]
  OBVIOUS
<1> QED
  BY <1>1, NoMsgAssumption

\* A reaction means that the reply is there, or that ssh is gone.
LEMMA ReactionEnds ==
  ASSUME OneMessage, Reactions
  PROVE  /\ waiting /\ spc \in Requests
         /\ waiting' = FALSE /\ resp' = NoMsg /\ req' = NoMsg
         /\ UNCHANGED <<ssh, server, provider, lastid, rvars>>
BY DEF Reactions, OneMessage, Version, Missing, Present, Opened, Written, Closed, Aborted,
     Refused, Reply, Received, Requests, Constructing, provider

\* Between the requests nothing is in the pipes.
LEMMA QuietIsQuiet ==
  ASSUME OneMessage, Quiet
  PROVE  /\ waiting = FALSE /\ req = NoMsg /\ resp = NoMsg
         /\ UNCHANGED <<waiting, req, resp, server, lastid, rvars, level, off>>
BY DEF Quiet, OneMessage, Prepare, GetData, Finish, FinishFailed, ClosePipes, Reap, Local,
     Requests, Constructing

\* The server answers the request that kdumptool is waiting for.
LEMMA ServerAnswers ==
  ASSUME TypeOK, OneMessage, Serve \/ Refuse
  PROVE  /\ ssh = "run" /\ waiting /\ spc \in Requests /\ resp = NoMsg
         /\ req = [type |-> spc, id |-> lastid, level |-> level, off |-> off, data |-> given]
         /\ req' = NoMsg /\ UNCHANGED <<rvars, client, ssh>>
         /\ \E a \in Answers : resp' = [id |-> lastid, answer |-> a]
<1>1. ssh = "run" /\ req # NoMsg /\ resp = NoMsg /\ \E a \in Answers : Answer(a)
  BY DEF Serve, Refuse, Answers
<1>2. waiting /\ spc \in Requests
      /\ req = [type |-> spc, id |-> lastid, level |-> level, off |-> off, data |-> given]
  BY <1>1 DEF OneMessage
<1> QED
  BY <1>1, <1>2 DEF Answer

\* What it does if it does not refuse.
LEMMA ServeDone ==
  ASSUME TypeOK, OneMessage, Serve
  PROVE  /\ Done'
         /\ \/ spc \in Constructing /\ UNCHANGED <<file, handles>>
            \/ spc = "open" /\ file' = <<>> /\ handles' = handles + 1
            \/ spc = "write" /\ file' = Put(given, off) /\ UNCHANGED handles
            \/ spc \in {"close", "abort"} /\ handles' = handles - 1 /\ UNCHANGED file
<1>1. req.type = spc /\ req.data = given /\ req.off = off
  BY ServerAnswers
<1>2. PICK a \in Answers \ {"failure"} : Answer(a)
  BY DEF Serve, Answers
<1>3. req.id \in Nat
  BY ServerAnswers, SftpAssumption DEF TypeOK
<1>4. Done'
  <2>1. resp' = [id |-> req.id, answer |-> a]
    BY <1>2 DEF Answer
  <2>2. resp' # NoMsg
    BY <1>3, <2>1, ReplyIsMessage
  <2> QED
    BY <2>1, <2>2 DEF Done
<1>5. CASE req.type \in {"init", "stat"}
  BY <1>1, <1>4, <1>5 DEF Serve, server, Constructing
<1>6. CASE req.type = "mkdir"
  BY <1>1, <1>4, <1>6 DEF Serve, Constructing
<1>7. CASE req.type \in {"open", "write", "close", "abort"}
  BY <1>1, <1>4, <1>7 DEF Serve
<1> QED
  BY <1>5, <1>6, <1>7 DEF Serve

\* A request that is refused has changed nothing, but a close frees the handle.
LEMMA RefuseUndone ==
  ASSUME TypeOK, OneMessage, Refuse
  PROVE  /\ resp' # NoMsg /\ ~Done' /\ UNCHANGED file
         /\ handles' = IF spc \in {"close", "abort"} THEN handles - 1 ELSE handles
<1>1. req.type = spc /\ req.id \in Nat
  BY ServerAnswers, SftpAssumption DEF TypeOK
<1>2. resp' = [id |-> req.id, answer |-> "failure"]
  BY DEF Refuse, Answer
<1>3. resp' # NoMsg
  BY <1>1, <1>2, ReplyIsMessage DEF Answers
<1>4. ~Done'
  BY <1>2 DEF Done
<1> QED
  BY <1>1, <1>3, <1>4 DEF Refuse

\* No second message gets under way.
LEMMA MessageStep ==
  ASSUME TypeOK, OneMessage, [Next]_vars
  PROVE  OneMessage'
<1>0. ASSUME waiting' = FALSE, req' = NoMsg, resp' = NoMsg PROVE OneMessage'
  BY <1>0 DEF OneMessage
<1>1. CASE Spawn
  BY <1>0, <1>1 DEF Spawn, OneMessage, Requests, Constructing
<1>2. CASE Send
  BY <1>2, SftpAssumption DEF Send, TypeOK, OneMessage, provider, Requests
<1>3. CASE Reactions
  BY <1>0, <1>3, ReactionEnds
<1>4. CASE Quiet
  BY <1>0, <1>4, QuietIsQuiet
<1>5. CASE Unwind
  BY <1>0, <1>5 DEF Unwind, OneMessage, Requests, Constructing
<1>6. CASE Serve \/ Refuse
  <2>1. PICK a \in Answers : resp' = [id |-> lastid, answer |-> a]
    BY <1>6, ServerAnswers
  <2>2. resp' \in [id : {lastid'}, answer : Answers]
    BY <1>6, <2>1, ServerAnswers DEF client
  <2> QED
    BY <1>6, <2>2, ServerAnswers DEF OneMessage, client
<1>8. CASE SshEnds
  BY <1>8 DEF SshEnds, client, provider, OneMessage
<1>9. CASE OtherHost
  BY <1>9 DEF OtherHost, client, provider, OneMessage
<1>10. CASE UNCHANGED <<client, ssh, req, resp>>
  BY <1>10 DEF client, provider, OneMessage
<1> QED
  BY <1>1, <1>2, <1>3, <1>4, <1>5, <1>6, <1>8, <1>9, <1>10
  DEF Next, Kdumptool, Reactions, Quiet, vars

\* The provider is called by the quiet steps only.
LEMMA ProviderStep ==
  ASSUME TypeOK, OneMessage, ProviderInv, [Next]_vars
  PROVE  ProviderInv'
<1> USE DEF ProviderInv, Constructing
<1>1. CASE Spawn
  BY <1>1 DEF Spawn, provider
<1>2. CASE Send
  BY <1>2 DEF Send, provider, Raise, Requests
<1>3. CASE Reactions
  <2>1. UNCHANGED <<finishes, prepared>> /\ spc \in Requests
    BY <1>3, ReactionEnds DEF provider
  <2>2. \/ spc \in Constructing /\ spc' \in Constructing \cup {"open", "unwind"}
        \/ spc = "open" /\ spc' \in {"prepare", "destroy"}
        \/ spc = "write" /\ spc' \in {"read", "failing"}
        \/ spc \in {"close", "abort"} /\ spc' = "destroy"
    BY <1>3, <2>1 DEF Reactions, Version, Missing, Present, Opened, Written, Closed,
         Aborted, Refused, Reply, Goto, Raise, Requests
  <2> QED BY <2>1, <2>2
<1>4. CASE Quiet
  BY <1>4 DEF Quiet, Prepare, GetData, Finish, FinishFailed, ClosePipes, Reap, provider
<1>5. CASE Unwind
  BY <1>5 DEF Unwind, provider
<1>6. CASE UNCHANGED client
  BY <1>6 DEF client, provider
<1> QED
  BY <1>1, <1>2, <1>3, <1>4, <1>5, <1>6
  DEF Next, Kdumptool, Reactions, Quiet, vars, Serve, Refuse, Answer, SshEnds, OtherHost

\* A confirmed buffer extends the file.
LEMMA PutExtends ==
  ASSUME NEW n \in Nat, FileIs(n)
  PROVE  Put(n + 1, n) = [i \in 1..(n + 1) |-> i]
<1>1. Len(file) = n
  BY DEF FileIs
<1>2. \A i \in 1..(n + 1) : i # n + 1 => i \in 1..n
  OBVIOUS
<1> QED
  BY <1>1, <1>2 DEF Put, FileIs

\* The file grows only by what the reply then confirms.
LEMMA ContentsStep ==
  ASSUME TypeOK, OneMessage, ContentsInv, [Next]_vars
  PROVE  ContentsInv'
<1>1. CASE Spawn
  BY <1>1 DEF Spawn, provider, ContentsInv, Constructing, OneMessage, Done, FileIs
<1>2. CASE Send
  <2>1. UNCHANGED <<off, given, file, resp>> /\ resp = NoMsg /\ ~Done /\ ~Done'
    BY <1>2 DEF Send, provider, server, OneMessage, Done
  <2>2. spc \in Requests
    BY <1>2 DEF Send
  <2>3. \/ spc' = spc /\ result' = result
        \/ spc' \in {"killed", "unwind", "failing"} /\ result' = result
        \/ spc' = "destroy" /\ result' = "error"
    BY <1>2, <2>2, RaiseEnds DEF Send
  <2> QED
    BY <2>1, <2>2, <2>3 DEF ContentsInv, Constructing, Requests, FileIs
<1>3. CASE Reactions
  <2>1. UNCHANGED <<given, file>> /\ ~Done' /\ spc \in Requests
    BY <1>3, ReactionEnds DEF provider, server, Done
  <2>2. CASE Refused
    <3>1. \/ spc' \in {"unwind", "failing"} /\ result' = result
          \/ spc' = "destroy" /\ result' = "error"
      BY <2>1, <2>2, RaiseEnds DEF Refused
    <3> QED
      BY <2>1, <3>1 DEF ContentsInv, Constructing, Requests, FileIs
  <2>3. CASE ~Refused
    <3>1. Done
      BY <1>3, <2>3 DEF Reactions, Version, Missing, Present, Opened, Written, Closed, Aborted, Reply, Done
    <3> QED
      BY <1>3, <2>1, <2>3, <3>1 DEF Reactions, Version, Missing, Present, Opened, Written, Closed,
           Aborted, Reply, Goto, Raise, ContentsInv, Constructing, Requests, FileIs, TypeOK
  <2> QED BY <2>2, <2>3
<1>4. CASE Quiet
  <2>1. UNCHANGED <<off, file, result>> /\ ~Done'
    BY <1>4, QuietIsQuiet DEF server, Done, Quiet, Prepare, GetData, Finish, FinishFailed, ClosePipes, Reap
  <2>2. CASE GetData
    BY <2>1, <2>2, SftpAssumption DEF GetData, ContentsInv, Constructing, FileIs, TypeOK
  <2>3. CASE ~GetData
    BY <1>4, <2>1, <2>3 DEF Quiet, Prepare, Finish, FinishFailed, ClosePipes, Reap, provider,
         ContentsInv, Constructing, FileIs
  <2> QED BY <2>2, <2>3
<1>5. CASE Unwind
  BY <1>5 DEF Unwind, provider, server, ContentsInv, Constructing, FileIs
<1>6. CASE Serve
  <2>1. UNCHANGED client /\ ~Done /\ result # "ok"
    BY <1>6, ServerAnswers DEF Done, ContentsInv, Requests, Constructing
  <2>2. Done'
    BY <1>6, ServeDone
  <2>3. CASE spc = "write"
    <3>1. file' = Put(off + 1, off) /\ off \in Nat /\ FileIs(off)
      BY <1>6, <2>1, <2>3, ServeDone, SftpAssumption DEF ContentsInv, TypeOK, Constructing
    <3>2. FileIs(given)'
      BY <2>1, <2>3, <3>1, PutExtends DEF ContentsInv, FileIs, client, provider
    <3> QED
      BY <2>1, <2>2, <2>3, <3>2 DEF ContentsInv, client, provider, Constructing
  <2>4. CASE spc = "open"
    <3>1. FileIs(0)'
      BY <1>6, <2>4, ServeDone DEF FileIs, Constructing
    <3> QED
      BY <2>1, <2>4, <3>1 DEF ContentsInv, client, provider, Constructing
  <2>5. CASE spc \notin {"write", "open"}
    <3>1. UNCHANGED file
      BY <1>6, <2>5, ServeDone
    <3> QED
      BY <2>1, <2>5, <3>1 DEF ContentsInv, client, provider, Constructing, FileIs
  <2> QED BY <2>3, <2>4, <2>5
<1>7. CASE Refuse
  <2>1. UNCHANGED <<client, file>> /\ ~Done /\ ~Done'
    BY <1>7, ServerAnswers, RefuseUndone DEF Done
  <2> QED
    BY <2>1 DEF ContentsInv, client, provider, FileIs
<1>8. CASE UNCHANGED <<client, resp, file>>
  BY <1>8 DEF ContentsInv, client, provider, FileIs, Done
<1> QED
  BY <1>1, <1>2, <1>3, <1>4, <1>5, <1>6, <1>7, <1>8
  DEF Next, Kdumptool, Reactions, Quiet, vars, server, SshEnds, OtherHost

\* Every handle that is opened is closed, or dies with the server.
LEMMA HandleStep ==
  ASSUME TypeOK, OneMessage, HandleInv, [Next]_vars
  PROVE  HandleInv'
<1>1. CASE Spawn
  BY <1>1 DEF Spawn, HandleInv, OneMessage, Done, Requests, Constructing
<1>2. CASE Send
  <2>1. UNCHANGED <<ssh, handles, resp>> /\ resp = NoMsg /\ spc \in Requests /\ ~Done /\ ~Done'
    BY <1>2 DEF Send, server, OneMessage, Done
  <2>2. \/ ssh = "run" /\ spc' = spc
        \/ ssh # "run" /\ spc' \in {"killed", "unwind", "failing", "destroy"}
    BY <1>2, <2>1, RaiseEnds DEF Send
  <2> QED
    BY <2>1, <2>2 DEF HandleInv, Requests, Constructing
<1>3. CASE Reactions
  <2>1. UNCHANGED <<ssh, handles>> /\ ~Done' /\ resp' = NoMsg /\ spc \in Requests
    BY <1>3, ReactionEnds DEF server, Done
  <2>2. CASE ssh # "run"
    <3>1. spc' \notin {"route", "thrown"}
      BY <1>3 DEF Reactions, Version, Missing, Present, Opened, Written, Closed, Aborted, Refused,
           Reply, Goto, Raise
    <3> QED
      BY <2>1, <2>2, <3>1 DEF HandleInv
  <2>3. CASE ssh = "run"
    <3>1. resp # NoMsg /\ (Done <=> ~Refused)
      BY <1>3, <2>3 DEF Reactions, Version, Missing, Present, Opened, Written, Closed, Aborted, Refused,
           Reply, Done
    <3>2. \/ spc \in Constructing /\ spc' \in Constructing \cup {"open", "unwind"}
          \/ spc = "open" /\ Done /\ spc' = "prepare"
          \/ spc = "open" /\ ~Done /\ spc' = "destroy"
          \/ spc = "write" /\ spc' \in {"read", "failing"}
          \/ spc \in {"close", "abort"} /\ spc' = "destroy"
      BY <1>3, <2>1, <3>1 DEF Reactions, Version, Missing, Present, Opened, Written, Closed,
           Aborted, Refused, Reply, Goto, Raise, Requests, Constructing
    <3> QED
      BY <2>1, <2>3, <3>1, <3>2 DEF HandleInv, Constructing
  <2> QED BY <2>2, <2>3
<1>4. CASE Quiet
  <2>1. UNCHANGED handles /\ resp = NoMsg /\ resp' = NoMsg /\ ~Done'
    BY <1>4, QuietIsQuiet DEF server, Done
  <2> QED
    BY <1>4, <2>1 DEF Quiet, Prepare, GetData, Finish, FinishFailed, ClosePipes, Reap,
         HandleInv, Requests, Constructing
<1>5. CASE Unwind
  BY <1>5 DEF Unwind, HandleInv, server, Requests, Constructing, Done, OneMessage
<1>6. CASE Serve
  <2>1. UNCHANGED <<client, ssh>> /\ ~Done /\ ssh = "run" /\ resp = NoMsg /\ Done' /\ resp' # NoMsg
    BY <1>6, ServerAnswers, ServeDone DEF Done
  <2> QED
    BY <1>6, <2>1, ServeDone DEF HandleInv, client, Constructing
<1>7. CASE Refuse
  <2>1. UNCHANGED <<client, ssh>> /\ ~Done /\ ssh = "run" /\ resp = NoMsg /\ ~Done' /\ resp' # NoMsg
    BY <1>7, ServerAnswers, RefuseUndone DEF Done
  <2> QED
    BY <1>7, <2>1, RefuseUndone DEF HandleInv, client
<1>8. CASE SshEnds
  BY <1>8 DEF SshEnds, HandleInv, client
<1>9. CASE UNCHANGED <<client, ssh, resp, handles>>
  BY <1>9 DEF HandleInv, client, Done
<1> QED
  BY <1>1, <1>2, <1>3, <1>4, <1>5, <1>6, <1>7, <1>8, <1>9
  DEF Next, Kdumptool, Reactions, Quiet, vars, server, OtherHost

\* The flags stay truth values.
LEMMA FlagsStep ==
  ASSUME Flags, OneMessage, [Next]_vars
  PROVE  Flags'
<1> USE DEF Flags
<1>1. CASE Reactions
  BY <1>1, ReactionEnds DEF provider, Reactions, Version, Missing, Present, Opened, Written,
       Closed, Aborted, Refused, Reply, Received
<1>2. CASE Quiet
  BY <1>2 DEF Quiet, Prepare, GetData, Finish, FinishFailed, ClosePipes, Reap, Local, provider
<1>3. CASE Spawn \/ Send \/ Unwind
  BY <1>3 DEF Spawn, Send, Unwind, provider
<1>4. CASE UNCHANGED client
  BY <1>4 DEF client, provider
<1> QED
  BY <1>1, <1>2, <1>3, <1>4
  DEF Next, Kdumptool, Reactions, Quiet, vars, Serve, Refuse, Answer, SshEnds, OtherHost

\* The upload stays within its steps.
LEMMA PlacesStep ==
  ASSUME Places, OneMessage, [Next]_vars
  PROVE  Places'
<1> USE DEF Places, Steps, Ended, Requests, Constructing
<1>1. CASE Reactions
  <2>1. UNCHANGED ssh /\ spc \in Requests
    BY <1>1, ReactionEnds
  <2>2. CASE Refused \/ Aborted
    BY <2>1, <2>2, RaiseEnds DEF Refused, Aborted, Reply
  <2>3. CASE ~(Refused \/ Aborted)
    BY <1>1, <2>1, <2>3 DEF Reactions, Version, Missing, Present, Opened, Written, Closed, Reply, Goto
  <2> QED BY <2>2, <2>3
<1>2. CASE Quiet
  BY <1>2 DEF Quiet, Prepare, GetData, Finish, FinishFailed, ClosePipes, Reap
<1>3. CASE Send
  BY <1>3, RaiseEnds DEF Send
<1>4. CASE Spawn \/ Unwind
  BY <1>4 DEF Spawn, Unwind
<1>5. CASE SshEnds
  BY <1>5 DEF SshEnds, client
<1>6. CASE UNCHANGED <<client, ssh>>
  BY <1>6 DEF client
<1> QED
  BY <1>1, <1>2, <1>3, <1>4, <1>5, <1>6
  DEF Next, Kdumptool, Reactions, Quiet, vars, Serve, Refuse, Answer, OtherHost

\* The counters stay within the file, the path and the ids.
LEMMA CountsStep ==
  ASSUME IInv, [Next]_vars
  PROVE  Counts'
<1>0. Counts
  BY TypeParts DEF IInv
<1>t. TypeOK /\ OneMessage
  BY DEF IInv
<1> USE SftpAssumption DEF Counts
<1>1. CASE Reactions
  <2>1. UNCHANGED <<depth, handles, given, finishes, lastid>>
    BY <1>t, <1>1, ReactionEnds DEF server, provider
  <2>2. level' \in 1..Depth
    <3>1. \/ level' \in {level, Depth}
          \/ level # 1 /\ level' = level - 1
          \/ level # Depth /\ level' = level + 1
      BY <1>1 DEF Reactions, Version, Missing, Present, Opened, Written, Closed, Aborted,
           Refused, Goto
    <3> QED BY <1>0, <3>1
  <2>3. CASE Written
    BY <1>0, <2>1, <2>2, <2>3 DEF Written, Reply, IInv, ContentsInv
  <2>4. CASE ~Written
    <3>1. UNCHANGED off
      BY <1>1, <2>4 DEF Reactions, Version, Missing, Present, Opened, Closed, Aborted, Refused, Goto
    <3> QED BY <1>0, <2>1, <2>2, <3>1
  <2> QED BY <2>3, <2>4
<1>2. CASE Quiet
  BY <1>0, <1>2 DEF Quiet, Prepare, GetData, Finish, FinishFailed, ClosePipes, Reap, Local,
       server, provider
<1>3. CASE Spawn \/ Send \/ Unwind
  BY <1>0, <1>3 DEF Spawn, Send, Unwind, server, provider
<1>4. CASE Serve
  <2>1. UNCHANGED client /\ resp = NoMsg
    BY <1>t, <1>4, ServerAnswers
  <2>2. depth' \in 0..Depth
    <3>1. req.level = level
      BY <1>t, <1>4, ServerAnswers
    <3>2. depth' = depth \/ depth' = req.level
      BY <1>4 DEF Serve, server
    <3> QED BY <1>0, <3>1, <3>2
  <2>3. handles' \in 0..1
    BY <1>t, <1>4, <2>1, ServeDone, ServerAnswers DEF IInv, HandleInv, Done, Constructing
  <2> QED BY <1>0, <2>1, <2>2, <2>3 DEF client, provider
<1>5. CASE Refuse
  <2>1. UNCHANGED <<client, depth>> /\ resp = NoMsg /\ ssh = "run"
    BY <1>t, <1>5, ServerAnswers DEF Refuse
  <2>2. handles' \in 0..1
    BY <1>t, <1>5, <2>1, RefuseUndone DEF IInv, HandleInv
  <2> QED BY <1>0, <2>1, <2>2 DEF client, provider
<1>6. CASE SshEnds \/ OtherHost
  BY <1>0, <1>6 DEF SshEnds, OtherHost, client, provider
<1>7. CASE UNCHANGED <<client, server>>
  BY <1>0, <1>7 DEF client, provider, server
<1> QED
  BY <1>1, <1>2, <1>3, <1>4, <1>5, <1>6, <1>7 DEF Next, Kdumptool, Reactions, Quiet, vars

\* The file holds buffers of the dump.
LEMMA BytesStep ==
  ASSUME IInv, [Next]_vars
  PROVE  Bytes'
<1>0. TypeOK /\ Counts /\ Bytes /\ OneMessage
  BY TypeParts DEF IInv
<1>1. CASE Serve
  <2>1. CASE spc = "write"
    <3>1. file' = Put(off + 1, off) /\ off \in Nat /\ FileIs(off) /\ off + 1 \in 0..Blocks
      BY <1>0, <1>1, <2>1, ServeDone, ServerAnswers, SftpAssumption
      DEF IInv, ContentsInv, Counts, Constructing, Done
    <3>2. file' = [i \in 1..(off + 1) |-> i]
      BY <3>1, PutExtends
    <3>3. off + 1 \in Nat /\ \A i \in 1..(off + 1) : i \in 1..Blocks
      BY <3>1, SftpAssumption
    <3>4. [i \in 1..(off + 1) |-> i] \in [1..(off + 1) -> 1..Blocks]
      BY <3>3
    <3>5. file' \in UNION {[1..n -> 1..Blocks] : n \in Nat}
      BY <3>2, <3>3, <3>4
    <3> QED BY <3>5, SeqDef DEF Bytes
  <2>2. CASE spc = "open"
    BY <1>0, <1>1, <2>2, ServeDone DEF Bytes, Constructing
  <2>3. CASE spc \notin {"write", "open"}
    BY <1>0, <1>1, <2>3, ServeDone DEF Bytes
  <2> QED BY <2>1, <2>2, <2>3
<1>2. CASE ~Serve
  <2>1. UNCHANGED file
    BY <1>0, <1>2, ReactionEnds, QuietIsQuiet
    DEF Next, Kdumptool, Reactions, Quiet, vars, server, Spawn, Send, Unwind, Refuse, SshEnds, OtherHost
  <2> QED BY <1>0, <2>1 DEF Bytes
<1> QED BY <1>1, <1>2

\* Every step keeps the types.
LEMMA TypeStep ==
  ASSUME IInv, [Next]_vars
  PROVE  TypeOK'
<1>1. Flags /\ Places /\ OneMessage
  BY TypeParts DEF IInv
<1>2. Flags' /\ Places' /\ Counts' /\ Bytes'
  BY <1>1, FlagsStep, PlacesStep, CountsStep, BytesStep
<1> QED
  BY <1>2 DEF TypeOK, Flags, Places, Counts, Bytes

\* Before the upload nothing is sent.
LEMMA InitIInv == Init => IInv
<1> SUFFICES ASSUME Init PROVE IInv
  OBVIOUS
<1>1. Flags /\ Places
  BY DEF Init, Flags, Places, Steps
<1>2. Counts /\ Bytes
  BY SftpAssumption DEF Init, Counts, Bytes
<1>3. OneMessage /\ ContentsInv /\ HandleInv /\ ProviderInv
  BY DEF Init, OneMessage, ContentsInv, HandleInv, ProviderInv, Constructing, Requests, Done
<1> QED
  BY <1>1, <1>2, <1>3, TypeParts DEF IInv

\* Every step of kdumptool, of ssh and of the server keeps the invariant.
LEMMA StepIInv == IInv /\ [Next]_vars => IInv'
BY TypeStep, MessageStep, ContentsStep, HandleStep, ProviderStep DEF IInv

-----------------------------------------------------------------------------
(***************************************************************************)
(* Routable: what check() knows of the routes while it asks and waits.     *)
(***************************************************************************)

RTypes ==
  /\ rpc \in Over \cup {"idle", "resolve", "sleep", "subscribe", "ask", "wait"}
  /\ addr \in 1..Addrs /\ left \in Nat /\ quiet \in Nat /\ tried \in Nat
  /\ queue \in Seq(Kinds) /\ routes \subseteq 1..Addrs

\* A change of the routes is announced, and receive() has not read it.
Pending == \E n \in 1..Len(queue) : queue[n] # "cloned"

\* A route that is not announced any more was there when check() asked, and the
\* time without an announcement and the rest of the wait make up the time limit;
\* before, the time spent on the name and the rest of it do.
RouteInv ==
  /\ rpc \in {"ask", "wait"} => subscribed = TRUE
  /\ rpc = "ask" => Pending \/ \A a \in 1..(addr - 1) : a \notin routes
  /\ rpc = "wait" => Pending \/ routes = {}
  /\ rpc = "wait" => Pending \/ quiet + left >= Timeout
  /\ rpc \in {"resolve", "sleep"} => tried + left >= Timeout
  /\ rpc = "idle" => tried = 0

RInv == RTypes /\ RouteInv

\* An announcement that is passed over does not hide one that counts.
LEMMA PendingAfterCloned ==
  ASSUME queue \in Seq(Kinds), queue # <<>>, Head(queue) = "cloned",
         queue' = Tail(queue), Pending
  PROVE  Pending'
<1>1. PICK n \in 1..Len(queue) : queue[n] # "cloned"
  BY DEF Pending
<1>2. n # 1 /\ Len(queue) \in Nat
  BY <1>1
<1>3. n - 1 \in 1..Len(Tail(queue)) /\ Tail(queue)[n - 1] = queue[n]
  BY <1>2
<1> QED
  BY <1>1, <1>3 DEF Pending

\* A new announcement hides none that counts.
LEMMA PendingAfterAppend ==
  ASSUME queue \in Seq(Kinds), NEW k \in Kinds, queue' = Append(queue, k),
         Pending \/ k # "cloned"
  PROVE  Pending'
<1>1. /\ Len(queue) \in Nat /\ Len(Append(queue, k)) = Len(queue) + 1
      /\ Append(queue, k)[Len(queue) + 1] = k
      /\ \A n \in 1..Len(queue) : Append(queue, k)[n] = queue[n]
  OBVIOUS
<1>2. CASE k # "cloned"
  <2>1. Len(queue) + 1 \in 1..Len(queue') /\ queue'[Len(queue) + 1] # "cloned"
    BY <1>1, <1>2
  <2> QED BY <2>1 DEF Pending
<1>3. CASE Pending
  <2>1. PICK n \in 1..Len(queue) : queue[n] # "cloned"
    BY <1>3 DEF Pending
  <2>2. n \in 1..Len(queue') /\ queue'[n] # "cloned"
    BY <1>1, <2>1
  <2> QED BY <2>2 DEF Pending
<1> QED BY <1>2, <1>3

\* What is read first is one of the three kinds of announcements.
LEMMA HeadIsKind ==
  ASSUME queue \in Seq(Kinds), queue # <<>>
  PROVE  Head(queue) \in {"route", "cloned", "long"} /\ Tail(queue) \in Seq(Kinds)
<1>1. Head(queue) \in Kinds /\ Tail(queue) \in Seq(Kinds)
  OBVIOUS
<1> QED
  BY <1>1, RoutableAssumption

\* Every step of check() and of the network keeps the types.
LEMMA RTypesStep ==
  ASSUME RTypes, RNext \/ Destroy \/ UNCHANGED rvars
  PROVE  RTypes'
<1> USE RoutableAssumption DEF RTypes, Over, Checked
<1>1. CASE Check \/ Resolve \/ Subscribe
  <2>1. UNCHANGED <<routes, quiet>> /\ (queue' = queue \/ queue' = <<>>)
    BY <1>1 DEF Check, Resolve, Subscribe, network
  <2>4. left' \in Nat /\ tried' \in Nat
    BY <1>1 DEF Check, Resolve, Subscribe
  <2>5. queue' \in Seq(Kinds)
    <3>1. CASE queue' = queue
      BY <3>1
    <3>2. CASE queue' = <<>>
      BY <3>2, EmptySeq
    <3> QED BY <2>1, <3>1, <3>2
  <2>2. addr' \in 1..Addrs
    BY <1>1 DEF Check, Resolve, Subscribe
  <2>3. rpc' \in {"resolve", "subscribe", "throw", "no", "sleep", "ask"}
    BY <1>1 DEF Check, Resolve, Subscribe
  <2> QED BY <2>1, <2>2, <2>3, <2>4, <2>5
<1>2. CASE Ask
  BY <1>2 DEF Ask, AskFails, network
<1>3. CASE Receive
  <2>1. queue' \in Seq(Kinds) /\ Head(queue) \in {"route", "cloned", "long"}
    BY <1>3, HeadIsKind DEF Receive
  <2>2. rpc' \in {"ask", "wait", "throw"} /\ addr' \in {1, addr}
    BY <1>3, <2>1 DEF Receive
  <2> QED BY <1>3, <2>1, <2>2 DEF Receive, network
<1>4. CASE TimeUp
  BY <1>4 DEF TimeUp, network
<1>5. CASE Tick
  BY <1>5 DEF Tick
<1>6. CASE NameService
  BY <1>6 DEF NameService, checker
<1>7. CASE RouteChange
  <2>1. queue' \in Seq(Kinds)
    BY <1>7 DEF RouteChange
  <2>2. routes' \subseteq 1..Addrs /\ quiet' \in Nat
    BY <1>7 DEF RouteChange
  <2> QED BY <1>7, <2>1, <2>2 DEF RouteChange, checker
<1>8. CASE Destroy
  BY <1>8 DEF Destroy
<1>9. CASE UNCHANGED rvars
  BY <1>9 DEF rvars, checker, network
<1> QED
  BY <1>1, <1>2, <1>3, <1>4, <1>5, <1>6, <1>7, <1>8, <1>9 DEF RNext, CheckStep, Environment

\* Every step keeps a lost route announced, and the time accounted for.
LEMMA RouteInvStep ==
  ASSUME RTypes, RouteInv, RNext \/ Destroy \/ UNCHANGED rvars
  PROVE  RouteInv'
<1> USE RoutableAssumption DEF RouteInv
<1>1. CASE Check \/ Resolve \/ TimeUp
  <2>1. rpc' \notin {"ask", "wait", "idle"}
    BY <1>1 DEF Check, Resolve, TimeUp
  <2>2. rpc' \in {"resolve", "sleep"} => tried' + left' >= Timeout
    BY <1>1 DEF Check, Resolve, TimeUp, RTypes
  <2> QED BY <2>1, <2>2
<1>2. CASE Subscribe
  BY <1>2 DEF Subscribe
<1>3. CASE Ask
  <2>1. rpc = "ask" /\ UNCHANGED <<queue, routes, quiet, subscribed>> /\ (Pending' <=> Pending)
    BY <1>3 DEF Ask, AskFails, network, Pending
  <2>2. CASE rpc' \in {"yes", "throw"}
    BY <2>2
  <2>3. CASE addr \notin routes /\ rpc' = "ask" /\ addr' = addr + 1
    <3>1. Pending \/ \A a \in 1..(addr' - 1) : a \notin routes
      BY <1>3, <2>3 DEF Ask, RTypes
    <3> QED BY <2>1, <2>3, <3>1
  <2>4. CASE addr \notin routes /\ addr = Addrs /\ rpc' = "wait" /\ left' = Timeout
    <3>1. Pending \/ routes = {}
      BY <1>3, <2>4 DEF Ask, RTypes
    <3> QED BY <2>1, <2>4, <3>1 DEF RTypes
  <2> QED BY <1>3, <2>2, <2>3, <2>4 DEF Ask, AskFails
<1>4. CASE Receive
  <2>1. Head(queue) \in {"route", "cloned", "long"} /\ queue # <<>>
    BY <1>4, HeadIsKind DEF Receive, RTypes
  <2>2. CASE Head(queue) = "cloned"
    <3>1. rpc' = rpc /\ UNCHANGED <<left, tried, subscribed, routes, quiet>> /\ queue' = Tail(queue)
      BY <1>4, <2>2 DEF Receive, network
    <3>2. Pending => Pending'
      BY <2>1, <2>2, <3>1, PendingAfterCloned DEF RTypes
    <3> QED BY <1>4, <3>1, <3>2 DEF Receive
  <2>3. CASE Head(queue) = "route"
    <3>1. rpc' = "ask" /\ addr' = 1 /\ UNCHANGED <<left, subscribed, routes, quiet>>
      BY <1>4, <2>3 DEF Receive, network
    <3>2. \A a \in 1..(addr' - 1) : a \notin routes'
      BY <3>1
    <3> QED BY <1>4, <3>1, <3>2 DEF Receive
  <2>4. CASE Head(queue) = "long"
    BY <1>4, <2>4 DEF Receive
  <2> QED BY <2>1, <2>2, <2>3, <2>4
<1>5. CASE Tick
  <2>1. UNCHANGED <<addr, subscribed, queue, routes>> /\ (Pending' <=> Pending)
    BY <1>5 DEF Tick, Pending
  <2>2. rpc' = rpc \/ rpc' = "resolve"
    BY <1>5 DEF Tick
  <2>3. quiet + left >= Timeout => quiet' + left' >= Timeout
    BY <1>5 DEF Tick, RTypes
  <2>4. rpc \in {"resolve", "sleep"} => tried' + left' >= Timeout
    BY <1>5 DEF Tick, RTypes
  <2>5. rpc # "idle" /\ (rpc' \in {"resolve", "sleep"} => rpc \in {"resolve", "sleep"})
    BY <1>5 DEF Tick
  <2> QED BY <2>1, <2>2, <2>3, <2>4, <2>5
<1>6. CASE NameService
  BY <1>6 DEF NameService, checker, Pending
<1>7. CASE RouteChange
  <2>1. PICK rs \in SUBSET (1..Addrs), kind \in Kinds :
          /\ kind = "cloned" => rs = routes
          /\ routes' = rs
          /\ queue' = IF subscribed THEN Append(queue, kind) ELSE queue
          /\ quiet' = IF kind = "cloned" THEN quiet ELSE 0
    BY <1>7 DEF RouteChange
  <2>2. UNCHANGED <<rpc, addr, left, tried, subscribed>>
    BY <1>7 DEF RouteChange, checker
  <2>3. CASE rpc \notin {"ask", "wait"}
    BY <2>2, <2>3
  <2>4. CASE rpc \in {"ask", "wait"}
    <3>1. queue' = Append(queue, kind)
      BY <2>1, <2>4
    <3>2. Pending \/ kind # "cloned" => Pending'
      BY <3>1, PendingAfterAppend DEF RTypes
    <3>3. kind = "cloned" => UNCHANGED <<routes, quiet>>
      BY <2>1
    <3> QED BY <2>2, <3>2, <3>3
  <2> QED BY <2>3, <2>4
<1>8. CASE Destroy
  BY <1>8 DEF Destroy
<1>9. CASE UNCHANGED rvars
  BY <1>9 DEF rvars, checker, network, Pending
<1> QED
  BY <1>1, <1>2, <1>3, <1>4, <1>5, <1>6, <1>7, <1>8, <1>9 DEF RNext, CheckStep, Environment

\* An upload uses Routable as it stands.
LEMMA StepOfRoutable == [Next]_vars => RNext \/ Destroy \/ UNCHANGED rvars
BY DEF Next, Kdumptool, vars, Spawn, Send, Version, Missing, Present, Opened, Written, Closed,
     Aborted, Refused, Reply, Received, Prepare, GetData, Finish, FinishFailed, Unwind,
     ClosePipes, Reap, Local, Serve, Refuse, Answer, SshEnds, OtherHost

\* Before check() nothing is asked.
LEMMA InitRInv == Init => RInv
BY RoutableAssumption DEF Init, RInit, RInv, RTypes, RouteInv

\* A step of the upload is one of Routable or leaves it alone.
LEMMA StepRInv == RInv /\ [Next]_vars => RInv'
BY StepOfRoutable, RTypesStep, RouteInvStep DEF RInv

\* A name that does not resolve is given up when the time spent on it is over.
LEMMA GivingUpTheName ==
  ASSUME RInv, Resolve, rpc' = "no"
  PROVE  ~resolvable /\ tried >= Timeout
<1>1. rpc = "resolve" /\ ~resolvable /\ left = 0
  BY DEF Resolve
<1> QED
  BY <1>1, RoutableAssumption DEF RInv, RTypes, RouteInv

\* Otherwise an announcement is in the socket, or there is none, no route, and
\* nothing was heard for the whole time.
LEMMA GivingUpTheRoute ==
  ASSUME RInv, TimeUp
  PROVE  rpc = "wait" /\ (queue # <<>> \/ (routes = {} /\ quiet >= Timeout))
<1>1. queue = <<>> => ~Pending
  BY DEF Pending
<1>2. left = 0 /\ left \in Nat /\ quiet \in Nat /\ rpc = "wait"
  BY DEF TimeUp, RInv, RTypes
<1>3. Pending \/ (routes = {} /\ quiet >= Timeout)
  BY <1>2, RoutableAssumption DEF RInv, RouteInv
<1> QED
  BY <1>1, <1>2, <1>3

\* These are the only two steps that give up.
LEMMA WhoGivesUp ==
  ASSUME RInv, [Next]_vars, GivesUp
  PROVE  (Resolve /\ rpc = "resolve") \/ TimeUp
<1>1. RNext
  BY StepOfRoutable DEF GivesUp, Over, Destroy, Checked, rvars, checker
<1>2. ~(Check \/ Subscribe \/ Ask \/ Tick \/ NameService \/ RouteChange)
  BY DEF GivesUp, Over, Checked, Check, Subscribe, Ask, AskFails, Tick, NameService, RouteChange, checker
<1>3. ~Receive
  BY HeadIsKind DEF GivesUp, Over, Checked, Receive, RInv, RTypes
<1>4. Resolve => rpc = "resolve"
  BY DEF Resolve
<1> QED BY <1>1, <1>2, <1>3, <1>4 DEF RNext, CheckStep, Environment

-----------------------------------------------------------------------------
\* In every reachable state, at most one message is under way and the file is as
\* far as the replies say (sshtransfer.cc:394-612).
THEOREM Invariant == Spec => []IInv
BY InitIInv, StepIInv, PTL DEF Spec

\* The variables stay in their ranges, whatever the server refuses.
THEOREM TypeCorrect == Spec => []TypeOK
<1>1. IInv => TypeOK
  BY DEF IInv
<1> QED
  BY Invariant, <1>1, PTL

\* A file that perform() has uploaded is whole on the server, buffer by buffer
\* (sshtransfer.cc:411-458, 585-610).
THEOREM ConfirmedIsWhole == Spec => []SavedIsWhole
<1>1. IInv => SavedIsWhole
  BY DEF IInv, ContentsInv, SavedIsWhole, FileIs
<1> QED
  BY Invariant, <1>1, PTL

\* On every path out of perform() the handle is closed and the provider finished
\* once (sshtransfer.cc:426-457).
THEOREM EveryPathCleansUp == Spec => []CleansUp
<1>1. IInv => CleansUp
  BY DEF IInv, TypeOK, HandleInv, ProviderInv, CleansUp
<1> QED
  BY Invariant, <1>1, PTL

\* While it waits, check() does not pass over a route that came up before
\* (routable.cc:152-172, 261-267, 438-455, 492-526).
THEOREM RoutesAreNotMissed == Spec => NoRouteMissed
<1>1. RInv /\ [Next]_vars => [StopsWaiting => routes = {} \/ queue # <<>>]_rvars
  <2> SUFFICES ASSUME RInv, [Next]_vars, StopsWaiting PROVE routes = {} \/ queue # <<>>
    OBVIOUS
  <2>1. GivesUp /\ rpc = "wait"
    BY DEF StopsWaiting, GivesUp, Over, Checked
  <2> QED BY <2>1, WhoGivesUp, GivingUpTheRoute
<1> QED
  BY InitRInv, StepRInv, <1>1, PTL DEF Spec, NoRouteMissed

\* Whenever check() answers "no", the routes have not changed for the whole time,
\* or an announcement is in the socket, or the name did not resolve for the
\* whole time (routable.cc:457-526).
THEOREM GivesUpAfterTheTime == Spec => GivesUpInTime
<1>1. ASSUME RInv, [Next]_vars, GivesUp
      PROVE  quiet >= Timeout \/ (rpc = "wait" /\ queue # <<>>) \/ (~resolvable /\ tried >= Timeout)
  <2>1. CASE Resolve
    BY <1>1, <2>1, GivingUpTheName DEF GivesUp
  <2>2. CASE TimeUp
    BY <1>1, <2>2, GivingUpTheRoute
  <2> QED BY <1>1, <2>1, <2>2, WhoGivesUp
<1>2. RInv /\ [Next]_vars =>
        [GivesUp => \/ quiet >= Timeout
                    \/ rpc = "wait" /\ queue # <<>>
                    \/ ~resolvable /\ tried >= Timeout]_rvars
  BY <1>1
<1> QED
  BY InitRInv, StepRInv, <1>2, PTL DEF Spec, GivesUpInTime
=============================================================================
