--------------------------- MODULE RemoteTransfers ---------------------------
(***************************************************************************)
(* kdumptool save_dump with a target on an FTP, NFS or CIFS server: the    *)
(* configuration is read through a shell, the transfer object is made      *)
(* (which mounts every NFS or CIFS target), files are saved, and the       *)
(* object is destroyed (which unmounts). The shell, mount and umount run   *)
(* in a ProcessFilter; libcurl calls the data provider back.               *)
(***************************************************************************)
EXTENDS ProcessFilter, Sequences, SequencesExt

CONSTANTS
  Targets,    \* the values of KDUMP_SAVEDIR: sequences of URLs, as records of
              \* protocol, share (host and directories, in their order) and
              \* whether the path has a slash after the share
  Scripts,    \* lengths of the shell script, in pages
  Files,      \* the data providers of the files to save, in their order
  Blocks      \* length of a file, in buffers

ASSUME RemoteAssumption == Scripts \subseteq Nat /\ Blocks \in Nat

\* Only the protocol of the first URL chooses the class of the transfer.
ASSUME TargetsAssumption ==
  \A t \in Targets :
    /\ t \in Seq([proto : STRING, share : Seq(STRING) \ {<<>>}, slash : BOOLEAN])
    /\ t # <<>> /\ t[1].proto \in {"ftp", "nfs", "cifs"}

VARIABLES
  urls,     \* the configured targets
  pc,       \* the step of kdumptool
  i,        \* the URL or the file it works on
  point,    \* m_mountpoint below /mnt; <<>> if empty
  mounts,   \* mount table: what is mounted where, in that order
  astray,   \* a mount or umount said 0 and did not do it
  placed,   \* where the files for each URL went
  refused,  \* a umount said that it failed
  given,    \* buffers the data provider returned in this perform()
  source,   \* what the end of the data means
  provider, \* the data provider is open or closed
  saved,    \* what became of each file
  curl      \* the state of m_curl

tool  == <<urls, pc, i, point>>
disk  == <<mounts, astray, placed, refused>>
ftp   == <<given, source, provider, saved, curl>>
vars  == <<pvars, tool, disk, ftp>>

Ended == {"ended", "failed", "dead", "local"}
Helper == {"config", "mounting", "unmounting"}

Init ==
  /\ FltInit
  /\ urls = <<>> /\ pc = "start" /\ i = 1 /\ point = <<>>
  /\ mounts = <<>> /\ astray = FALSE /\ refused = FALSE
  /\ placed = <<>>
  /\ given = 0 /\ source = "good" /\ provider = "closed" /\ saved = <<>>
  /\ curl = "ready"

Proto == urls[1].proto
Kind == Files[i]

\* The NFS mount point has the host and the directories in its name, so that one
\* can lie below another; CIFS shares are all mounted at the same place.
PointOf(u) == IF Proto = "nfs" THEN u.share ELSE <<"mnt">>

-----------------------------------------------------------------------------
(* Reading the configuration, and getTransfer().                           *)

ReadConfig ==
  /\ pc = "start" /\ pc' = "config"
  /\ \E n \in Scripts : Execute([fds |-> {0, 1}, in |-> n, second |-> {"fail"}])
  /\ UNCHANGED <<urls, i, point, disk, ftp>>

\* The status of the shell is not looked at, and 0 would not say that it came to
\* the end of the script. Variables it did not print keep their defaults, so the
\* dump may go to the local disk; a torn line without = throws.
ConfigRead ==
  /\ pc = "config" /\ ppc \in {"returned", "thrown"}
  /\ pc' \in IF ppc = "thrown" THEN {"failed"} ELSE {"transfer", "local", "failed"}
  /\ UNCHANGED <<pvars, urls, i, point, disk, ftp>>

\* The targets are in KDUMP_SAVEDIR. Whether the host is routable is only worth a
\* warning. Each curl_easy_setopt() may throw.
MakeTransfer ==
  /\ pc = "transfer"
  /\ urls' \in Targets /\ placed' = [u \in DOMAIN urls' |-> <<"nowhere">>]
  /\ pc' \in IF urls'[1].proto = "ftp" THEN {"open", "failed"} ELSE {"translate"}
  /\ UNCHANGED <<pvars, i, point, mounts, astray, refused, ftp>>

-----------------------------------------------------------------------------
(* NFSTransfer and CIFSTransfer. An exception of the constructor is the    *)
(* end, without the destructor.                                            *)

Mount == [fds |-> {2}, in |-> 0, second |-> {"fail"}]
Umount == [fds |-> {2}, in |-> 0, second |-> {"ok", "fail"}]

\* NFS sets m_mountpoint and makes the directory before it mounts.
Translate ==
  /\ pc = "translate" /\ i <= Len(urls)
  /\ UNCHANGED <<urls, i, disk, ftp>>
  /\ \/ /\ Proto = "cifs" => urls[i].slash
        /\ pc' = "mounting" /\ Execute(Mount)
     \/ /\ Proto = "nfs" \/ ~urls[i].slash
        /\ pc' = "failed" /\ UNCHANGED pvars
  /\ point' = IF Proto = "nfs" THEN PointOf(urls[i]) ELSE point

\* altered: the value of execute() is ignored
MountedUnchecked ==
  /\ pc = "mounting" /\ ppc \in {"returned", "thrown"}
  /\ IF ppc = "returned"
       THEN pc' = "translate" /\ i' = i + 1 /\ point' = PointOf(urls[i])
       ELSE pc' = "failed" /\ UNCHANGED <<i, point>>
  /\ UNCHANGED <<pvars, urls, disk, ftp>>

Mounted ==
  /\ pc = "mounting" /\ ppc \in {"returned", "thrown"}
  /\ IF ppc = "returned" /\ Answer = "ok"
       THEN pc' = "translate" /\ i' = i + 1 /\ point' = PointOf(urls[i])
       ELSE pc' = "failed" /\ UNCHANGED <<i, point>>
  /\ UNCHANGED <<pvars, urls, disk, ftp>>

\* new FileTransfer makes the directory of every URL, or throws.
MakeDirs ==
  /\ pc = "translate" /\ i > Len(urls)
  /\ pc' \in {"save", "failed"}
  /\ UNCHANGED <<pvars, urls, i, point, disk, ftp>>

\* What is mounted last at a place, or above it, hides what was there before.
Newest(p) == SelectLastInSeq(mounts, LAMBDA mt : IsPrefix(mt.at, p))
At(p) == IF Newest(p) = 0 THEN <<"ramdisk">> ELSE mounts[Newest(p)].share

\* FileTransfer::perform() with a part of the dump for every URL.
Save ==
  /\ pc = "save" /\ pc' = "destroy"
  /\ \/ placed' = [u \in DOMAIN urls |-> At(PointOf(urls[u]))]
     \/ UNCHANGED placed
  /\ UNCHANGED <<pvars, urls, i, point, mounts, astray, refused, ftp>>

\* altered: without a destructor, nobody calls close()
DestroyOpen ==
  /\ pc = "destroy" /\ pc' = "ended"
  /\ UNCHANGED <<pvars, urls, i, point, disk, ftp>>

\* close() in the destructor.
Destroy ==
  /\ pc = "destroy"
  /\ IF point = <<>> THEN pc' = "ended" /\ UNCHANGED pvars
                   ELSE pc' = "unmounting" /\ Execute(Umount)
  /\ UNCHANGED <<urls, i, point, disk, ftp>>

\* The destructor only logs that umount failed.
Unmounted ==
  /\ pc = "unmounting" /\ ppc \in {"returned", "thrown"} /\ pc' = "ended"
  /\ IF ppc = "returned" /\ Answer = "ok"
       THEN point' = <<>> /\ UNCHANGED refused
       ELSE refused' = TRUE /\ UNCHANGED point
  /\ UNCHANGED <<pvars, urls, i, mounts, astray, placed, ftp>>

-----------------------------------------------------------------------------
(* FTPTransfer::perform(), once for each file.                             *)

\* A perform() that throws ends the program or, with KDUMP_CONTINUE_ON_ERROR,
\* only the file.
NextFile(outcome) ==
  /\ pc' \in {IF i < Len(Files) THEN "open" ELSE "ended"}
             \union (IF outcome = "error" THEN {"failed"} ELSE {})
  /\ i' = i + 1 /\ given' = 0 /\ source' = "good" /\ provider' = "closed"
  /\ saved' = Append(saved, [outcome |-> outcome, given |-> given])

\* open(): an exception here is outside of the try block.
Open ==
  /\ pc = "open"
  /\ \/ pc' = "prepare" /\ UNCHANGED <<i, given, source, provider, saved>>
     \/ NextFile("error")
  /\ UNCHANGED <<pvars, urls, point, disk, curl>>

\* popen() or fopen(); a BufferDataProvider has nothing to open.
Prepare ==
  /\ pc = "prepare"
  /\ \/ pc' = "perform" /\ provider' = "open"
     \/ Kind # "buffer" /\ pc' = "catch" /\ UNCHANGED provider
  /\ UNCHANGED <<pvars, urls, i, point, disk, given, source, saved, curl>>

\* curl_readfunction: a full buffer, or an exception, which unwinds libcurl.
Callback ==
  /\ pc = "perform"
  /\ \/ given < Blocks /\ given' = given + 1 /\ UNCHANGED <<pc, curl>>
     \/ Kind # "buffer" /\ pc' = "catch" /\ curl' = "torn" /\ UNCHANGED given
  /\ UNCHANGED <<pvars, urls, i, point, disk, source, provider, saved>>

\* The callback returns 0. makedumpfile may have failed, or been killed.
DataEnds ==
  /\ pc = "perform"
  /\ \/ given = Blocks /\ UNCHANGED source
     \/ Kind = "process" /\ source' \in {"failed", "signal"}
  /\ pc' = "finish"
  /\ UNCHANGED <<pvars, urls, i, point, disk, given, provider, saved, curl>>

\* curl_easy_perform() reports an error: no connection, disk full, or a handle
\* whose last transfer was unwound.
CurlFails ==
  /\ pc = "perform" /\ pc' = "catch"
  /\ UNCHANGED <<pvars, urls, i, point, disk, ftp>>

\* altered: the status of makedumpfile is not looked at
FinishUnchecked ==
  /\ pc = "finish" /\ NextFile(source)
  /\ UNCHANGED <<pvars, urls, point, disk, curl>>

\* pclose() tells how the process ended; the other providers cannot fail.
Finish ==
  /\ pc = "finish"
  /\ IF source = "failed"
       THEN pc' = "catch" /\ provider' = "closed" /\ UNCHANGED <<i, given, source, saved>>
       ELSE NextFile(source)
  /\ UNCHANGED <<pvars, urls, point, disk, curl>>

\* The catch block finishes the provider whatever was thrown. A process that was
\* never started, or closed before, is a null pointer for pclose().
Catch ==
  /\ pc = "catch"
  /\ IF Kind = "process" /\ provider = "closed"
       THEN pc' = "dead" /\ UNCHANGED <<i, given, source, provider, saved>>
       ELSE NextFile("error")
  /\ UNCHANGED <<pvars, urls, point, disk, curl>>

-----------------------------------------------------------------------------
(* ProcessFilter at work; what the commands do.                            *)

Filtering ==
  /\ pc \in Helper /\ ParentStep
  /\ UNCHANGED <<tool, disk, ftp>>

\* A command that is killed has done its work or not, and execute() returns 0.
\* The second kdumptool does not.
Acts ==
  IF pc = "mounting"
    THEN mounts' = Append(mounts, [at |-> PointOf(urls[i]), share |-> urls[i].share])
    ELSE /\ Newest(point) # 0 /\ mounts[Newest(point)].at = point
         /\ mounts' = RemoveAt(mounts, Newest(point))

Commanding ==
  /\ pc \in Helper
  /\ \/ /\ Exec \/ Reads \/ Writes \/ Reports \/ Fails
        /\ UNCHANGED <<mounts, astray>>
     \/ pc = "config" /\ Quits /\ UNCHANGED <<mounts, astray>>
     \/ Succeeds /\ UNCHANGED astray
        /\ IF pc = "config" THEN UNCHANGED mounts ELSE Acts
     \/ Killed /\ pc # "config" /\ child = "run" /\ Acts /\ UNCHANGED astray
     \/ (Killed \/ SecondEnds) /\ UNCHANGED mounts
        /\ astray' = (astray \/ (pc # "config" /\ estat' # "fail"))
  /\ UNCHANGED <<tool, placed, refused, ftp>>

Stopped == (pc \in Ended \/ ppc = "killed") /\ UNCHANGED vars

Kdumptool ==
  \/ ReadConfig \/ ConfigRead \/ MakeTransfer
  \/ Translate \/ Mounted \/ MakeDirs \/ Save \/ Destroy \/ Unmounted
  \/ Open \/ Prepare \/ Callback \/ DataEnds \/ CurlFails \/ Finish \/ Catch
  \/ Filtering

Next == Kdumptool \/ Commanding \/ Stopped

Spec == Init /\ [][Next]_vars

\* kdumptool runs, the data for curl ends, and a command that can go on does so; none
\* has to be killed.
FairSpec ==
  /\ Spec
  /\ WF_vars(Kdumptool)
  /\ WF_vars(/\ Commanding
             /\ Exec \/ Reads \/ Writes \/ Succeeds \/ SecondEnds \/ (Fails /\ cmd.in = 0))

-----------------------------------------------------------------------------
(* Properties                                                              *)

\* What is written for a target is on the share that the target names, unless a
\* mount was killed without its failure being seen or the mount of a later target
\* hides the share: any other with CIFS, and with NFS that of a directory above
\* it, which may or may not be the same place on the server (transfer.cc:427-435,
\* 454-461, 500-539).
PlacedWhereConfigured ==
  \A u \in DOMAIN urls :
    placed[u] \notin {<<"nowhere">>, urls[u].share} =>
      \/ astray
      \/ \E v \in DOMAIN urls :
           /\ v > u /\ IsPrefix(PointOf(urls[v]), PointOf(urls[u]))
           /\ placed[u] = urls[v].share

\* When kdumptool ends, nothing is mounted that it mounted, unless there was more
\* than one target, umount failed or was killed, or the constructor threw after
\* the mount (transfer.cc:427-435, 467-494).
LeftMountsHaveCause ==
  pc = "ended" /\ mounts # <<>> => Len(urls) > 1 \/ astray \/ refused

\* A file of an FTP upload counts as saved only if the server was given all of it,
\* or makedumpfile was killed by a signal, which no status tells; after any other
\* failure of makedumpfile the file does not count (transfer.cc:376-389).
FtpSavedIsWhole ==
  \A k \in DOMAIN saved :
    /\ saved[k].outcome \in {"good", "signal", "error"}
    /\ saved[k].outcome = "good" => saved[k].given = Blocks

\* kdumptool comes to an end, whatever the commands do, unless the script for the
\* shell fills a pipe. Then two things can stop it: it sleeps in write() while
\* the shell sleeps in a write() of its own that only kdumptool could end
\* (process.cc:313), or poll() reports nothing but POLLERR, which handleEvents()
\* ignores, and the loop spins (process.cc:304, 435-439).
EndsUnlessLong ==
  <>(pc \in Ended \/ ppc = "killed" \/ cmd.in >= PipeSize)
=============================================================================
