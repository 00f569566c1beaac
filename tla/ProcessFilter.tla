---------------------------- MODULE ProcessFilter ----------------------------
(***************************************************************************)
(* ProcessFilter::execute() with SubProcess, its pipes and MultiplexIO: a  *)
(* command runs with some of its descriptors 0, 1 and 2 redirected to      *)
(* pipes, and kdumptool polls, feeds the input and collects the output     *)
(* until every pipe is closed; then it waits for the command. The pipes    *)
(* block: write() does not return before the whole buffer is in the pipe.  *)
(* Sizes count pages, the granularity in which poll() sees room in a pipe. *)
(***************************************************************************)
EXTENDS Naturals

CONSTANTS
  PipeSize,   \* capacity of a pipe, 16 pages on Linux
  BufSize,    \* IStream::buf and OStream::buf, 2 pages
  MaxReport,  \* messages of a command on its standard error
  MaxOwed     \* output for one page of input

ASSUME FilterAssumption ==
  PipeSize \in Nat \ {0} /\ BufSize \in Nat \ {0} /\ MaxReport \in Nat
  /\ MaxOwed \in Nat

VARIABLES
  cmd,      \* the command: its redirected descriptors and length of its input
  ppc,      \* the step of execute()
  todo,     \* descriptors whose handleEvents() is still to be called
  revents,  \* what poll() returned
  open,     \* descriptors of which kdumptool holds its end of the pipe
  src,      \* input that is still in the istream
  buf,      \* input in IStream::buf that is not written
  eof,      \* m_input->eof()
  got,      \* output written to the ostream
  sigpipe,  \* TRUE iff SIGPIPE kills kdumptool; systemd starts it ignoring that
  pipe,     \* pages in each pipe
  child,    \* the child process
  cends,    \* descriptors of which the child holds its end of the pipe
  owed,     \* output the command writes before it reads again
  made,     \* output the command has written
  estat     \* how the child ended

parent  == <<cmd, ppc, todo, revents, open, src, buf, eof, got, sigpipe>>
command == <<child, cends, owed, made, estat>>
pvars   == <<parent, pipe, command>>

Fds == 0..2
Outs == 1..2
Over == {"idle", "returned", "thrown"}
Running == {"start", "run", "second"}

NoCommand == [fds |-> {}, in |-> 0, second |-> {"fail"}]

FltInit ==
  /\ cmd = NoCommand /\ ppc = "idle" /\ todo = {}
  /\ revents = [f \in Fds |-> {}] /\ open = {}
  /\ src = 0 /\ buf = 0 /\ eof = FALSE /\ got = [o \in Outs |-> 0]
  /\ sigpipe \in BOOLEAN /\ pipe = [f \in Fds |-> 0]
  /\ child = "none" /\ cends = {} /\ owed = 0 /\ made = [o \in Outs |-> 0]
  /\ estat = "none"

-----------------------------------------------------------------------------
(* kdumptool                                                               *)

\* A new ProcessFilter with its streams, and the call.
Execute(c) ==
  /\ ppc \in Over
  /\ cmd' = c /\ ppc' = "spawn" /\ todo' = {}
  /\ revents' = [f \in Fds |-> {}] /\ open' = {}
  /\ src' = c.in /\ buf' = 0 /\ eof' = FALSE /\ got' = [o \in Outs |-> 0]
  /\ pipe' = [f \in Fds |-> 0]
  /\ child' = "none" /\ cends' = {} /\ owed' = 0 /\ made' = [o \in Outs |-> 0]
  /\ estat' = "none" /\ UNCHANGED sigpipe

\* pipe2() for every descriptor, fork(), and each side closes the other's end.
Spawn ==
  /\ ppc = "spawn"
  /\ ppc' = "poll" /\ open' = cmd.fds
  /\ child' = "start" /\ cends' = cmd.fds /\ estat' = "no"
  /\ UNCHANGED <<cmd, todo, revents, src, buf, eof, got, sigpipe, pipe, owed, made>>

SpawnFails ==
  /\ ppc = "spawn" /\ ppc' = "thrown"
  /\ UNCHANGED <<cmd, todo, revents, open, src, buf, eof, got, sigpipe, pipe, command>>

\* A descriptor that was deactivated is -1 in the array and has no events.
Events(f) ==
  {e \in {"OUT", "ERR", "IN", "HUP"} :
     /\ f \in open
     /\ \/ e = "OUT" /\ f = 0 /\ pipe[f] < PipeSize
        \/ e = "ERR" /\ f = 0 /\ f \notin cends
        \/ e = "IN"  /\ f # 0 /\ pipe[f] > 0
        \/ e = "HUP" /\ f # 0 /\ f \notin cends}

Poll ==
  /\ ppc = "poll" /\ open # {}
  /\ \E f \in open : Events(f) # {}
  /\ revents' = [f \in Fds |-> Events(f)]
  /\ todo' = cmd.fds /\ ppc' = "handle"
  /\ UNCHANGED <<cmd, open, src, buf, eof, got, sigpipe, pipe, command>>

\* The descriptors are handled in the order of m_iomap.
First(f) == f \in todo /\ \A g \in todo : f <= g

Handled(f) ==
  /\ todo' = todo \ {f}
  /\ ppc' = IF todo = {f} THEN "poll" ELSE "handle"

NoEvent(f) ==
  /\ ppc = "handle" /\ First(f)
  /\ IF f = 0 THEN "OUT" \notin revents[f] ELSE revents[f] = {}
  /\ Handled(f)
  /\ UNCHANGED <<cmd, revents, open, src, buf, eof, got, sigpipe, pipe, command>>

Chunk(n) == IF n < BufSize THEN n ELSE BufSize

\* istream::read() meets the end iff it gets less than it asked for. A write()
\* that returns has written everything, so the buffer is empty here.
Refill ==
  /\ ppc = "handle" /\ First(0) /\ "OUT" \in revents[0]
  /\ buf' = Chunk(src) /\ src' = src - Chunk(src) /\ eof' = (src < BufSize)
  /\ ppc' = "write"
  /\ UNCHANGED <<cmd, todo, revents, open, got, sigpipe, pipe, command>>

InputBad ==
  /\ ppc = "handle" /\ First(0) /\ "OUT" \in revents[0]
  /\ ppc' = "unwind"
  /\ UNCHANGED <<cmd, todo, revents, open, src, buf, eof, got, sigpipe, pipe, command>>

\* write() copies what fits, and sleeps while the pipe is full.
Write ==
  /\ ppc = "write" /\ buf > 0 /\ 0 \in cends
  /\ \E n \in 1..buf :
       /\ n <= PipeSize - pipe[0] /\ (n = buf \/ n = PipeSize - pipe[0])
       /\ pipe' = [pipe EXCEPT ![0] = @ + n] /\ buf' = buf - n
  /\ UNCHANGED <<cmd, ppc, todo, revents, open, src, eof, got, sigpipe, command>>

\* altered: the pipe stays open when the input is over
WrittenOpen ==
  /\ ppc = "write" /\ buf = 0
  /\ Handled(0)
  /\ UNCHANGED <<cmd, revents, open, src, buf, eof, got, sigpipe, pipe, command>>

Written ==
  /\ ppc = "write" /\ buf = 0
  /\ open' = IF eof THEN open \ {0} ELSE open
  /\ Handled(0)
  /\ UNCHANGED <<cmd, revents, src, buf, eof, got, sigpipe, pipe, command>>

\* Nobody is left who could read.
BrokenPipe ==
  /\ ppc = "write" /\ buf > 0 /\ 0 \notin cends
  /\ ppc' = IF sigpipe THEN "killed" ELSE "unwind"
  /\ UNCHANGED <<cmd, todo, revents, open, src, buf, eof, got, sigpipe, pipe, command>>

\* altered: the end of the output is taken for granted when the writer is gone
CollectHup(f) ==
  /\ ppc = "handle" /\ First(f) /\ f # 0 /\ revents[f] # {}
  /\ IF "HUP" \notin revents[f]
       THEN /\ got' = [got EXCEPT ![f] = @ + Chunk(pipe[f])]
            /\ pipe' = [pipe EXCEPT ![f] = @ - Chunk(pipe[f])] /\ UNCHANGED open
       ELSE open' = open \ {f} /\ UNCHANGED <<got, pipe>>
  /\ Handled(f)
  /\ UNCHANGED <<cmd, revents, src, buf, eof, sigpipe, command>>

\* With data and a hangup at once, the data comes first; the pipe is closed in a
\* later round, when poll() reports nothing but the hangup.
Collect(f) ==
  /\ ppc = "handle" /\ First(f) /\ f # 0 /\ revents[f] # {}
  /\ IF "IN" \in revents[f]
       THEN /\ got' = [got EXCEPT ![f] = @ + Chunk(pipe[f])]
            /\ pipe' = [pipe EXCEPT ![f] = @ - Chunk(pipe[f])] /\ UNCHANGED open
       ELSE open' = open \ {f} /\ UNCHANGED <<got, pipe>>
  /\ Handled(f)
  /\ UNCHANGED <<cmd, revents, src, buf, eof, sigpipe, command>>

\* io.active() is 0.
EndLoop ==
  /\ ppc = "poll" /\ open = {} /\ ppc' = "wait"
  /\ UNCHANGED <<cmd, todo, revents, open, src, buf, eof, got, sigpipe, pipe, command>>

\* waitpid() returns the status of the child, and the value is WEXITSTATUS of it.
Wait ==
  /\ ppc = "wait" /\ child = "zombie"
  /\ ppc' = "returned" /\ child' = "none"
  /\ UNCHANGED <<cmd, todo, revents, open, src, buf, eof, got, sigpipe, pipe,
                 cends, owed, made, estat>>

\* ~SubProcess after an exception: SIGKILL, and wait() for the child; then the
\* pipes are destroyed.
Unwind ==
  /\ ppc = "unwind"
  /\ IF child = "zombie"
       THEN ppc' = "thrown" /\ child' = "none" /\ open' = {} /\ UNCHANGED <<cends, estat>>
       ELSE /\ child' = "zombie" /\ estat' = "signal" /\ cends' = {}
            /\ UNCHANGED <<ppc, open>>
  /\ UNCHANGED <<cmd, todo, revents, src, buf, eof, got, sigpipe, pipe, owed, made>>

ParentStep ==
  \/ Spawn \/ SpawnFails \/ Poll \/ Refill \/ InputBad \/ Write \/ Written
  \/ BrokenPipe \/ EndLoop \/ Wait \/ Unwind
  \/ \E f \in Fds : NoEvent(f) \/ Collect(f)

-----------------------------------------------------------------------------
(* The command.                                                            *)

\* When execvp() fails, the child throws through the catch blocks of the caller:
\* a second kdumptool, whose end the command's record tells.
Exec ==
  /\ child = "start" /\ child' \in {"run", "second"}
  /\ UNCHANGED <<parent, pipe, cends, owed, made, estat>>

Reads ==
  /\ child = "run" /\ 0 \in cends /\ owed = 0 /\ pipe[0] > 0
  /\ pipe' = [pipe EXCEPT ![0] = @ - 1]
  /\ owed' \in (IF 1 \in cends THEN 0..MaxOwed ELSE {0})
  /\ UNCHANGED <<parent, child, cends, made, estat>>

Writes ==
  /\ child = "run" /\ owed > 0 /\ pipe[1] < PipeSize
  /\ pipe' = [pipe EXCEPT ![1] = @ + 1] /\ owed' = owed - 1
  /\ made' = [made EXCEPT ![1] = @ + 1]
  /\ UNCHANGED <<parent, child, cends, estat>>

Reports ==
  /\ child \in {"run", "second"} /\ 2 \in cends
  /\ made[2] < MaxReport /\ pipe[2] < PipeSize
  /\ pipe' = [pipe EXCEPT ![2] = @ + 1] /\ made' = [made EXCEPT ![2] = @ + 1]
  /\ UNCHANGED <<parent, child, cends, owed, estat>>

Exit(s) ==
  /\ child' = "zombie" /\ cends' = {} /\ owed' = 0 /\ estat' = s
  /\ UNCHANGED <<parent, pipe, made>>

InputOver == 0 \in cends => pipe[0] = 0 /\ 0 \notin open

Succeeds == child = "run" /\ owed = 0 /\ InputOver /\ Exit("ok")
\* A shell script may say "exit 0" before its end.
Quits == child = "run" /\ owed = 0 /\ ~InputOver /\ Exit("ok")
Fails == child = "run" /\ owed = 0 /\ Exit("fail")
Killed == child \in Running /\ Exit("signal")
SecondEnds == child = "second" /\ \E s \in cmd.second : Exit(s)

CommandStep ==
  \/ Exec \/ Reads \/ Writes \/ Reports \/ Succeeds \/ Quits \/ Fails \/ Killed
  \/ SecondEnds

-----------------------------------------------------------------------------
(* Any caller: a call with some command, as often as it likes. A module    *)
(* that models a caller has a next-state relation of its own.              *)

\* Without a pipe for it, there is no input.
Commands ==
  {c \in [fds : SUBSET Fds, in : Nat, second : SUBSET {"ok", "fail"}] :
     0 \notin c.fds => c.in = 0}

PNext == (\E c \in Commands : Execute(c)) \/ ParentStep \/ CommandStep

PSpec == FltInit /\ [][PNext]_pvars

-----------------------------------------------------------------------------
(* What the caller sees.                                                   *)

Answer == IF estat = "fail" THEN "fail" ELSE "ok"

Phase ==
  IF ppc = "returned" THEN Answer ELSE IF ppc \in {"idle", "thrown"} THEN ppc ELSE "running"

F == INSTANCE Filter WITH phase <- Phase, left <- src + buf, ended <- estat

\* execute() keeps what Filter promises: it returns only when all input was
\* handed over and all output collected and the child is reaped; exceptions too
\* leave no child (process.cc:426-446, 54-60).
KeepsFilter == F!FilterSpec

=============================================================================
