----------------------- MODULE RemoteTransfersProofs -----------------------
(***************************************************************************)
(* First, ProcessFilter implements Filter, for pipes and buffers of any    *)
(* size and a caller that executes any commands. Filter returns only when  *)
(* nothing is left in a pipe; that kdumptool knows this from what poll()   *)
(* said some steps before is what the invariant is about.                  *)
(*                                                                         *)
(* Then, what RemoteTransfers does with its commands is a use of           *)
(* ProcessFilter, so that the invariant and the refinement hold for it. On *)
(* them rests what becomes of the mounts: while no command went astray,    *)
(* the mount table is a stack of the first targets, in their order.        *)
(***************************************************************************)
EXTENDS RemoteTransfers, FiniteSetTheorems, SequenceTheorems, TLAPS

-----------------------------------------------------------------------------
(* ProcessFilter, whoever calls it.                                        *)

Active == {"poll", "handle", "write", "wait"}
Gone == {"ok", "fail", "signal"}

Types ==
  /\ cmd \in Commands
  /\ ppc \in Over \cup Active \cup {"spawn", "unwind", "killed"}
  /\ todo \in SUBSET Fds /\ open \in SUBSET Fds /\ cends \in SUBSET Fds
  /\ revents \in [Fds -> SUBSET {"OUT", "ERR", "IN", "HUP"}]
  /\ src \in Nat /\ buf \in Nat /\ owed \in Nat
  /\ eof \in BOOLEAN /\ sigpipe \in BOOLEAN
  /\ got \in [Outs -> Nat] /\ made \in [Outs -> Nat] /\ pipe \in [Fds -> Nat]
  /\ child \in Running \cup {"none", "zombie"}
  /\ estat \in Gone \cup {"none", "no"}

\* The child lives from Spawn until it ends, and is reaped after that.
ChildInv ==
  /\ child \in Running <=> estat = "no"
  /\ ppc \in Active \cup {"unwind"} => child # "none"
  /\ ppc \in Over \cup {"spawn"} => child \notin Running
  /\ ppc = "spawn" => estat = "none" /\ owed = 0
  /\ child = "zombie" => estat \in Gone
  /\ child \in Running /\ owed > 0 => 1 \in cends

\* The pipe for the input is closed only after its end was written.
InputInv ==
  /\ eof => src = 0
  /\ ppc = "spawn" => src = cmd.in
  /\ ppc \in {"idle", "spawn", "poll", "handle", "wait"} => buf = 0
  /\ ppc \in Active /\ 0 \notin open => src = 0 /\ buf = 0

\* A pipe that was closed is empty and will stay so, and what poll() said of a
\* pipe is still true when the pipe's turn comes.
Counted(o) == made[o] = got[o] + pipe[o]
Closed(o) == ppc \in Active /\ o \notin open => pipe[o] = 0 /\ o \notin cends
Told(o) ==
  ppc \in {"handle", "write"} /\ o \in todo =>
    /\ "IN" \in revents[o] => pipe[o] > 0
    /\ revents[o] # {} /\ "IN" \notin revents[o] => pipe[o] = 0 /\ o \notin cends

OutputInv ==
  /\ ppc = "spawn" => pipe = [f \in Fds |-> 0]
  /\ ppc = "wait" => open = {}
  /\ \A o \in Outs : Counted(o) /\ Closed(o) /\ Told(o)

PInv == Types /\ ChildInv /\ InputInv /\ OutputInv

-----------------------------------------------------------------------------
\* A command has its descriptors among three, and input only through a pipe.
LEMMA CommandFits ==
  ASSUME NEW c \in Commands
  PROVE  /\ c.fds \in SUBSET Fds /\ c.in \in Nat
         /\ c.second \subseteq {"ok", "fail"}
         /\ 0 \notin c.fds => c.in = 0
BY DEF Commands

\* The two descriptors for output are not the one for input.
LEMMA OutputFds ==
  /\ Outs \subseteq Fds /\ 0 \in Fds /\ 0 \notin Outs
  /\ 1 \in Outs /\ 2 \in Outs /\ \A o \in Outs : o = 1 \/ o = 2
  /\ \A f \in Fds : f = 0 \/ f \in Outs
BY DEF Outs, Fds

\* Amounts in the pipes and streams for output are numbers.
LEMMA Sizes ==
  ASSUME Types, NEW o \in Outs
  PROVE  got[o] \in Nat /\ made[o] \in Nat /\ pipe[o] \in Nat
BY OutputFds DEF Types

\* poll() reports nothing but events.
LEMMA EventsAreEvents ==
  ASSUME NEW f \in Fds
  PROVE  Events(f) \in SUBSET {"OUT", "ERR", "IN", "HUP"}
BY DEF Events

\* What poll() reports of a pipe for output.
LEMMA EventsOfOutput ==
  ASSUME Types, NEW o \in Outs
  PROVE  /\ "IN" \in Events(o) <=> o \in open /\ pipe[o] > 0
         /\ Events(o) # {} /\ "IN" \notin Events(o) => pipe[o] = 0 /\ o \notin cends
BY DEF Events, Types, Outs, Fds

\* A buffer is never longer than what it is filled from, and not empty for nothing.
LEMMA ChunkFits ==
  ASSUME NEW n \in Nat
  PROVE  /\ Chunk(n) \in Nat /\ Chunk(n) <= n /\ n - Chunk(n) \in Nat
         /\ n > 0 => Chunk(n) > 0
         /\ n < BufSize => Chunk(n) = n
BY FilterAssumption DEF Chunk

\* Before the first call nothing runs.
LEMMA InitPInv == FltInit => PInv
<1> SUFFICES ASSUME FltInit PROVE PInv
  OBVIOUS
<1> USE DEF FltInit
<1>1. Types
  BY DEF Types, NoCommand, Commands, Fds, Outs, Over, Active, Gone, Running
<1>2. ChildInv
  BY DEF ChildInv, Over, Active, Running, Gone
<1>3. InputInv
  BY DEF InputInv, Active
<1>4. OutputInv
  BY DEF OutputInv, Counted, Closed, Told, Active, Outs, Fds
<1> QED
  BY <1>1, <1>2, <1>3, <1>4 DEF PInv

\* Every step keeps the types.
LEMMA TypesStep ==
  ASSUME PInv, [PNext]_pvars
  PROVE  Types'
<1> USE OutputFds, ChunkFits, CommandFits, EventsAreEvents DEF PInv, Types, parent, command, Over, Active, Gone, Running
<1>1. CASE \E c \in Commands : Execute(c)
  <2>1. PICK c \in Commands : Execute(c)
    BY <1>1
  <2>2. cmd' \in Commands /\ src' \in Nat
    BY <2>1, CommandFits DEF Execute
  <2> QED
    BY <2>1, <2>2 DEF Execute
<1>2. CASE Spawn
  BY <1>2 DEF Spawn
<1>3. CASE SpawnFails
  BY <1>3 DEF SpawnFails
<1>4. CASE Poll
  BY <1>4 DEF Poll
<1>5. CASE Refill
  BY <1>5 DEF Refill, First
<1>6. CASE InputBad
  BY <1>6 DEF InputBad
<1>7. CASE Write
  BY <1>7 DEF Write
<1>8. CASE Written
  BY <1>8 DEF Written, Handled
<1>9. CASE BrokenPipe
  BY <1>9 DEF BrokenPipe
<1>10. CASE EndLoop
  BY <1>10 DEF EndLoop
<1>11. CASE Wait
  BY <1>11 DEF Wait
<1>12. CASE Unwind
  BY <1>12 DEF Unwind
<1>13. CASE \E f \in Fds : NoEvent(f)
  BY <1>13 DEF NoEvent, First, Handled
<1>14. CASE \E f \in Fds : Collect(f)
  <2>1. PICK f \in Fds : Collect(f)
    BY <1>14
  <2>2. f \in Outs /\ pipe[f] \in Nat /\ Chunk(pipe[f]) \in Nat /\ pipe[f] - Chunk(pipe[f]) \in Nat
    BY <2>1, ChunkFits DEF Collect
  <2>3. got' \in [Outs -> Nat]
    BY <2>1, <2>2 DEF Collect
  <2>4. pipe' \in [Fds -> Nat]
    BY <2>1, <2>2 DEF Collect
  <2>5. open' \in SUBSET Fds
    BY <2>1 DEF Collect
  <2> QED
    BY <2>1, <2>3, <2>4, <2>5 DEF Collect, Handled
<1>15. CASE Exec
  BY <1>15 DEF Exec
<1>16. CASE Reads
  BY <1>16 DEF Reads
<1>17. CASE Writes
  BY <1>17 DEF Writes
<1>18. CASE Reports
  BY <1>18 DEF Reports
<1>19. CASE Succeeds \/ Quits
  BY <1>19 DEF Succeeds, Quits, Exit, InputOver
<1>20. CASE Fails
  BY <1>20 DEF Fails, Exit, InputOver
<1>21. CASE Killed
  BY <1>21 DEF Killed, Exit, InputOver
<1>22. CASE SecondEnds
  BY <1>22 DEF SecondEnds, Exit, InputOver
<1>23. CASE UNCHANGED pvars
  BY <1>23 DEF pvars
<1> QED
  BY <1>1, <1>2, <1>3, <1>4, <1>5, <1>6, <1>7, <1>8, <1>9, <1>10, <1>11, <1>12, <1>13, <1>14, <1>15, <1>16, <1>17, <1>18, <1>19, <1>20, <1>21, <1>22, <1>23 DEF PNext, ParentStep, CommandStep

\* Every step keeps what is known of the child.
LEMMA ChildStep ==
  ASSUME PInv, [PNext]_pvars
  PROVE  ChildInv'
<1> USE CommandFits DEF PInv, Types, ChildInv, parent, command, Over, Active, Gone, Running, Fds
<1>1. CASE \E c \in Commands : Execute(c)
  BY <1>1 DEF Execute
<1>2. CASE Spawn
  <2>1. child' = "start" /\ estat' = "no" /\ ppc' = "poll" /\ owed' = owed
    BY <1>2 DEF Spawn
  <2> QED
    BY <1>2, <2>1 DEF Spawn
<1>3. CASE SpawnFails
  BY <1>3 DEF SpawnFails
<1>4. CASE Poll
  BY <1>4 DEF Poll
<1>5. CASE Refill
  BY <1>5 DEF Refill, First
<1>6. CASE InputBad
  BY <1>6 DEF InputBad
<1>7. CASE Write
  BY <1>7 DEF Write
<1>8. CASE Written
  BY <1>8 DEF Written, Handled
<1>9. CASE BrokenPipe
  BY <1>9 DEF BrokenPipe
<1>10. CASE EndLoop
  BY <1>10 DEF EndLoop
<1>11. CASE Wait
  BY <1>11 DEF Wait
<1>12. CASE Unwind
  BY <1>12 DEF Unwind
<1>13. CASE \E f \in Fds : NoEvent(f)
  BY <1>13 DEF NoEvent, First, Handled
<1>14. CASE \E f \in Fds : Collect(f)
  BY <1>14 DEF Collect, First, Handled
<1>15. CASE Exec
  BY <1>15 DEF Exec
<1>16. CASE Reads
  BY <1>16 DEF Reads
<1>17. CASE Writes
  BY <1>17 DEF Writes
<1>18. CASE Reports
  BY <1>18 DEF Reports
<1>19. CASE Succeeds \/ Quits
  BY <1>19 DEF Succeeds, Quits, Exit, InputOver
<1>20. CASE Fails
  BY <1>20 DEF Fails, Exit, InputOver
<1>21. CASE Killed
  BY <1>21 DEF Killed, Exit, InputOver
<1>22. CASE SecondEnds
  BY <1>22 DEF SecondEnds, Exit, InputOver
<1>23. CASE UNCHANGED pvars
  BY <1>23 DEF pvars
<1> QED
  BY <1>1, <1>2, <1>3, <1>4, <1>5, <1>6, <1>7, <1>8, <1>9, <1>10, <1>11, <1>12, <1>13, <1>14, <1>15, <1>16, <1>17, <1>18, <1>19, <1>20, <1>21, <1>22, <1>23 DEF PNext, ParentStep, CommandStep

\* Every step keeps what is known of the input.
LEMMA InputStep ==
  ASSUME PInv, [PNext]_pvars
  PROVE  InputInv'
<1> USE ChunkFits, CommandFits DEF PInv, Types, ChildInv, InputInv, parent, command, Over, Active, Running, Fds
<1>1. CASE \E c \in Commands : Execute(c)
  BY <1>1 DEF Execute
<1>2. CASE Spawn
  BY <1>2 DEF Spawn
<1>3. CASE SpawnFails
  BY <1>3 DEF SpawnFails
<1>4. CASE Poll
  BY <1>4 DEF Poll
<1>5. CASE Refill
  BY <1>5 DEF Refill, First
<1>6. CASE InputBad
  BY <1>6 DEF InputBad
<1>7. CASE Write
  BY <1>7 DEF Write
<1>8. CASE Written
  BY <1>8 DEF Written, Handled
<1>9. CASE BrokenPipe
  BY <1>9 DEF BrokenPipe
<1>10. CASE EndLoop
  BY <1>10 DEF EndLoop
<1>11. CASE Wait
  BY <1>11 DEF Wait
<1>12. CASE Unwind
  BY <1>12 DEF Unwind
<1>13. CASE \E f \in Fds : NoEvent(f)
  BY <1>13 DEF NoEvent, First, Handled
<1>14. CASE \E f \in Fds : Collect(f)
  BY <1>14 DEF Collect, First, Handled
<1>15. CASE Exec
  BY <1>15 DEF Exec
<1>16. CASE Reads
  BY <1>16 DEF Reads
<1>17. CASE Writes
  BY <1>17 DEF Writes
<1>18. CASE Reports
  BY <1>18 DEF Reports
<1>19. CASE Succeeds \/ Quits
  BY <1>19 DEF Succeeds, Quits, Exit
<1>20. CASE Fails
  BY <1>20 DEF Fails, Exit, InputOver
<1>21. CASE Killed
  BY <1>21 DEF Killed, Exit, InputOver
<1>22. CASE SecondEnds
  BY <1>22 DEF SecondEnds, Exit, InputOver
<1>23. CASE UNCHANGED pvars
  BY <1>23 DEF pvars
<1> QED
  BY <1>1, <1>2, <1>3, <1>4, <1>5, <1>6, <1>7, <1>8, <1>9, <1>10, <1>11, <1>12, <1>13, <1>14, <1>15, <1>16, <1>17, <1>18, <1>19, <1>20, <1>21, <1>22, <1>23 DEF PNext, ParentStep, CommandStep

\* Every step keeps what is known of the output.
LEMMA OutputStep ==
  ASSUME PInv, [PNext]_pvars
  PROVE  OutputInv'
<1> USE OutputFds, ChunkFits, CommandFits, EventsOfOutput DEF PInv, Types, ChildInv, OutputInv, Counted, Closed, Told, parent, command, Over, Active, Running
<1>1. CASE \E c \in Commands : Execute(c)
  BY <1>1 DEF Execute
<1>2. CASE Spawn
  BY <1>2 DEF Spawn
<1>3. CASE SpawnFails
  BY <1>3 DEF SpawnFails
<1>4. CASE Poll
  BY <1>4 DEF Poll
<1>5. CASE Refill
  BY <1>5 DEF Refill, First
<1>6. CASE InputBad
  BY <1>6 DEF InputBad
<1>7. CASE Write
  <2>1. \A o \in Outs : pipe'[o] = pipe[o]
    BY <1>7 DEF Write
  <2> QED
    BY <1>7, <2>1 DEF Write
<1>8. CASE Written
  <2>1. \A o \in Outs : (o \in open' <=> o \in open) /\ (o \in todo' => o \in todo)
    BY <1>8 DEF Written, Handled
  <2>2. ppc' \in {"poll", "handle"}
    BY <1>8 DEF Written, Handled
  <2> QED
    BY <1>8, <2>1, <2>2 DEF Written, Handled
<1>9. CASE BrokenPipe
  BY <1>9 DEF BrokenPipe
<1>10. CASE EndLoop
  BY <1>10 DEF EndLoop
<1>11. CASE Wait
  BY <1>11 DEF Wait
<1>12. CASE Unwind
  BY <1>12 DEF Unwind
<1>13. CASE \E f \in Fds : NoEvent(f)
  BY <1>13 DEF NoEvent, First, Handled
<1>14. CASE \E f \in Fds : Collect(f)
  <2>1. PICK f \in Fds : Collect(f)
    BY <1>14
  <2>2. f \in Outs /\ f \in todo /\ revents[f] # {} /\ ppc = "handle"
    BY <2>1 DEF Collect, First
  <2>3. /\ todo' = todo \ {f} /\ ppc' \in {"poll", "handle"}
        /\ UNCHANGED <<made, cends, revents>>
    BY <2>1 DEF Collect, Handled
  <2>4. CASE "IN" \in revents[f]
    <3>1. pipe[f] > 0 /\ Chunk(pipe[f]) \in Nat /\ pipe[f] - Chunk(pipe[f]) \in Nat
      BY <2>2, <2>4, ChunkFits
    <3>2. open' = open
      BY <2>1, <2>4 DEF Collect
    <3>3. \A o \in Outs : IF o = f THEN /\ got'[o] = got[o] + Chunk(pipe[f])
                                       /\ pipe'[o] = pipe[o] - Chunk(pipe[f])
                                  ELSE got'[o] = got[o] /\ pipe'[o] = pipe[o]
      BY <2>1, <2>2, <2>4 DEF Collect
    <3>4. ASSUME NEW o \in Outs PROVE Counted(o)' /\ Closed(o)' /\ Told(o)'
      <4>1. got[o] \in Nat /\ pipe[o] \in Nat /\ made[o] = got[o] + pipe[o]
        BY Sizes
      <4>2. CASE o = f
        BY <2>2, <2>3, <2>4, <3>1, <3>2, <3>3, <4>1, <4>2
      <4>3. CASE o # f
        BY <2>2, <2>3, <3>2, <3>3, <4>1, <4>3
      <4> QED
        BY <4>2, <4>3
    <3> QED
      BY <2>3, <3>2, <3>4
  <2>5. CASE "IN" \notin revents[f]
    <3>1. open' = open \ {f} /\ UNCHANGED <<got, pipe>>
      BY <2>1, <2>5 DEF Collect
    <3>2. pipe[f] = 0 /\ f \notin cends
      BY <2>2, <2>5
    <3> QED
      BY <2>2, <2>3, <3>1, <3>2
  <2> QED
    BY <2>4, <2>5
<1>15. CASE Exec
  BY <1>15 DEF Exec
<1>16. CASE Reads
  <2>1. \A o \in Outs : pipe'[o] = pipe[o]
    BY <1>16 DEF Reads
  <2> QED
    BY <1>16, <2>1 DEF Reads
<1>17. CASE Writes
  <2>1. 1 \in cends
    BY <1>17 DEF Writes
  <2>2. /\ pipe'[1] = pipe[1] + 1 /\ made'[1] = made[1] + 1
        /\ pipe'[2] = pipe[2] /\ made'[2] = made[2]
    BY <1>17 DEF Writes
  <2>3. ppc # "spawn" /\ UNCHANGED parent /\ UNCHANGED cends
    BY <1>17 DEF Writes
  <2>4. got[1] \in Nat /\ pipe[1] \in Nat /\ Counted(1) /\ Told(1)
    BY Sizes
  <2>5. Counted(1)'
    BY <2>2, <2>3, <2>4
  <2>6. Closed(1)' /\ Told(1)'
    BY <2>1, <2>2, <2>3, <2>4
  <2>7. Counted(2)' /\ Closed(2)' /\ Told(2)'
    BY <2>2, <2>3
  <2> QED
    BY <2>3, <2>5, <2>6, <2>7
<1>18. CASE Reports
  <2>1. 2 \in cends
    BY <1>18 DEF Reports
  <2>2. /\ pipe'[2] = pipe[2] + 1 /\ made'[2] = made[2] + 1
        /\ pipe'[1] = pipe[1] /\ made'[1] = made[1]
    BY <1>18 DEF Reports
  <2>3. ppc # "spawn" /\ UNCHANGED parent /\ UNCHANGED cends
    BY <1>18 DEF Reports
  <2>4. got[2] \in Nat /\ pipe[2] \in Nat /\ Counted(2) /\ Told(2)
    BY Sizes
  <2>5. Counted(2)'
    BY <2>2, <2>3, <2>4
  <2>6. Closed(2)' /\ Told(2)'
    BY <2>1, <2>2, <2>3, <2>4
  <2>7. Counted(1)' /\ Closed(1)' /\ Told(1)'
    BY <2>2, <2>3
  <2> QED
    BY <2>3, <2>5, <2>6, <2>7
<1>19. CASE Succeeds \/ Quits
  BY <1>19 DEF Succeeds, Quits, Exit, InputOver
<1>20. CASE Fails
  BY <1>20 DEF Fails, Exit, InputOver
<1>21. CASE Killed
  BY <1>21 DEF Killed, Exit, InputOver
<1>22. CASE SecondEnds
  BY <1>22 DEF SecondEnds, Exit, InputOver
<1>23. CASE UNCHANGED pvars
  BY <1>23 DEF pvars
<1> QED
  BY <1>1, <1>2, <1>3, <1>4, <1>5, <1>6, <1>7, <1>8, <1>9, <1>10, <1>11, <1>12, <1>13, <1>14, <1>15, <1>16, <1>17, <1>18, <1>19, <1>20, <1>21, <1>22, <1>23 DEF PNext, ParentStep, CommandStep

\* Every step of the poll loop, the child or a caller keeps the invariant.
LEMMA StepPInv ==
  ASSUME PInv, [PNext]_pvars
  PROVE  PInv'
BY TypesStep, ChildStep, InputStep, OutputStep DEF PInv

-----------------------------------------------------------------------------
\* The refinement: a new object looks like no call, and every step of the poll
\* loop and of the command is one that Filter allows, or cannot be seen.
LEMMA FilterInit == FltInit => F!FInit
BY DEF FltInit, F!FInit, Phase, Outs

\* Every step is one that Filter allows, or Filter does not see it.
LEMMA FilterStep ==
  ASSUME PInv, [PNext]_pvars
  PROVE  [F!FNext]_(F!fvars)
<1> USE DEF PInv, Types, F!fvars, Phase, Answer, Over, Active, Gone, Running, parent, command
<1>1. CASE \E c \in Commands : Execute(c)
  <2>1. PICK c \in Commands : Execute(c)
    BY <1>1
  <2>2. src' \in Nat /\ buf' = 0 /\ estat' = "none" /\ ppc' = "spawn"
    BY <2>1, CommandFits DEF Execute
  <2>3. F!Begin
    BY <2>1, <2>2 DEF F!Begin, Execute
  <2> QED
    BY <2>3 DEF F!FNext
<1>2. CASE Spawn
  <2>1. F!Start
    BY <1>2 DEF F!Start, Spawn, ChildInv
  <2> QED
    BY <2>1 DEF F!FNext
<1>3. CASE SpawnFails
  <2>1. F!Throw
    BY <1>3 DEF F!Throw, SpawnFails, ChildInv
  <2> QED
    BY <2>1 DEF F!FNext
<1>4. CASE Poll \/ InputBad \/ BrokenPipe \/ EndLoop \/ Exec \/ Reads
  BY <1>4 DEF Poll, InputBad, BrokenPipe, EndLoop, Exec, Reads
<1>5. CASE Refill
  <2>1. buf = 0 /\ buf' = Chunk(src) /\ src' = src - Chunk(src)
    BY <1>5 DEF Refill, InputInv
  <2>2. src' + buf' = src + buf
    BY <2>1, ChunkFits
  <2> QED
    BY <1>5, <2>2 DEF Refill
<1>6. CASE Write
  <2>1. PICK n \in 1..buf : buf' = buf - n
    BY <1>6 DEF Write
  <2>2. (src + buf)' \in Nat /\ (src + buf)' < src + buf
    BY <1>6, <2>1 DEF Write
  <2>3. estat # "none"
    BY <1>6 DEF Write, ChildInv
  <2>4. F!Give
    BY <1>6, <2>2, <2>3 DEF F!Give, Write
  <2> QED
    BY <2>4 DEF F!FNext
<1>7. CASE Written
  BY <1>7 DEF Written, Handled
<1>8. CASE \E f \in Fds : NoEvent(f)
  BY <1>8 DEF NoEvent, Handled
<1>9. CASE \E f \in Fds : Collect(f)
  <2>1. PICK f \in Fds : Collect(f)
    BY <1>9
  <2>2. /\ f \in Outs /\ f \in todo /\ ppc = "handle" /\ ppc' \in {"poll", "handle"}
        /\ UNCHANGED <<src, buf, made, estat>>
    BY <2>1, OutputFds DEF Collect, First, Handled
  <2>3. CASE "IN" \in revents[f]
    <3>1. Told(f) /\ Counted(f) /\ got[f] \in Nat /\ pipe[f] \in Nat
      BY <2>2, Sizes DEF OutputInv
    <3>2. Chunk(pipe[f]) \in Nat /\ Chunk(pipe[f]) > 0 /\ Chunk(pipe[f]) <= pipe[f]
      BY <2>2, <2>3, <3>1, ChunkFits DEF Told
    <3>3. got' = [got EXCEPT ![f] = @ + Chunk(pipe[f])]
      BY <2>1, <2>3 DEF Collect
    <3>4. got' \in [Outs -> Nat] /\ got[f] < got'[f] /\ got'[f] <= made[f]
      BY <2>2, <3>1, <3>2, <3>3 DEF Counted
    <3>5. \A p \in Outs \ {f} : got'[p] = got[p]
      BY <3>3
    <3>6. F!Take(f)
      BY <2>2, <3>4, <3>5 DEF F!Take
    <3> QED
      BY <2>2, <3>6 DEF F!FNext
  <2>4. CASE "IN" \notin revents[f]
    BY <2>1, <2>2, <2>4 DEF Collect
  <2> QED
    BY <2>3, <2>4
<1>10. CASE Wait
  <2>1. src = 0 /\ buf = 0 /\ estat \in Gone
    BY <1>10 DEF Wait, ChildInv, InputInv, OutputInv
  <2>2. \A o \in Outs : got[o] = made[o]
    BY <1>10, Sizes DEF Wait, OutputInv, Counted, Closed
  <2>3. got = made
    BY <2>2
  <2>4. F!Return
    BY <1>10, <2>1, <2>3 DEF F!Return, Wait
  <2> QED
    BY <2>4 DEF F!FNext
<1>11. CASE Unwind
  <2>1. CASE child = "zombie"
    <3>1. F!Throw
      BY <1>11, <2>1 DEF F!Throw, Unwind, ChildInv
    <3> QED
      BY <3>1 DEF F!FNext
  <2>2. CASE child # "zombie"
    <3>1. F!End
      BY <1>11, <2>2 DEF F!End, Unwind, ChildInv
    <3> QED
      BY <3>1 DEF F!FNext
  <2> QED
    BY <2>1, <2>2
<1>12. CASE Writes
  <2>1. F!Make(1)
    BY <1>12 DEF F!Make, Writes, ChildInv
  <2> QED
    BY <2>1, OutputFds DEF F!FNext
<1>13. CASE Reports
  <2>1. F!Make(2)
    BY <1>13 DEF F!Make, Reports, ChildInv
  <2> QED
    BY <2>1, OutputFds DEF F!FNext
<1>14. CASE Succeeds \/ Quits \/ Fails \/ Killed \/ SecondEnds
  <2>1. /\ child \in Running /\ estat' \in Gone
        /\ UNCHANGED <<ppc, src, buf, got, made>>
    BY <1>14, CommandFits DEF Succeeds, Quits, Fails, Killed, SecondEnds, Exit
  <2>2. F!End
    BY <2>1 DEF F!End, ChildInv
  <2> QED
    BY <2>2 DEF F!FNext
<1>15. CASE UNCHANGED pvars
  BY <1>15 DEF pvars
<1> QED
  BY <1>1, <1>2, <1>3, <1>4, <1>5, <1>6, <1>7, <1>8, <1>9, <1>10, <1>11, <1>12, <1>13,
     <1>14, <1>15 DEF PNext, ParentStep, CommandStep

-----------------------------------------------------------------------------
\* What is known of kdumptool, its child and the pipes holds as long as anybody
\* executes commands (process.cc:423-446).
THEOREM FilterInvariant == PSpec => []PInv
<1>1. FltInit => PInv
  BY InitPInv
<1>2. PInv /\ [PNext]_pvars => PInv'
  BY StepPInv
<1> QED
  BY <1>1, <1>2, PTL DEF PSpec

\* Whatever pipes, buffers and commands there are, execute() returns only when
\* all input was handed over, all output collected, and the child reaped; an
\* exception leaves no child (process.cc:426-446, 54-60).
THEOREM ImplementsFilter == PSpec => KeepsFilter
<1>1. FltInit => F!FInit
  BY FilterInit
<1>2. PInv /\ [PNext]_pvars => [F!FNext]_(F!fvars)
  BY FilterStep
<1> QED
  BY <1>1, <1>2, FilterInvariant, PTL DEF PSpec, KeepsFilter, F!FilterSpec

-----------------------------------------------------------------------------
(* RemoteTransfers.                                                        *)

\* The commands of kdumptool are commands.
LEMMA CommandsUsed ==
  /\ \A n \in Scripts : [fds |-> {0, 1}, in |-> n, second |-> {"fail"}] \in Commands
  /\ Mount \in Commands /\ Umount \in Commands
BY RemoteAssumption DEF Commands, Mount, Umount, Fds

\* Every step executes a command, or is one of the poll loop or of the command,
\* or has nothing to do with them.
LEMMA StepUsesFilter ==
  ASSUME [Next]_vars
  PROVE  [PNext]_pvars
<1>1. CASE ReadConfig
  BY <1>1, CommandsUsed DEF ReadConfig, PNext
<1>2. CASE Translate
  BY <1>2, CommandsUsed DEF Translate, PNext
<1>3. CASE Destroy
  BY <1>3, CommandsUsed DEF Destroy, PNext
<1>4. CASE ConfigRead \/ MakeTransfer \/ Mounted \/ MakeDirs \/ Save \/ Unmounted
  BY <1>4 DEF ConfigRead, MakeTransfer, Mounted, MakeDirs, Save, Unmounted
<1>5. CASE Open \/ Prepare \/ Callback \/ DataEnds \/ CurlFails \/ Finish \/ Catch
  BY <1>5 DEF Open, Prepare, Callback, DataEnds, CurlFails, Finish, Catch
<1>6. CASE Filtering
  BY <1>6 DEF Filtering, PNext
<1>7. CASE Commanding
  BY <1>7 DEF Commanding, PNext, CommandStep
<1>8. CASE Stopped \/ UNCHANGED vars
  BY <1>8 DEF Stopped, vars
<1> QED
  BY <1>1, <1>2, <1>3, <1>4, <1>5, <1>6, <1>7, <1>8 DEF Next, Kdumptool

\* kdumptool as a caller: execute() returns only when all input was handed over,
\* all output collected and the child reaped, and an exception leaves no child,
\* for the shell and for every mount and umount (process.cc:426-446, 54-60).
THEOREM RemoteKeepsFilter == Spec => KeepsFilter
<1>1. Init => FltInit
  BY DEF Init
<1>2. [Next]_vars => [PNext]_pvars
  BY StepUsesFilter
<1>3. Spec => PSpec
  BY <1>1, <1>2, PTL DEF Spec, PSpec
<1> QED
  BY <1>3, ImplementsFilter
-----------------------------------------------------------------------------
Before == {"start", "config", "transfer"}
Uploading == {"open", "prepare", "perform", "finish", "catch"}
Mounting == {"translate", "mounting", "save", "destroy", "unmounting"}

\* The first n targets, mounted one after the other.
Stack(n) == [k \in 1..n |-> [at |-> PointOf(urls[k]), share |-> urls[k].share]]

\* execute() is on its way to return, or has; the command did its work unless it
\* went astray.
Orderly == ppc \notin {"unwind", "thrown", "killed"}
Done == estat \in {"ok", "signal"}

Progress ==
  /\ pc \in Before \cup Uploading \cup Mounting \cup Ended
  /\ urls = <<>> \/ urls \in Targets
  /\ pc \in Before => urls = <<>> /\ i = 1
  /\ pc \in Uploading \cup Mounting => urls \in Targets
  /\ pc \in Mounting => Proto # "ftp"
  /\ i \in Nat /\ i > 0
  /\ pc = "translate" => i <= Len(urls) + 1
  /\ pc = "mounting" => i <= Len(urls)

\* Exit statuses are read only of commands that ended.
CommandInv ==
  /\ ppc = "returned" => estat \in Gone
  /\ pc = "mounting" => cmd = Mount
  /\ pc = "unmounting" => cmd = Umount

PointInv ==
  /\ pc = "translate" /\ i > 1 => point = PointOf(urls[i - 1])
  /\ pc \in {"save", "destroy", "unmounting"} => point = PointOf(urls[Len(urls)])

\* What is mounted, as long as every command that said 0 did its work.
MountsInv ==
  astray = FALSE =>
    /\ pc \in Before \cup Uploading => mounts = <<>>
    /\ pc = "translate" => mounts = Stack(i - 1)
    /\ pc = "mounting" /\ Orderly => mounts = Stack(IF Done THEN i ELSE i - 1)
    /\ pc \in {"save", "destroy"} => mounts = Stack(Len(urls))
    /\ pc = "unmounting" /\ Len(urls) = 1 /\ Orderly =>
         mounts = IF Done THEN <<>> ELSE Stack(1)

Flags == astray \in BOOLEAN /\ refused \in BOOLEAN

MInv ==
  /\ Progress /\ CommandInv /\ PointInv /\ MountsInv /\ Flags
  /\ PlacedWhereConfigured /\ LeftMountsHaveCause

\* What the data for a file of an FTP upload may have come to.
FileInv ==
  /\ given \in Nat /\ source \in {"good", "failed", "signal"}
  /\ pc = "finish" /\ source = "good" => given = Blocks
  /\ saved \in Seq({r \in [outcome : {"good", "signal", "error"}, given : Nat] :
                      r.outcome = "good" => r.given = Blocks})

-----------------------------------------------------------------------------
\* A set of numbers up to n has a largest one.
LEMMA Largest ==
  ASSUME NEW n \in Nat, NEW I \in SUBSET (1..n), I # {}
  PROVE  Max(I) \in I /\ \A k \in I : k <= Max(I)
<1> DEFINE Up(k) == {j \in I : j >= k}
           T == {Up(k) : k \in I}
<1>1. IsFiniteSet(I)
  <2>1. IsFiniteSet(1..n) /\ I \subseteq 1..n
    BY FS_Interval
  <2> QED
    BY <2>1, FS_Subset
<1>2. IsWellFoundedOn(StrictSubsetOrdering(I), SUBSET I)
  BY <1>1, FS_StrictSubsetOrderingWellFounded, FS_FiniteSubsetsOfFinite
<1>3. T \subseteq SUBSET I /\ T # {}
  OBVIOUS
<1>4. PICK u \in T : \A v \in T : <<v, u>> \notin StrictSubsetOrdering(I)
  <2> HIDE DEF T
  <2> QED
    BY <1>2, <1>3, WFMin
<1>5. PICK m \in I : u = Up(m)
  BY <1>4
<1>6. \A k \in I : m >= k
  <2> SUFFICES ASSUME NEW k \in I, k > m PROVE FALSE
    BY n \in Nat
  <2>1. Up(k) \in T
    OBVIOUS
  <2>2. m \in u /\ m \notin Up(k) /\ \A j \in Up(k) : j \in u
    BY <1>5
  <2>3. Up(k) \subseteq u /\ Up(k) # u
    BY <2>2
  <2> QED
    BY <1>3, <1>4, <2>1, <2>3 DEF StrictSubsetOrdering
<1> QED
  BY <1>6 DEF Max

-----------------------------------------------------------------------------
\* Every target is a sequence of URLs with a share, for one of three protocols.
LEMMA TargetFits ==
  ASSUME NEW t \in Targets
  PROVE  /\ Len(t) \in Nat /\ Len(t) > 0 /\ DOMAIN t = 1..Len(t)
         /\ \A k \in 1..Len(t) : t[k].share # <<>> /\ t[k].share \in Seq(STRING)
         /\ t[1].proto \in {"ftp", "nfs", "cifs"}
<1> DEFINE URL == [proto : STRING, share : Seq(STRING) \ {<<>>}, slash : BOOLEAN]
<1>1. t \in Seq(URL) /\ t # <<>> /\ t[1].proto \in {"ftp", "nfs", "cifs"}
  BY TargetsAssumption
<1>2. \A u \in URL : u.share # <<>> /\ u.share \in Seq(STRING)
  OBVIOUS
<1> HIDE DEF URL
<1>3. Len(t) \in Nat /\ DOMAIN t = 1..Len(t) /\ \A k \in 1..Len(t) : t[k] \in URL
  BY <1>1
<1>4. Len(t) > 0
  BY <1>1, <1>3
<1> QED
  BY <1>1, <1>2, <1>3, <1>4

\* No mount point is empty, and each hides what is there.
LEMMA PointFits ==
  ASSUME urls \in Targets, NEW k \in 1..Len(urls)
  PROVE  PointOf(urls[k]) # <<>> /\ IsPrefix(PointOf(urls[k]), PointOf(urls[k]))
<1>1. PointOf(urls[k]) # <<>> /\ Len(PointOf(urls[k])) \in Nat
  <2>1. urls[k].share # <<>> /\ Len(urls[k].share) \in Nat
    BY TargetFits
  <2>2. <<"mnt">> # <<>> /\ Len(<<"mnt">>) \in Nat
    <3>1. Len(<<"mnt">>) = 1 /\ Len(<<>>) = 0
      OBVIOUS
    <3> QED
      BY <3>1
  <2> QED
    BY <2>1, <2>2 DEF PointOf
<1>2. Len(PointOf(urls[k])) <= Len(PointOf(urls[k]))
  BY <1>1
<1> QED
  BY <1>1, <1>2 DEF IsPrefix

\* The stack for the targets that do not change does not change.
LEMMA StackStays ==
  ASSUME urls' = urls
  PROVE  /\ Proto' = Proto
         /\ \A n : Stack(n)' = Stack(n)
         /\ \A k : PointOf(urls[k])' = PointOf(urls[k])
BY DEF Stack, PointOf, Proto

\* The next target goes on top.
LEMMA StackGrows ==
  ASSUME NEW n \in Nat, n > 0
  PROVE  Append(Stack(n - 1), [at |-> PointOf(urls[n]), share |-> urls[n].share]) = Stack(n)
<1> DEFINE e(k) == [at |-> PointOf(urls[k]), share |-> urls[k].share]
<1>1. Stack(n) = [k \in 1..n |-> e(k)] /\ Stack(n - 1) = [k \in 1..(n - 1) |-> e(k)]
  BY DEF Stack
<1> HIDE DEF e
<1>2. Len(Stack(n - 1)) = n - 1
  BY <1>1
<1>3. Append(Stack(n - 1), e(n)) = [k \in 1..n |-> e(k)]
  BY <1>1, <1>2
<1> QED
  BY <1>1, <1>3 DEF e

\* With no target mounted, the table is empty.
LEMMA StackEmpty == Stack(0) = <<>>
BY DEF Stack

\* Newest finds what is mounted last at a place.
LEMMA NewestInStack ==
  ASSUME NEW n \in Nat, mounts = Stack(n), NEW p
  PROVE  /\ Newest(p) \in 0..n
         /\ Newest(p) # 0 => IsPrefix(PointOf(urls[Newest(p)]), p)
         /\ \A k \in 1..n : IsPrefix(PointOf(urls[k]), p) => Newest(p) # 0 /\ k <= Newest(p)
<1> DEFINE I == {k \in 1..Len(mounts) : IsPrefix(mounts[k].at, p)}
<1>1. Len(mounts) = n /\ \A k \in 1..n : mounts[k].at = PointOf(urls[k])
  BY DEF Stack
<1>2. I \subseteq 1..n /\ \A k \in 1..n : k \in I <=> IsPrefix(PointOf(urls[k]), p)
  BY <1>1
<1>3. Newest(p) = IF I # {} THEN Max(I) ELSE 0
  BY DEF Newest, SelectLastInSeq
<1> HIDE DEF I
<1>4. CASE I = {}
  BY <1>2, <1>3, <1>4
<1>5. CASE I # {}
  <2>1. Max(I) \in I /\ \A k \in I : k <= Max(I)
    BY <1>2, <1>5, Largest
  <2>2. Newest(p) = Max(I)
    BY <1>3, <1>5
  <2>3. Newest(p) \in I /\ \A k \in I : k <= Newest(p)
    BY <2>1, <2>2
  <2>4. Newest(p) \in 1..n /\ IsPrefix(PointOf(urls[Newest(p)]), p)
    BY <1>2, <2>3
  <2>5. \A k \in 1..n : IsPrefix(PointOf(urls[k]), p) => k <= Newest(p)
    BY <1>2, <2>3
  <2> QED
    BY <2>4, <2>5
<1> QED
  BY <1>4, <1>5

\* What the poll loop does to what its caller sees.
LEMMA ParentFacts ==
  ASSUME PInv, ParentStep
  PROVE  /\ cmd' = cmd
         /\ ~Orderly => ~Orderly'
         /\ Orderly' => (Done' <=> Done)
         /\ ppc' = "returned" => estat' \in Gone
<1> USE DEF Orderly, Done, Gone, PInv, ChildInv, command
<1>1. CASE Spawn
  BY <1>1 DEF Spawn
<1>2. CASE SpawnFails \/ Poll \/ Refill \/ InputBad \/ Write
  BY <1>2 DEF SpawnFails, Poll, Refill, InputBad, Write
<1>3. CASE Written \/ BrokenPipe \/ EndLoop
  BY <1>3 DEF Written, BrokenPipe, EndLoop, Handled
<1>4. CASE Wait
  BY <1>4 DEF Wait
<1>5. CASE Unwind
  BY <1>5 DEF Unwind
<1>6. CASE \E f \in Fds : NoEvent(f) \/ Collect(f)
  BY <1>6 DEF NoEvent, Collect, Handled
<1> QED
  BY <1>1, <1>2, <1>3, <1>4, <1>5, <1>6 DEF ParentStep

\* A command that takes a step has not ended yet.
LEMMA CommandFacts ==
  ASSUME PInv, CommandStep
  PROVE  /\ cmd' = cmd /\ ppc' = ppc /\ ppc # "returned"
         /\ ~Done
         /\ Exec \/ Reads \/ Writes \/ Reports => ~Done'
         /\ Fails => ~Done'
         /\ Succeeds \/ Quits \/ Killed => Done'
         /\ SecondEnds => \E s \in cmd.second : estat' = s
<1> USE DEF Done, PInv, ChildInv, parent, Running, Over
<1>1. CASE Exec \/ Reads \/ Writes \/ Reports
  BY <1>1 DEF Exec, Reads, Writes, Reports, Fails, Succeeds, Quits, Killed, SecondEnds, Exit
<1>2. CASE Fails
  BY <1>2 DEF Exec, Reads, Writes, Reports, Fails, Succeeds, Quits, Killed, SecondEnds, Exit
<1>3. CASE Succeeds \/ Quits
  BY <1>3 DEF Exec, Reads, Writes, Reports, Fails, Succeeds, Quits, Killed, SecondEnds, Exit
<1>4. CASE Killed
  BY <1>4 DEF Exec, Reads, Writes, Reports, Fails, Succeeds, Quits, Killed, SecondEnds, Exit
<1>5. CASE SecondEnds
  BY <1>5 DEF Exec, Reads, Writes, Reports, Fails, Succeeds, Quits, Killed, SecondEnds, Exit
<1> QED
  BY <1>1, <1>2, <1>3, <1>4, <1>5 DEF CommandStep

\* A new command has not ended, and its call has not begun to fail.
LEMMA ExecuteFacts ==
  ASSUME NEW c, Execute(c)
  PROVE  cmd' = c /\ ppc' = "spawn" /\ ~Done' /\ Orderly'
BY DEF Execute, Done, Orderly

-----------------------------------------------------------------------------
\* What a step of the command leaves alone, and when it may go astray.
LEMMA CommandingFacts ==
  ASSUME PInv, CommandInv, Flags, Commanding
  PROVE  /\ UNCHANGED <<urls, pc, i, point, placed, refused, ftp>>
         /\ cmd' = cmd /\ ppc' = ppc /\ ppc # "returned" /\ ~Done
         /\ astray' \in BOOLEAN /\ (astray = TRUE => astray' = TRUE)
         /\ pc = "config" => mounts' = mounts
         /\ pc # "config" /\ astray' = FALSE => IF Done' THEN Acts ELSE mounts' = mounts
<1> USE DEF Commanding, Flags, tool
<1>1. CommandStep
  BY DEF CommandStep
<1>2. /\ cmd' = cmd /\ ppc' = ppc /\ ppc # "returned" /\ ~Done
      /\ Exec \/ Reads \/ Writes \/ Reports => ~Done'
      /\ Fails => ~Done'
      /\ Succeeds \/ Quits \/ Killed => Done'
  BY <1>1, CommandFacts
<1>3. CASE (Exec \/ Reads \/ Writes \/ Reports \/ Fails) /\ UNCHANGED <<mounts, astray>>
  BY <1>2, <1>3
<1>7. CASE pc = "config" /\ Quits /\ UNCHANGED <<mounts, astray>>
  BY <1>2, <1>7
<1>4. CASE Succeeds /\ UNCHANGED astray /\ IF pc = "config" THEN UNCHANGED mounts ELSE Acts
  BY <1>2, <1>4
<1>5. CASE Killed /\ pc # "config" /\ child = "run" /\ Acts /\ UNCHANGED astray
  BY <1>2, <1>5
<1>6. CASE /\ Killed \/ SecondEnds
           /\ UNCHANGED mounts
           /\ astray' = (astray \/ (pc # "config" /\ estat' # "fail"))
  <2>1. pc # "config" /\ astray' = FALSE => ~Done'
    BY <1>6 DEF Done
  <2> QED
    BY <1>2, <1>6, <2>1
<1> QED
  BY <1>3, <1>4, <1>5, <1>6, <1>7

\* Every step keeps what is known of the files of an FTP upload.
LEMMA FileStep ==
  ASSUME FileInv, [Next]_vars
  PROVE  FileInv'
<1> DEFINE S == {r \in [outcome : {"good", "signal", "error"}, given : Nat] :
                   r.outcome = "good" => r.given = Blocks}
<1>1. saved \in Seq(S) /\ given \in Nat
  BY DEF FileInv
<1>2. ASSUME NEW o \in {"good", "signal", "error"}, NextFile(o), o = "good" => given = Blocks
      PROVE  FileInv'
  <2>1. [outcome |-> o, given |-> given] \in S
    BY <1>1, <1>2
  <2>2. saved' \in Seq(S) /\ given' = 0 /\ source' = "good" /\ pc' # "finish"
    <3> HIDE DEF S
    <3> QED
      BY <1>1, <1>2, <2>1 DEF NextFile
  <2> QED
    BY <2>2 DEF FileInv
<1>3. CASE UNCHANGED <<given, source, saved>> /\ (pc' = "finish" => pc = "finish")
  BY <1>3 DEF FileInv
<1>4. CASE ReadConfig \/ ConfigRead \/ MakeTransfer
  BY <1>3, <1>4 DEF ReadConfig, ConfigRead, MakeTransfer, ftp, disk
<1>5. CASE Translate \/ Mounted \/ MakeDirs \/ Save \/ Destroy \/ Unmounted
  BY <1>3, <1>5 DEF Translate, Mounted, MakeDirs, Save, Destroy, Unmounted, ftp, disk
<1>6. CASE Open
  BY <1>2, <1>3, <1>6 DEF Open
<1>7. CASE Prepare
  BY <1>3, <1>7 DEF Prepare
<1>8. CASE Callback
  BY <1>8 DEF Callback, FileInv
<1>9. CASE DataEnds
  BY <1>9 DEF DataEnds, FileInv
<1>10. CASE CurlFails
  BY <1>3, <1>10 DEF CurlFails, ftp
<1>11. CASE Finish
  <2>1. CASE source = "failed"
    BY <1>3, <1>11, <2>1 DEF Finish
  <2>2. CASE source # "failed"
    BY <1>2, <1>11, <2>2 DEF Finish, FileInv
  <2> QED
    BY <2>1, <2>2
<1>12. CASE Catch
  BY <1>2, <1>3, <1>12 DEF Catch
<1>13. CASE Filtering \/ Commanding
  BY <1>3, <1>13 DEF Filtering, Commanding, tool, ftp
<1>14. CASE Stopped \/ UNCHANGED vars
  BY <1>3, <1>14 DEF Stopped, vars, tool, ftp
<1> QED
  BY <1>4, <1>5, <1>6, <1>7, <1>8, <1>9, <1>10, <1>11, <1>12, <1>13, <1>14 DEF Next, Kdumptool

\* A file that a server was given only in part does not count as saved, unless the
\* program that made it was killed (transfer.cc:376-389, dataprovider.cc:247-274).
THEOREM FtpFilesAreWhole == Spec => []FtpSavedIsWhole
<1>1. Init => FileInv
  <2> DEFINE S == {r \in [outcome : {"good", "signal", "error"}, given : Nat] :
                     r.outcome = "good" => r.given = Blocks}
  <2>1. <<>> \in Seq(S)
    <3> HIDE DEF S
    <3> QED
      OBVIOUS
  <2> SUFFICES ASSUME Init PROVE FileInv
    OBVIOUS
  <2>2. given = 0 /\ source = "good" /\ pc = "start" /\ saved = <<>>
    BY DEF Init
  <2>3. given \in Nat /\ source \in {"good", "failed", "signal"} /\ pc # "finish"
    BY <2>2
  <2> QED
    BY <2>1, <2>2, <2>3 DEF FileInv
<1>2. FileInv /\ [Next]_vars => FileInv'
  BY FileStep
<1>3. FileInv => FtpSavedIsWhole
  <2> DEFINE S == {r \in [outcome : {"good", "signal", "error"}, given : Nat] :
                     r.outcome = "good" => r.given = Blocks}
  <2> SUFFICES ASSUME FileInv PROVE FtpSavedIsWhole
    OBVIOUS
  <2>1. \A r \in S : /\ r.outcome \in {"good", "signal", "error"}
                     /\ r.outcome = "good" => r.given = Blocks
    OBVIOUS
  <2>2. saved \in Seq(S)
    BY DEF FileInv
  <2> HIDE DEF S
  <2>3. \A k \in DOMAIN saved : saved[k] \in S
    BY <2>2
  <2> QED
    BY <2>1, <2>3 DEF FtpSavedIsWhole
<1> QED
  BY <1>1, <1>2, <1>3, PTL DEF Spec

-----------------------------------------------------------------------------
\* Every step keeps what is known of the progress.
LEMMA ProgressStep ==
  ASSUME Progress, PInv, CommandInv, Flags, [Next]_vars
  PROVE  Progress'
<1> USE DEF Progress, Before, Uploading, Mounting, Ended
<1>1. CASE ReadConfig
  BY <1>1 DEF ReadConfig
<1>2. CASE ConfigRead
  BY <1>2 DEF ConfigRead
<1>3. CASE MakeTransfer
  <2>1. urls' \in Targets /\ i' = 1 /\ pc' \in {"open", "failed", "translate"}
    BY <1>3 DEF MakeTransfer
  <2>2. Len(urls') \in Nat
    BY <2>1, TargetFits
  <2>3. pc' = "translate" => Proto' # "ftp"
    BY <1>3 DEF MakeTransfer, Proto
  <2> QED
    BY <2>1, <2>2, <2>3
<1>4. ASSUME UNCHANGED urls PROVE Proto' = Proto
  BY <1>4 DEF Proto
<1>5. CASE Translate \/ Mounted \/ MakeDirs \/ Save \/ Destroy \/ Unmounted
  <2>1. /\ pc \in Mounting /\ pc' \in Mounting \cup Ended /\ urls' = urls
        /\ i' = i \/ (i' = i + 1 /\ pc = "mounting")
        /\ pc' = "mounting" => i' = i /\ i <= Len(urls)
        /\ pc' = "translate" => pc = "mounting" /\ i' = i + 1
    BY <1>5 DEF Translate, Mounted, MakeDirs, Save, Destroy, Unmounted
  <2>2. Len(urls) \in Nat
    BY <2>1, TargetFits
  <2> QED
    BY <1>4, <2>1, <2>2
<1>6. CASE Open \/ Prepare \/ Callback \/ DataEnds \/ CurlFails \/ Finish \/ Catch
  <2>1. /\ pc \in Uploading /\ urls' = urls
        /\ pc' \in Uploading \cup Ended /\ i' \in {i, i + 1}
    BY <1>6 DEF Open, Prepare, Callback, DataEnds, CurlFails, Finish, Catch, NextFile
  <2> QED
    BY <2>1
<1>7. CASE Filtering
  BY <1>4, <1>7 DEF Filtering, tool
<1>8. CASE Commanding
  BY <1>4, <1>8, CommandingFacts
<1>9. CASE Stopped \/ UNCHANGED vars
  BY <1>4, <1>9 DEF Stopped, vars, tool
<1> QED
  BY <1>1, <1>2, <1>3, <1>5, <1>6, <1>7, <1>8, <1>9 DEF Next, Kdumptool

\* Every step keeps what is known of the command.
LEMMA CommandInvStep ==
  ASSUME CommandInv, Progress, Flags, PInv, [Next]_vars
  PROVE  CommandInv'
<1> USE DEF CommandInv, pvars, parent, command
<1>1. CASE ReadConfig
  BY <1>1 DEF ReadConfig, Execute
<1>2. CASE ConfigRead \/ MakeTransfer \/ Mounted \/ MakeDirs \/ Save \/ Unmounted
  BY <1>2 DEF ConfigRead, MakeTransfer, Mounted, MakeDirs, Save, Unmounted
<1>3. CASE Translate
  BY <1>3 DEF Translate, Execute, Mount
<1>4. CASE Destroy
  BY <1>4 DEF Destroy, Execute, Umount
<1>5. CASE Open \/ Prepare \/ Callback \/ DataEnds \/ CurlFails \/ Finish \/ Catch
  BY <1>5 DEF Open, Prepare, Callback, DataEnds, CurlFails, Finish, Catch, NextFile
<1>6. CASE Filtering
  BY <1>6, ParentFacts DEF Filtering, tool, Mount, Umount
<1>7. CASE Commanding
  BY <1>7, CommandingFacts DEF Mount, Umount
<1>8. CASE Stopped \/ UNCHANGED vars
  BY <1>8 DEF Stopped, vars, tool, Mount, Umount
<1> QED
  BY <1>1, <1>2, <1>3, <1>4, <1>5, <1>6, <1>7, <1>8 DEF Next, Kdumptool

\* Every step keeps what is known of the mount point.
LEMMA PointStep ==
  ASSUME PointInv, Progress, CommandInv, Flags, PInv, [Next]_vars
  PROVE  PointInv'
<1> USE DEF PointInv
<1>1. CASE ReadConfig \/ ConfigRead
  BY <1>1 DEF ReadConfig, ConfigRead
<1>2. CASE MakeTransfer
  BY <1>2 DEF MakeTransfer, Progress, Before
<1>3. CASE Translate
  BY <1>3 DEF Translate
<1>4. CASE Mounted
  <2>1. urls' = urls /\ (pc' = "translate" => i' = i + 1 /\ point' = PointOf(urls[i]))
        /\ pc' \in {"translate", "failed"}
    BY <1>4 DEF Mounted
  <2>2. (i \in Nat /\ i' - 1 = i) \/ pc' = "failed"
    BY <2>1 DEF Progress
  <2> QED
    BY <2>1, <2>2, StackStays
<1>5. CASE MakeDirs
  <2>1. urls \in Targets /\ i \in Nat /\ i > Len(urls) /\ i <= Len(urls) + 1
    BY <1>5 DEF MakeDirs, Progress, Mounting
  <2>2. Len(urls) \in Nat /\ Len(urls) > 0
    BY <2>1, TargetFits
  <2>3. i = Len(urls) + 1
    BY <2>1, <2>2
  <2>4. point = PointOf(urls[Len(urls)])
    BY <1>5, <2>2, <2>3 DEF MakeDirs
  <2> QED
    BY <1>5, <2>4, StackStays DEF MakeDirs
<1>6. CASE Save \/ Destroy
  BY <1>6, StackStays DEF Save, Destroy
<1>7. CASE Unmounted
  BY <1>7 DEF Unmounted
<1>8. CASE Open \/ Prepare \/ Callback \/ DataEnds \/ CurlFails \/ Finish \/ Catch
  BY <1>8 DEF Open, Prepare, Callback, DataEnds, CurlFails, Finish, Catch, NextFile
<1>9. CASE Filtering
  BY <1>9, StackStays DEF Filtering, tool
<1>10. CASE Commanding
  BY <1>10, CommandingFacts, StackStays
<1>11. CASE Stopped \/ UNCHANGED vars
  BY <1>11, StackStays DEF Stopped, vars, tool
<1> QED
  BY <1>1, <1>2, <1>3, <1>4, <1>5, <1>6, <1>7, <1>8, <1>9, <1>10, <1>11 DEF Next, Kdumptool

\* Every step keeps what is known of the mount table.
LEMMA MountsStep ==
  ASSUME MountsInv, PointInv, Progress, CommandInv, Flags, PInv, [Next]_vars
  PROVE  MountsInv'
<1> USE DEF MountsInv, Before, Uploading
<1>1. CASE ReadConfig \/ ConfigRead
  BY <1>1 DEF ReadConfig, ConfigRead, disk
<1>2. CASE MakeTransfer
  <2>1. /\ pc = "transfer" /\ i' = 1 /\ pc' \in {"open", "failed", "translate"}
        /\ mounts' = mounts /\ astray' = astray
    BY <1>2 DEF MakeTransfer, Progress
  <2>2. Stack(i - 1)' = <<>>
    BY <2>1 DEF Stack
  <2> QED
    BY <2>1, <2>2
<1>3. CASE Translate
  <2>1. /\ pc = "translate" /\ pc' \in {"mounting", "failed"}
        /\ UNCHANGED <<urls, i, mounts, astray>>
        /\ pc' = "mounting" => Execute(Mount)
    BY <1>3 DEF Translate, disk
  <2>2. pc' = "mounting" => ~Done'
    BY <2>1, ExecuteFacts
  <2> QED
    BY <2>1, <2>2, StackStays
<1>4. CASE Mounted
  <2>1. /\ pc = "mounting" /\ pc' \in {"translate", "failed"}
        /\ UNCHANGED <<urls, mounts, astray>>
        /\ pc' = "translate" => ppc = "returned" /\ estat # "fail" /\ i' = i + 1
    BY <1>4 DEF Mounted, disk, Answer
  <2>2. pc' = "translate" => Orderly /\ Done /\ i' - 1 = i
    BY <2>1 DEF CommandInv, Gone, Orderly, Done, Progress
  <2> QED
    BY <2>1, <2>2, StackStays
<1>5. CASE MakeDirs
  <2>1. urls \in Targets /\ i \in Nat /\ i > Len(urls) /\ i <= Len(urls) + 1
    BY <1>5 DEF MakeDirs, Progress, Mounting
  <2>2. Len(urls) \in Nat
    BY <2>1, TargetFits
  <2>3. i - 1 = Len(urls)
    BY <2>1, <2>2
  <2> QED
    BY <1>5, <2>3, StackStays DEF MakeDirs, disk
<1>6. CASE Save
  BY <1>6, StackStays DEF Save
<1>7. CASE Destroy
  <2>1. /\ pc = "destroy" /\ pc' \in {"ended", "unmounting"}
        /\ UNCHANGED <<urls, mounts, astray>>
        /\ pc' = "unmounting" => Execute(Umount)
    BY <1>7 DEF Destroy, disk
  <2>2. pc' = "unmounting" => ~Done'
    BY <2>1, ExecuteFacts
  <2> QED
    BY <2>1, <2>2, StackStays
<1>8. CASE Unmounted
  BY <1>8 DEF Unmounted
<1>9. CASE Open \/ Prepare \/ Callback \/ DataEnds \/ CurlFails \/ Finish \/ Catch
  <2>1. /\ pc \in Uploading /\ pc' \in Uploading \cup Ended
        /\ mounts' = mounts /\ astray' = astray
    BY <1>9 DEF Open, Prepare, Callback, DataEnds, CurlFails, Finish, Catch, NextFile, disk, Ended
  <2> QED
    BY <2>1 DEF Ended
<1>10. CASE Filtering
  <2>1. /\ UNCHANGED <<urls, pc, i, mounts, astray>>
        /\ Orderly' => Orderly /\ (Done' <=> Done)
    BY <1>10, ParentFacts DEF Filtering, tool, disk
  <2> QED
    BY <2>1, StackStays
<1>11. CASE Commanding
  <2> SUFFICES ASSUME astray' = FALSE PROVE MountsInv'
    OBVIOUS
  <2>1. /\ UNCHANGED <<urls, pc, i, point>> /\ ~Done /\ astray = FALSE
        /\ Orderly' <=> Orderly
        /\ pc = "config" => mounts' = mounts
        /\ pc # "config" => IF Done' THEN Acts ELSE mounts' = mounts
    BY <1>11, CommandingFacts DEF Flags, Orderly
  <2>2. CASE pc = "config"
    BY <2>1, <2>2
  <2>3. CASE pc = "mounting"
    <3> SUFFICES ASSUME Orderly PROVE mounts' = Stack(IF Done' THEN i ELSE i - 1)
      BY <2>1, <2>3, StackStays
    <3>1. mounts = Stack(i - 1)
      BY <2>1, <2>3
    <3>2. Acts => mounts' = Stack(i)
      BY <2>3, <3>1, StackGrows DEF Acts, Progress
    <3> QED
      BY <2>1, <2>3, <3>1, <3>2
  <2>4. CASE pc = "unmounting"
    <3> SUFFICES ASSUME Len(urls) = 1, Orderly
                 PROVE  mounts' = IF Done' THEN <<>> ELSE Stack(1)
      BY <2>1, <2>4, StackStays
    <3>1. mounts = Stack(1)
      BY <2>1, <2>4
    <3>2. Newest(point) \in 0..1 /\ Len(mounts) = 1
      BY <3>1, NewestInStack DEF Stack
    <3>3. Acts => mounts' = <<>>
      <4> SUFFICES ASSUME Acts PROVE mounts' = <<>>
        OBVIOUS
      <4>1. Newest(point) = 1 /\ mounts' = RemoveAt(mounts, Newest(point))
        BY <2>4, <3>2 DEF Acts
      <4>2. RemoveAt(mounts, 1) = SubSeq(mounts, 1, 0) \o SubSeq(mounts, 2, 1)
        BY <3>2 DEF RemoveAt
      <4>3. SubSeq(mounts, 1, 0) = <<>> /\ SubSeq(mounts, 2, 1) = <<>>
        BY SubSeqEmpty
      <4> QED
        BY <4>1, <4>2, <4>3
    <3> QED
      BY <2>1, <2>4, <3>1, <3>3
  <2>5. pc \in {"config", "mounting", "unmounting"}
    BY <1>11 DEF Commanding, Helper
  <2> QED
    BY <2>2, <2>3, <2>4, <2>5
<1>12. CASE Stopped \/ UNCHANGED vars
  <2>1. UNCHANGED <<urls, pc, i, mounts, astray, ppc, estat>>
    BY <1>12 DEF Stopped, vars, tool, disk, pvars, parent, command
  <2> QED
    BY <2>1, StackStays DEF Orderly, Done
<1> QED
  BY <1>1, <1>2, <1>3, <1>4, <1>5, <1>6, <1>7, <1>8, <1>9, <1>10, <1>11, <1>12 DEF Next, Kdumptool

\* What a file is placed on, in a stack of all targets.
LEMMA AtInStack ==
  ASSUME urls \in Targets, mounts = Stack(Len(urls)), NEW u \in DOMAIN urls
  PROVE  \/ At(PointOf(urls[u])) = urls[u].share
         \/ \E v \in DOMAIN urls :
              /\ v > u /\ IsPrefix(PointOf(urls[v]), PointOf(urls[u]))
              /\ urls[v].share = At(PointOf(urls[u]))
<1>1. Len(urls) \in Nat /\ DOMAIN urls = 1..Len(urls)
  BY TargetFits
<1> DEFINE k == Newest(PointOf(urls[u]))
<1>2. IsPrefix(PointOf(urls[u]), PointOf(urls[u]))
  BY <1>1, PointFits
<1>3. /\ k \in 1..Len(urls) /\ u <= k
      /\ IsPrefix(PointOf(urls[k]), PointOf(urls[u]))
  BY <1>1, <1>2, NewestInStack
<1>4. At(PointOf(urls[u])) = urls[k].share
  BY <1>1, <1>3 DEF At, Stack
<1>5. CASE k = u
  BY <1>4, <1>5
<1>6. CASE k # u
  <2>1. k > u /\ k \in DOMAIN urls
    BY <1>1, <1>3, <1>6
  <2> QED
    BY <1>3, <1>4, <2>1
<1> QED
  BY <1>5, <1>6

\* Every step keeps the files where they were placed, and only Save places them.
LEMMA PlacedStep ==
  ASSUME PlacedWhereConfigured, MountsInv, Progress, CommandInv, Flags, PInv, [Next]_vars
  PROVE  PlacedWhereConfigured'
<1>1. ASSUME UNCHANGED <<urls, placed>>, astray = TRUE => astray' = TRUE
      PROVE  PlacedWhereConfigured'
  BY <1>1 DEF PlacedWhereConfigured, PointOf, Proto, Flags
<1>2. CASE MakeTransfer
  BY <1>2 DEF MakeTransfer, PlacedWhereConfigured
<1>3. CASE Save
  <2>1. UNCHANGED <<urls, mounts, astray>>
    BY <1>3 DEF Save
  <2>2. CASE UNCHANGED placed \/ astray = TRUE
    BY <1>1, <2>1, <2>2 DEF PlacedWhereConfigured
  <2>3. CASE placed' = [u \in DOMAIN urls |-> At(PointOf(urls[u]))] /\ astray = FALSE
    <3>1. urls \in Targets /\ mounts = Stack(Len(urls))
      BY <1>3, <2>3 DEF Save, MountsInv, Progress, Mounting
    <3>2. \A u \in DOMAIN urls : placed'[u] = At(PointOf(urls[u]))
      BY <2>3
    <3> QED
      BY <2>1, <3>1, <3>2, AtInStack DEF PlacedWhereConfigured, PointOf, Proto
  <2> QED
    BY <1>3, <2>2, <2>3 DEF Save, Flags
<1>4. CASE ReadConfig \/ ConfigRead \/ Translate \/ Mounted \/ MakeDirs \/ Destroy \/ Unmounted
  BY <1>1, <1>4 DEF ReadConfig, ConfigRead, Translate, Mounted, MakeDirs, Destroy, Unmounted, disk
<1>5. CASE Open \/ Prepare \/ Callback \/ DataEnds \/ CurlFails \/ Finish \/ Catch
  BY <1>1, <1>5 DEF Open, Prepare, Callback, DataEnds, CurlFails, Finish, Catch, NextFile, disk
<1>6. CASE Filtering \/ Stopped \/ UNCHANGED vars
  BY <1>1, <1>6 DEF Filtering, Stopped, vars, tool, disk
<1>7. CASE Commanding
  BY <1>1, <1>7, CommandingFacts
<1> QED
  BY <1>2, <1>3, <1>4, <1>5, <1>6, <1>7 DEF Next, Kdumptool

\* Every step that ends kdumptool leaves no mount without a cause.
LEMMA LeftStep ==
  ASSUME LeftMountsHaveCause, MountsInv, PointInv, Progress, CommandInv, Flags, PInv, [Next]_vars
  PROVE  LeftMountsHaveCause'
<1> USE DEF LeftMountsHaveCause
<1>1. CASE pc' # "ended"
  BY <1>1
<1>2. CASE UNCHANGED <<urls, pc, mounts, astray, refused>>
  BY <1>2
<1>3. CASE Destroy
  <2>1. urls \in Targets /\ point = PointOf(urls[Len(urls)])
    BY <1>3 DEF Destroy, Progress, Mounting, PointInv
  <2>2. Len(urls) \in 1..Len(urls)
    <3>1. Len(urls) \in Nat /\ Len(urls) > 0
      BY <2>1, TargetFits
    <3> QED
      BY <3>1
  <2>3. point # <<>>
    BY <2>1, <2>2, PointFits
  <2> QED
    BY <1>3, <2>3 DEF Destroy
<1>4. CASE Unmounted
  <2>1. /\ pc = "unmounting" /\ UNCHANGED <<urls, mounts, astray>>
        /\ refused' = TRUE \/ (ppc = "returned" /\ estat # "fail")
    BY <1>4 DEF Unmounted, Answer
  <2>2. Len(urls) \in Nat /\ Len(urls) > 0
    BY <2>1, TargetFits DEF Progress, Mounting
  <2>3. CASE refused' = TRUE \/ Len(urls) > 1 \/ astray = TRUE
    BY <2>1, <2>3
  <2>4. CASE Len(urls) = 1 /\ astray = FALSE /\ ppc = "returned" /\ estat # "fail"
    <3>1. Orderly /\ Done
      BY <2>4 DEF CommandInv, Gone, Orderly, Done
    <3>2. mounts = <<>>
      BY <2>1, <2>4, <3>1 DEF MountsInv
    <3> QED
      BY <2>1, <3>2
  <2>5. Len(urls) = 1 \/ Len(urls) > 1
    BY <2>2
  <2>6. astray = TRUE \/ astray = FALSE
    BY DEF Flags
  <2> QED
    BY <2>1, <2>3, <2>4, <2>5, <2>6
<1>5. CASE Open \/ Finish \/ Catch
  <2>1. pc \in Uploading /\ UNCHANGED <<mounts, astray>>
    BY <1>5 DEF Open, Finish, Catch, disk, Uploading
  <2> QED
    BY <2>1 DEF MountsInv, Flags
<1>6. CASE Prepare \/ Callback \/ DataEnds \/ CurlFails
  BY <1>1, <1>6 DEF Prepare, Callback, DataEnds, CurlFails
<1>7. CASE ReadConfig \/ ConfigRead \/ MakeTransfer \/ Translate \/ Mounted \/ MakeDirs \/ Save
  BY <1>1, <1>7 DEF ReadConfig, ConfigRead, MakeTransfer, Translate, Mounted, MakeDirs, Save
<1>8. CASE Filtering \/ Commanding
  <2>1. pc' # "ended"
    BY <1>8 DEF Filtering, Commanding, Helper, tool
  <2> QED
    BY <1>1, <2>1
<1>9. CASE Stopped \/ UNCHANGED vars
  BY <1>2, <1>9 DEF Stopped, vars, tool, disk
<1> QED
  BY <1>3, <1>4, <1>5, <1>6, <1>7, <1>8, <1>9 DEF Next, Kdumptool

\* Every step keeps the flags.
LEMMA FlagsStep ==
  ASSUME Flags, CommandInv, PInv, [Next]_vars
  PROVE  Flags'
<1> USE DEF Flags
<1>1. CASE ReadConfig \/ ConfigRead \/ MakeTransfer
  BY <1>1 DEF ReadConfig, ConfigRead, MakeTransfer, disk
<1>2. CASE Translate \/ Mounted \/ MakeDirs \/ Save \/ Destroy
  BY <1>2 DEF Translate, Mounted, MakeDirs, Save, Destroy, disk
<1>3. CASE Unmounted
  BY <1>3 DEF Unmounted
<1>4. CASE Open \/ Prepare \/ Callback \/ DataEnds \/ CurlFails \/ Finish \/ Catch
  BY <1>4 DEF Open, Prepare, Callback, DataEnds, CurlFails, Finish, Catch, disk
<1>5. CASE Filtering \/ Stopped \/ UNCHANGED vars
  BY <1>5 DEF Filtering, Stopped, vars, disk
<1>6. CASE Commanding
  BY <1>6, CommandingFacts
<1> QED
  BY <1>1, <1>2, <1>3, <1>4, <1>5, <1>6 DEF Next, Kdumptool

\* Before kdumptool starts, nothing is mounted.
LEMMA InitMInv == Init => MInv
<1> SUFFICES ASSUME Init PROVE MInv
  OBVIOUS
<1> USE DEF Init
<1>1. Progress
  <2>1. pc = "start" /\ urls = <<>> /\ i = 1
    OBVIOUS
  <2> QED
    BY ONLY <2>1 DEF Progress, Before, Uploading, Mounting, Ended
<1>2. CommandInv
  BY DEF CommandInv, FltInit
<1>3. PointInv /\ Flags
  BY DEF PointInv, Flags
<1>4. MountsInv
  BY DEF MountsInv, Before, Uploading
<1>5. PlacedWhereConfigured /\ LeftMountsHaveCause
  <2>1. urls = <<>> /\ pc # "ended"
    OBVIOUS
  <2>2. DOMAIN urls = {}
    <3>1. urls \in Seq({}) /\ Len(urls) = 0
      BY <2>1, EmptySeq
    <3> QED
      BY ONLY <3>1
  <2> QED
    BY ONLY <2>1, <2>2 DEF PlacedWhereConfigured, LeftMountsHaveCause
<1> QED
  BY <1>1, <1>2, <1>3, <1>4, <1>5 DEF MInv

\* What is known of the targets, the commands and the mount table holds in every
\* run, for all targets, shells and pipes (transfer.cc:427-494, 500-554).
THEOREM MountInvariant == Spec => [](PInv /\ MInv)
<1>1. Init => PInv /\ MInv
  BY InitPInv, InitMInv DEF Init
<1>2. PInv /\ MInv /\ [Next]_vars => (PInv /\ MInv)'
  <2> SUFFICES ASSUME PInv, MInv, [Next]_vars PROVE PInv' /\ MInv'
    OBVIOUS
  <2>1. PInv'
    BY StepUsesFilter, StepPInv
  <2>2. Progress' /\ CommandInv' /\ PointInv' /\ MountsInv'
    BY ProgressStep, CommandInvStep, PointStep, MountsStep DEF MInv
  <2>3. Flags' /\ PlacedWhereConfigured' /\ LeftMountsHaveCause'
    BY FlagsStep, PlacedStep, LeftStep DEF MInv
  <2> QED
    BY <2>1, <2>2, <2>3 DEF MInv
<1> QED
  BY <1>1, <1>2, PTL DEF Spec

\* Whatever is written for a target lies on its share, unless a mount was killed
\* unnoticed or a later target is mounted over it (transfer.cc:427-435, 454-461,
\* 511-554).
THEOREM FilesAreWhereConfigured == Spec => []PlacedWhereConfigured
BY MountInvariant, PTL DEF MInv

\* kdumptool leaves a mount behind only with more than one target, or after a
\* umount that failed or was killed (transfer.cc:427-435, 467-494).
THEOREM MountsAreUndone == Spec => []LeftMountsHaveCause
BY MountInvariant, PTL DEF MInv
=============================================================================
