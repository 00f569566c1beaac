------------------------- MODULE SshTransferProofs -------------------------
(***************************************************************************)
(* Proofs about SshTransfer, for a file and a pipe of any size. Each part  *)
(* of the inductive invariant says what one of the actors can count on:    *)
(* kdumptool about its child and its data provider, the target about its   *)
(* two files, and all of them about how many blocks are on their way.      *)
(***************************************************************************)
EXTENDS SshTransfer, TLAPS

\* No block is in two places: what is on its way or stored was given before,
\* and the block that is being written is none of these.
Conserved ==
  /\ pipe + net <= given
  /\ pc = "write" => pipe + net < given
  /\ incomplete # NoFile => pipe + net + incomplete <= given
  /\ pc = "write" /\ incomplete # NoFile => pipe + net + incomplete < given

\* Which steps of perform() have a child.
ChildInv ==
  /\ pc \in {"start", "perform"} => ssh = "none"
  /\ pc \in Steps \ {"start", "perform"} => ssh \in {"run", "ok", "err"}
  /\ pc = "reap" => ssh # "run"
  /\ pc \in {"ok", "thrown"} => ssh \in {"none", "reaped"}

\* How far the data provider has been taken at each step.
ProviderInv ==
  /\ finishes <= 1
  /\ pc \in {"start", "perform", "prepare"} => finishes = 0 /\ ~prepared
  /\ pc \in {"read", "write", "finish"} => finishes = 0 /\ prepared
  /\ pc = "catch" => finishes = 0
  /\ pc \in {"wait", "unwind", "reap", "ok", "thrown"} =>
       (finishes = 1 <=> prepared)

\* Which of the two files exist on the target, and who has ended when.
TargetInv ==
  /\ ssh = "none" => ~conn /\ ~eof /\ remote = "none"
  /\ eof => ~wopen
  /\ remote = "none" => incomplete = NoFile /\ final = NoFile
  /\ remote \in {"dd", "failed"} => incomplete # NoFile /\ final = NoFile
  /\ remote = "moved" => incomplete = NoFile /\ (~conn \/ ~wopen)

IInv == TypeOK /\ Conserved /\ ChildInv /\ ProviderInv /\ TargetInv

-----------------------------------------------------------------------------
\* Losing blocks on the network keeps every bound on their number.
LEMMA Fewer ==
  ASSUME NEW g \in Nat, NEW p \in Nat, NEW n \in Nat, NEW m \in Nat, NEW s \in Nat,
         m <= n
  PROVE  /\ p + n + s <= g => p + m + s <= g /\ p + m <= g
         /\ p + n + s < g  => p + m + s < g  /\ p + m < g
OBVIOUS

\* Before the transfer nothing has been started, given or stored.
LEMMA InitIInv == Init => IInv
<1> SUFFICES ASSUME Init PROVE IInv
  OBVIOUS
<1> USE SshAssumption DEF Init
<1>1. /\ prepared \in BOOLEAN /\ wopen \in BOOLEAN
      /\ conn \in BOOLEAN /\ eof \in BOOLEAN /\ sigpipe \in BOOLEAN
  BY Zenon
<1>2. TypeOK BY <1>1 DEF TypeOK, Steps, Ended
<1>3. Conserved BY DEF Conserved
<1>4. ChildInv BY DEF ChildInv, Steps
<1>5. ~prepared /\ ~conn /\ ~eof
  BY Zenon
<1>6. ProviderInv BY <1>5 DEF ProviderInv
<1>7. TargetInv BY <1>5 DEF TargetInv
<1> QED BY <1>2, <1>3, <1>4, <1>6, <1>7 DEF IInv

\* A step keeps what perform() knows about its child.
LEMMA ChildStep == TypeOK /\ ChildInv /\ [Next]_vars => ChildInv'
<1> SUFFICES ASSUME TypeOK, ChildInv, [Next]_vars PROVE ChildInv'
  OBVIOUS
<1> USE SshAssumption DEF TypeOK, Steps, Ended, provider, child, target, ChildInv
<1>1. CASE MakeDirectory BY <1>1 DEF MakeDirectory
<1>2. CASE Spawn BY <1>2 DEF Spawn
<1>3. CASE Prepare BY <1>3 DEF Prepare
<1>4. CASE GetData BY <1>4 DEF GetData
<1>5. CASE Write BY <1>5 DEF Write
<1>6. CASE Finish BY <1>6 DEF Finish
<1>7. CASE Wait BY <1>7 DEF Wait
<1>8. CASE Catch BY <1>8 DEF Catch
<1>9. CASE Unwind BY <1>9 DEF Unwind
<1>10. CASE Reap BY <1>10 DEF Reap
<1>11. CASE Killed BY <1>11 DEF Killed
<1>12. CASE SshForwards BY <1>12 DEF SshForwards
<1>13. CASE SshForwardsEnd BY <1>13 DEF SshForwardsEnd
<1>14. CASE SshExits BY <1>14 DEF SshExits
<1>15. CASE ConnectionLost BY <1>15 DEF ConnectionLost
<1>16. CASE RemoteStarts BY <1>16 DEF RemoteStarts
<1>17. CASE DdWrites BY <1>17 DEF DdWrites
<1>18. CASE DdFails BY <1>18 DEF DdFails
<1>19. CASE DdEnds BY <1>19 DEF DdEnds
<1>20. CASE UNCHANGED vars BY <1>20 DEF vars
<1> QED BY <1>1, <1>2, <1>3, <1>4, <1>5, <1>6, <1>7, <1>8, <1>9, <1>10, <1>11,
     <1>12, <1>13, <1>14, <1>15, <1>16, <1>17, <1>18, <1>19, <1>20
     DEF Next, Kdumptool, Ssh, Target

\* A step keeps what perform() owes its data provider.
LEMMA ProviderStep == TypeOK /\ ProviderInv /\ [Next]_vars => ProviderInv'
<1> SUFFICES ASSUME TypeOK, ProviderInv, [Next]_vars PROVE ProviderInv'
  OBVIOUS
<1> USE SshAssumption DEF TypeOK, Steps, Ended, provider, child, target, ProviderInv
<1>1. CASE MakeDirectory BY <1>1 DEF MakeDirectory
<1>2. CASE Spawn BY <1>2 DEF Spawn
<1>3. CASE Prepare BY <1>3 DEF Prepare
<1>4. CASE GetData BY <1>4 DEF GetData
<1>5. CASE Write BY <1>5 DEF Write
<1>6. CASE Finish BY <1>6 DEF Finish
<1>7. CASE Wait BY <1>7 DEF Wait
<1>8. CASE Catch BY <1>8 DEF Catch
<1>9. CASE Unwind BY <1>9 DEF Unwind
<1>10. CASE Reap BY <1>10 DEF Reap
<1>11. CASE Killed BY <1>11 DEF Killed
<1>12. CASE SshForwards BY <1>12 DEF SshForwards
<1>13. CASE SshForwardsEnd BY <1>13 DEF SshForwardsEnd
<1>14. CASE SshExits BY <1>14 DEF SshExits
<1>15. CASE ConnectionLost BY <1>15 DEF ConnectionLost
<1>16. CASE RemoteStarts BY <1>16 DEF RemoteStarts
<1>17. CASE DdWrites BY <1>17 DEF DdWrites
<1>18. CASE DdFails BY <1>18 DEF DdFails
<1>19. CASE DdEnds BY <1>19 DEF DdEnds
<1>20. CASE UNCHANGED vars BY <1>20 DEF vars
<1> QED BY <1>1, <1>2, <1>3, <1>4, <1>5, <1>6, <1>7, <1>8, <1>9, <1>10, <1>11,
     <1>12, <1>13, <1>14, <1>15, <1>16, <1>17, <1>18, <1>19, <1>20
     DEF Next, Kdumptool, Ssh, Target

\* A step keeps what the target's files say about who has ended. A new child
\* (Spawn) matters only because nothing was started before it.
LEMMA TargetStep == TypeOK /\ ChildInv /\ TargetInv /\ [Next]_vars => TargetInv'
<1> SUFFICES ASSUME TypeOK, ChildInv, TargetInv, [Next]_vars PROVE TargetInv'
  OBVIOUS
<1> USE SshAssumption DEF TypeOK, Steps, Ended, provider, child, target, ChildInv, TargetInv
<1>1. CASE MakeDirectory BY <1>1 DEF MakeDirectory
<1>2. CASE Spawn BY <1>2 DEF Spawn
<1>3. CASE Prepare BY <1>3 DEF Prepare
<1>4. CASE GetData BY <1>4 DEF GetData
<1>5. CASE Write BY <1>5 DEF Write
<1>6. CASE Finish BY <1>6 DEF Finish
<1>7. CASE Wait BY <1>7 DEF Wait
<1>8. CASE Catch BY <1>8 DEF Catch
<1>9. CASE Unwind BY <1>9 DEF Unwind
<1>10. CASE Reap BY <1>10 DEF Reap
<1>11. CASE Killed BY <1>11 DEF Killed
<1>12. CASE SshForwards BY <1>12 DEF SshForwards
<1>13. CASE SshForwardsEnd BY <1>13 DEF SshForwardsEnd
<1>14. CASE SshExits BY <1>14 DEF SshExits
<1>15. CASE ConnectionLost BY <1>15 DEF ConnectionLost
<1>16. CASE RemoteStarts BY <1>16 DEF RemoteStarts
<1>17. CASE DdWrites BY <1>17 DEF DdWrites
<1>18. CASE DdFails BY <1>18 DEF DdFails
<1>19. CASE DdEnds BY <1>19 DEF DdEnds
<1>20. CASE UNCHANGED vars BY <1>20 DEF vars
<1> QED BY <1>1, <1>2, <1>3, <1>4, <1>5, <1>6, <1>7, <1>8, <1>9, <1>10, <1>11,
     <1>12, <1>13, <1>14, <1>15, <1>16, <1>17, <1>18, <1>19, <1>20
     DEF Next, Kdumptool, Ssh, Target

\* A step neither makes nor copies a block; the ranges follow from that.
LEMMA CountStep ==
  TypeOK /\ Conserved /\ ChildInv /\ TargetInv /\ [Next]_vars
    => (TypeOK /\ Conserved)'
<1> SUFFICES ASSUME TypeOK, Conserved, ChildInv, TargetInv, [Next]_vars
             PROVE  (TypeOK /\ Conserved)'
  OBVIOUS
<1> USE SshAssumption DEF TypeOK, Steps, Ended, provider, child, target,
        Conserved, ChildInv, TargetInv
<1> DEFINE size == IF incomplete = NoFile THEN 0 ELSE incomplete
<1>a. /\ Blocks \in Nat /\ PipeCap \in Nat
      /\ given \in Nat /\ pipe \in Nat /\ net \in Nat /\ size \in Nat
      /\ given <= Blocks /\ pipe <= PipeCap
      /\ pipe + net + size <= given
      /\ pc = "write" => pipe + net + size < given
  OBVIOUS
<1>1. CASE MakeDirectory BY <1>1 DEF MakeDirectory
<1>2. CASE Spawn BY <1>2 DEF Spawn
<1>3. CASE Prepare BY <1>3 DEF Prepare
<1>4. CASE GetData BY <1>a, <1>4 DEF GetData
<1>5. CASE Write
  <2>1. wopen' \in BOOLEAN BY <1>5, Zenon DEF Write
  <2>2. TypeOK' /\ Conserved' BY <1>a, <1>5, <2>1 DEF Write
  <2> QED BY <2>2
<1>6. CASE Finish BY <1>6 DEF Finish
<1>7. CASE Wait
  <2>1. wopen' \in BOOLEAN BY <1>7, Zenon DEF Wait
  <2>2. TypeOK' /\ Conserved' BY <1>a, <1>7, <2>1 DEF Wait
  <2> QED BY <2>2
<1>8. CASE Catch BY <1>8 DEF Catch
<1>9. CASE Unwind
  <2>1. conn' \in BOOLEAN BY <1>9, Zenon DEF Unwind
  <2>2. TypeOK' /\ Conserved' BY <1>a, <1>9, <2>1 DEF Unwind
  <2> QED BY <2>2
<1>10. CASE Reap
  <2>1. wopen' \in BOOLEAN BY <1>10, Zenon DEF Reap
  <2>2. TypeOK' /\ Conserved' BY <1>a, <1>10, <2>1 DEF Reap
  <2> QED BY <2>2
<1>11. CASE Killed BY <1>11 DEF Killed
<1>12. CASE SshForwards BY <1>a, <1>12 DEF SshForwards
<1>13. CASE SshForwardsEnd BY <1>13 DEF SshForwardsEnd
<1>14. CASE SshExits BY <1>14 DEF SshExits
<1>15. CASE ConnectionLost
  <2>1. conn' \in BOOLEAN BY <1>15, Zenon DEF ConnectionLost
  <2>2. /\ net' \in 0..net
        /\ UNCHANGED <<pc, sigpipe, given, finishes, prepared, pipe, wopen, ssh,
                       eof, remote, incomplete, final>>
    BY <1>15, Zenon DEF ConnectionLost
  <2>3. net' \in Nat /\ net' <= net
    BY <1>a, <2>2
  <2>4. TypeOK' BY <1>a, <2>1, <2>2, <2>3
  <2>5. /\ pipe + net' <= given /\ pipe + net' + size <= given
        /\ pc = "write" => pipe + net' < given /\ pipe + net' + size < given
    BY <1>a, <2>3, Fewer
  <2>6. incomplete # NoFile => incomplete = size
    OBVIOUS
  <2>7. Conserved' BY <2>2, <2>5, <2>6
  <2> QED BY <2>4, <2>7
<1>16. CASE RemoteStarts BY <1>a, <1>16 DEF RemoteStarts
<1>17. CASE DdWrites BY <1>a, <1>17 DEF DdWrites
<1>18. CASE DdFails BY <1>18 DEF DdFails
<1>19. CASE DdEnds BY <1>a, <1>19 DEF DdEnds
<1>20. CASE UNCHANGED vars BY <1>a, <1>20 DEF vars
<1> QED BY <1>1, <1>2, <1>3, <1>4, <1>5, <1>6, <1>7, <1>8, <1>9, <1>10, <1>11,
     <1>12, <1>13, <1>14, <1>15, <1>16, <1>17, <1>18, <1>19, <1>20
     DEF Next, Kdumptool, Ssh, Target

\* The five parts hold in every reachable state.
THEOREM Invariant == Spec => []IInv
<1>1. IInv /\ [Next]_vars => IInv'
  BY ChildStep, ProviderStep, TargetStep, CountStep DEF IInv
<1> QED BY InitIInv, <1>1, PTL DEF Spec

\* Every variable has its type and no buffer overflows, for a file and a pipe
\* of any size.
THEOREM TypeCorrect == Spec => []TypeOK
BY Invariant, PTL DEF IInv

\* perform() never leaves its ssh child behind.
THEOREM NoChildIsLeft == Spec => []NoChildLeft
<1>1. IInv => NoChildLeft BY DEF IInv, ChildInv, NoChildLeft
<1> QED BY Invariant, <1>1, PTL

\* DataProvider::finish() is called exactly once after a successful prepare().
THEOREM ProviderIsFinishedOnce == Spec => []FinishedOnce
<1>1. IInv => FinishedOnce BY DEF IInv, ProviderInv, FinishedOnce
<1> QED BY Invariant, <1>1, PTL

\* The final name appears on the target only after kdumptool or the connection
\* has ended, and never for a dd that failed.
THEOREM FinalNameComesLast == Spec => []NameMeansTheEnd
<1>1. IInv => NameMeansTheEnd
  BY DEF IInv, TypeOK, TargetInv, NameMeansTheEnd
<1> QED BY Invariant, <1>1, PTL
=============================================================================
