------------------------------- MODULE Filter -------------------------------
(***************************************************************************)
(* What a caller of ProcessFilter::execute() relies on, without pipes,     *)
(* polling and buffers: a command is fed, it makes output, the output is   *)
(* taken, and the call returns when all of that is over. The call tells a  *)
(* command that failed from one that did not, and nothing more: for one    *)
(* that was killed by a signal, WEXITSTATUS() is 0.                        *)
(***************************************************************************)
EXTENDS Naturals

CONSTANT Outs   \* the file descriptors whose output can be collected

VARIABLES
  phase,   \* what the caller sees of the call
  left,    \* units of input that were not handed to the command yet
  made,    \* units of output the command has written, for each descriptor
  got,     \* units of output the caller has, for each descriptor
  ended    \* how the command ended; "none": it was never started

fvars == <<phase, left, made, got, ended>>

FInit ==
  /\ phase = "idle" /\ left = 0 /\ ended = "none"
  /\ made = [o \in Outs |-> 0] /\ got = [o \in Outs |-> 0]

Begin ==
  /\ phase # "running" /\ phase' = "running"
  /\ left' \in Nat /\ ended' = "none"
  /\ made' = [o \in Outs |-> 0] /\ got' = [o \in Outs |-> 0]

Start ==
  /\ phase = "running" /\ ended = "none" /\ ended' = "no"
  /\ UNCHANGED <<phase, left, made, got>>

Give ==
  /\ phase = "running" /\ ended # "none"
  /\ left' \in Nat /\ left' < left
  /\ UNCHANGED <<phase, made, got, ended>>

Make(o) ==
  /\ phase = "running" /\ ended = "no"
  /\ made' = [made EXCEPT ![o] = @ + 1]
  /\ UNCHANGED <<phase, left, got, ended>>

Take(o) ==
  /\ phase = "running"
  /\ got' \in [Outs -> Nat] /\ got[o] < got'[o] /\ got'[o] <= made[o]
  /\ \A p \in Outs \ {o} : got'[p] = got[p]
  /\ UNCHANGED <<phase, left, made, ended>>

End ==
  /\ phase = "running" /\ ended = "no" /\ ended' \in {"ok", "fail", "signal"}
  /\ UNCHANGED <<phase, left, made, got>>

\* Nothing is left to give or to take, and the command is gone.
Return ==
  /\ phase = "running" /\ ended \in {"ok", "fail", "signal"}
  /\ left = 0 /\ got = made
  /\ phase' = IF ended = "fail" THEN "fail" ELSE "ok"
  /\ UNCHANGED <<left, made, got, ended>>

\* An exception may lose input and output, but leaves no command behind.
Throw ==
  /\ phase = "running" /\ ended # "no" /\ phase' = "thrown"
  /\ UNCHANGED <<left, made, got, ended>>

FNext ==
  \/ Begin \/ Start \/ Give \/ End \/ Return \/ Throw
  \/ \E o \in Outs : Make(o) \/ Take(o)

FilterSpec == FInit /\ [][FNext]_fvars
=============================================================================
