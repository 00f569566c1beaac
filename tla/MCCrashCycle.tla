---------------------------- MODULE MCCrashCycle ----------------------------
(* TLC instances of CrashCycle: up to four crashes, one or two directories. *)
EXTENDS CrashCycle

OneDir  == <<"local">>
TwoDirs == <<"local", "second">>
BothLocal == {"local", "second"}

Base == [continue |-> "false", reboot |-> TRUE, custom |-> FALSE,
         split |-> FALSE, sourced |-> FALSE]

\* An attended machine, one that is never rebooted by the script, and an
\* unattended one.
MCSettings ==
  {Base, [Base EXCEPT !.sourced = TRUE, !.reboot = FALSE],
         [Base EXCEPT !.continue = "TRUE", !.custom = TRUE]}

JustBase  == {Base}
SplitOnly == {[Base EXCEPT !.split = TRUE]}
=============================================================================
