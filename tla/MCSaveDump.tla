---------------------------- MODULE MCSaveDump ----------------------------
(* TLC instances of SaveDump: two targets, dumps split into up to 3 parts. *)
EXTENDS SaveDump

MCDirs == {"dirA", "dirB"}
MCPart == <<"vmcore1", "vmcore2", "vmcore3", "vmcore4">>

Base == [kind |-> "file", urls |-> <<"dirA">>, cont |-> FALSE,
         format |-> "compressed", level |-> 31, cpus |-> 1, online |-> 2,
         flags |-> {}, xen |-> FALSE, mail |-> TRUE, copyKernel |-> TRUE]

\* Every way to run saveDump(), on one and on two targets.
Modes ==
  {[Base EXCEPT !.kind = k, !.urls = u, !.cont = c] :
     k \in {"file", "mount", "stream"}, u \in {<<"dirA">>, <<"dirA", "dirB">>},
     c \in BOOLEAN}

\* Four processors configured and three, or one, online.
SplitModes ==
  {[m EXCEPT !.cpus = 4, !.online = n, !.flags = f] :
     m \in Modes, n \in {1, 3}, f \in {{"SPLIT"}, {"NOSPLIT"}, {"SINGLE"}}}

ElfModes ==
  {[m EXCEPT !.format = "elf", !.level = l, !.xen = (l = 1), !.cpus = 2] :
     m \in Modes, l \in {0, 1, 99}}

OtherModes ==
  {[m EXCEPT !.format = "none"] : m \in Modes}
    \cup {[m EXCEPT !.mail = FALSE, !.copyKernel = FALSE] : m \in Modes}

AllConfigs == Modes \cup SplitModes \cup ElfModes \cup OtherModes

\* Single configurations for the runs that exhibit a disagreement.
ContinueOnly == {[Base EXCEPT !.cont = TRUE]}
StopOnly     == {Base}
=============================================================================
