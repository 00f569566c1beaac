--------------------------- MODULE MCPanicKernel ---------------------------
(* TLC instance of PanicKernel: a running realtime kernel, "uname -r" 5-rt.
   The initrds of 5 and of 5-kdump have the same name.                      *)
EXTENDS PanicKernel

RunningRt    == <<"5", "rt">>
SixVersions  == {<<"5">>, <<"5", "rt">>, <<"5", "kdump">>, <<"5", "default">>, <<"kdump">>, <<>>}

Image(t, reloc, config, xen, weak, v) ==
  [type |-> t, reloc |-> reloc, config |-> config, xen |-> xen, weak |-> weak, release |-> v]

\* What a file of that version may hold, the plain names the default kernel.
Release(v)  == IF v \in {<<>>, <<"kdump">>} THEN <<"5", "default">> ELSE v
Plain(t, v) == {Image(t, TRUE, TRUE, FALSE, weak, Release(v)) : weak \in BOOLEAN}
Odd(v)      == {Image("elf", FALSE, TRUE, FALSE, FALSE, Release(v)),
                Image("x86", TRUE, TRUE, TRUE, FALSE, Release(v)),
                Image("x86", TRUE, FALSE, FALSE, FALSE, Release(v)),
                Image("none", FALSE, FALSE, FALSE, FALSE, Release(v))}
ImagesOf(s) == Plain(IF s[1] = "vmlinuz" THEN "x86" ELSE "elf", s[2])

Boot(f) == [s \in Slots |-> IF s \in DOMAIN f THEN [image |-> f[s], mtime |-> 0] ELSE NoFile]

\* Up to two usable files, or one of any kind.
FewFiles ==
  {Boot(f) : f \in UNION {{g \in [S -> UNION {ImagesOf(s) : s \in S}] :
                             \A s \in S : g[s] \in ImagesOf(s)} :
                          S \in {{s, t} : s, t \in Slots}}}
  \cup UNION {{Boot([s \in {t} |-> i]) : i \in Odd(t[2])} : t \in Slots}

NewImages  == {Image("x86", TRUE, TRUE, FALSE, FALSE, v) :
                 v \in {<<"5", "rt">>, <<"5", "default">>, <<"5", "kdump">>}}
                \cup Odd(<<>>)
TwoWishes  == {NotSet, <<"5">>}
=============================================================================
