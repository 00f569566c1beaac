-------------------------- MODULE MCRemoteTransfers --------------------------
(* TLC instance of RemoteTransfers: up to two targets, the same share twice,   *)
(* two shares, one below the other in both orders, or two protocols, and three *)
(* files with each kind of data provider.                                      *)
EXTENDS RemoteTransfers

Url(p, s, slash) == [proto |-> p, share |-> s, slash |-> slash]

A == <<"host", "a">>
B == <<"host", "b">>
InA == <<"host", "a", "c">>

MCTargets ==
  {<<Url("ftp", A, TRUE)>>, <<Url("nfs", A, TRUE)>>, <<Url("cifs", A, TRUE)>>}
  \union {<<Url("nfs", A, TRUE), Url("nfs", s, TRUE)>> : s \in {A, B, InA}}
  \union {<<Url("nfs", InA, TRUE), Url("nfs", A, TRUE)>>}
  \union {<<Url("nfs", A, TRUE), Url("cifs", B, TRUE)>>}
  \union {<<Url("cifs", A, TRUE), Url("cifs", s, slash)>> :
            s \in {A, B}, slash \in BOOLEAN}

MCFiles == <<"file", "process", "buffer">>
=============================================================================
