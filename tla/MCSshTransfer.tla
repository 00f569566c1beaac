--------------------------- MODULE MCSshTransfer ---------------------------
(* TLC instance of SshTransfer: a file longer than the pipe. *)
EXTENDS SshTransfer
=============================================================================
