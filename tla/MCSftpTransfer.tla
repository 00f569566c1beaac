-------------------------- MODULE MCSftpTransfer --------------------------
(* TLC instance of SftpTransfer: two addresses, two directories, two buffers. *)
EXTENDS SftpTransfer
=============================================================================
