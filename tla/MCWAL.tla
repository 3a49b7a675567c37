------------------------------- MODULE MCWAL -------------------------------
(***************************************************************************)
(* The write-ahead log for TLC.                                            *)
(***************************************************************************)
EXTENDS WAL
=============================================================================
