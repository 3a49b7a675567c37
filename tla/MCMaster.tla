------------------------------ MODULE MCMaster ------------------------------
(***************************************************************************)
(* The single master for TLC.                                              *)
(***************************************************************************)
EXTENDS Master
=============================================================================
