------------------------------ MODULE MCThreads ------------------------------
(* Instances of the threads model for TLC.                                 *)
EXTENDS ThreadsProperties
=============================================================================
