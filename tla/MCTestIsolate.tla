---------------------------- MODULE MCTestIsolate ----------------------------
(* Instances of the isolated test runner for TLC.                           *)
EXTENDS TestIsolateProperties
=============================================================================
