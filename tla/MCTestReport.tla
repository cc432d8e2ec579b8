---------------------------- MODULE MCTestReport ----------------------------
(* Two results make a report (N = 2); the interface comes up three times.  *)
EXTENDS TestReport
=============================================================================
