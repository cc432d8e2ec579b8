--------------------------- MODULE MCAppWorkQueue ---------------------------
(* The two work items and the three threads of the application.            *)
EXTENDS AppWorkQueue
CONSTANTS NetEvent, TestResult   \* net_event_work and tc_work
CONSTANTS MainThread, NetMgmt, Engine
Items   == {NetEvent, TestResult}
Threads == {MainThread, NetMgmt, Engine}
=============================================================================
