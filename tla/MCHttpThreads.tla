---------------------------- MODULE MCHttpThreads ----------------------------
(* HttpThreads with two clients, two handlers and one manager.  MaxTime,      *)
(* MaxStored and MaxSession are beyond what MaxTurns lets happen, so that     *)
(* they never stop a thread.                                                  *)
EXTENDS HttpThreads, TLC

CONSTANTS c1, c2, h1, h2, m1

Steps == {2}
Broken == {2}
=============================================================================
