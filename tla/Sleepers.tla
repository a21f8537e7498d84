------------------------------ MODULE Sleepers ------------------------------
(* What SleepWakeup and Tsleep are about: processes, what they sleep on.   *)
EXTENDS Procs

CONSTANTS
  Rendez,              \* the Rendez structures
  None                 \* nil

ASSUME NoneAssumption == None \notin Proc \cup Rendez
=============================================================================
