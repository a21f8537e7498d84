------------------------------- MODULE Procs -------------------------------
(* The processes, for every module that is about those of the kernel.      *)

CONSTANT Proc          \* the processes of the model
=============================================================================
