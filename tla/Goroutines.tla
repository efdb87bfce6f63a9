----------------------------- MODULE Goroutines -----------------------------
(***************************************************************************)
(* The goroutines of one instance.                                         *)
(***************************************************************************)

CONSTANTS
  Procs,  \* goroutines
  None    \* no goroutine, no buffer, nothing

ASSUME GoroutinesAssumption == None \notin Procs
=============================================================================
