------------------------------ MODULE MCWatch ------------------------------
(***************************************************************************)
(* Watch for TLC.  Instances interact only through etcd, which module      *)
(* Watch lets anybody write, so one instance already meets every history.  *)
(***************************************************************************)
EXTENDS Watch, TLC

ValueSymmetry == Permutations(Values)
=============================================================================
