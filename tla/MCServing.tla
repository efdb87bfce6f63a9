----------------------------- MODULE MCServing -----------------------------
(***************************************************************************)
(* Serving for TLC: two goroutines at a time.                              *)
(***************************************************************************)
EXTENDS Serving

CONSTANTS b1

\* A single instance that logs requests not at all, and one of several that
\* logs everything.
MCConfigs == {<<FALSE, FALSE, FALSE>>, <<TRUE, FALSE, TRUE>>}

MCMade == <<b1>>
=============================================================================
