----------------------------- MODULE MCCrowdSec -----------------------------
(* An instance of CrowdSec for TLC.                                        *)
EXTENDS MCBlocklist, CrowdSec

CrowdView == <<SingleView, crowdVars>>
=============================================================================
