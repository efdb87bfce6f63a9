------------------------------ MODULE MCTables ------------------------------
(***************************************************************************)
(* The parts of the program that have no concurrency of their own, for     *)
(* TLC: Names, CidrTable and Ipv4Text.  They have nothing in common: a     *)
(* behaviour is one of the first, of the second or of the third.           *)
(***************************************************************************)
EXTENDS MCNames, MCCidrTable, Ipv4Text, FiniteSets

CONSTANT MaxBlocks  \* bound: addresses blocked at once

Few == Cardinality({key \in Keys : store[key] # None}) <= MaxBlocks

TablesInit == Init /\ CidrInit /\ text = <<>>

TablesNext ==
  \/ Next /\ Few' /\ UNCHANGED <<vars, text>> /\ CidrInit /\ text = <<>>
  \/ CidrNext /\ UNCHANGED <<namesVars, text>> /\ Init /\ ~multi /\ text = <<>>
  \/ longer /\ UNCHANGED <<namesVars, vars>> /\ Init /\ ~multi /\ CidrInit

TablesSpec == TablesInit /\ [][TablesNext]_<<namesVars, vars, text>>
=============================================================================
