------------------------------ MODULE CidrMap ------------------------------
(***************************************************************************)
(* What the CIDR table promises its callers: a map from canonical networks *)
(* to blocks, in which one operation changes one network.                  *)
(***************************************************************************)
CONSTANTS
  Nets,     \* canonical CIDR strings
  Blocks,   \* what is stored with a network
  NoBlock   \* the network is not in the table

VARIABLE block

MapInit == block = [c \in Nets |-> NoBlock]

Put(c, b) == block' = [block EXCEPT ![c] = b]

Delete(c) == block' = [block EXCEPT ![c] = NoBlock]

MapNext == \E c \in Nets : Delete(c) \/ \E b \in Blocks : Put(c, b)

MapSpec == MapInit /\ [][MapNext]_block
=============================================================================
