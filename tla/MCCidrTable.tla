---------------------------- MODULE MCCidrTable ----------------------------
(* An instance of CidrTable for TLC: nested networks of three sizes.       *)
EXTENDS CidrTable

CONSTANTS ip1, ip2, net1, net2, net3

MCContains == {<<ip1, net1>>, <<ip1, net2>>, <<ip1, net3>>,
               <<ip2, net2>>, <<ip2, net3>>}
=============================================================================
