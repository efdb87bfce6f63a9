------------------------------ MODULE MCNames ------------------------------
(* An instance of Names for TLC.                                           *)
EXTENDS Names

CONSTANT ha  \* the digit a

\* Two IPv4 addresses; the first spells the end of an IPv6 address that has no
\* zeros to leave out, and the other IPv6 address ends in no IPv4 address.
MCV4 == {<<1, 2, 3, 4>>, <<1, 2, 3, 10>>}
MCV6 == {<<2, 0, 0, 1, 1, 2, 3, 4>>, <<2, 0, 0, 1, 0, 0, 0, ha>>}
=============================================================================
