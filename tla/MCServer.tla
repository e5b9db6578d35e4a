------------------------------ MODULE MCServer ------------------------------
(* Instances of Server for TLC: values for its constants.                  *)
EXTENDS Server, TLC

CONSTANTS c1, c2, c3

TwoClients == {c1, c2}
ThreeClients == {c1, c2, c3}
=============================================================================
