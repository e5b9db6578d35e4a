-------------------------- MODULE MCCachePipeline --------------------------
(* Instances of CachePipeline for TLC: values for its constants.           *)
EXTENDS CachePipeline

CONSTANTS r1, r2, g1, h1

TwoRequests == {r1, r2}
OneGet == {g1}
OneHead == {h1}
NoHead == {}
One == {1}
=============================================================================
