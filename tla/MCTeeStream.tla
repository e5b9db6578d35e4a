---------------------------- MODULE MCTeeStream ----------------------------
(* Instances of TeeStream for TLC: values for its constants.               *)
EXTENDS TeeStream

EveryFault == {"create", "write", "flush", "rename", "store"}
=============================================================================
