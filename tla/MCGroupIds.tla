----------------------------- MODULE MCGroupIds -----------------------------
(***************************************************************************)
(* GroupIds for TLC: a node that may listen, one client of it or two, and  *)
(* a group for the node and one client.  The other client asks for ids     *)
(* ahead, for groups to come.                                              *)
(***************************************************************************)
EXTENDS GroupIds

CONSTANTS server, ann, bob

Groups == [n \in Node |-> IF n = bob THEN 0 ELSE 1]
=============================================================================
