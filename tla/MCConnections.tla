--------------------------- MODULE MCConnections ---------------------------
(***************************************************************************)
(* Connections with a server and one or two clients, or with two peers,    *)
(* for TLC: how often each of them may connect.                            *)
(***************************************************************************)
EXTENDS Connections

CONSTANTS ann, bob      \* nodes that connect

Once == [n \in Node |-> 1]
Twice == [n \in Node |-> 2]

\* ann comes back; bob, if he is there, connects once and hears of her.
AnnTwice == (bob :> 1) @@ [n \in Node |-> IF n = ann THEN 2 ELSE 0]
=============================================================================
