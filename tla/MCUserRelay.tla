---------------------------- MODULE MCUserRelay ----------------------------
(***************************************************************************)
(* UserRelay for TLC: two listening nodes that are connected, a client of  *)
(* each, and one more that the first one has given up and that does not    *)
(* know it yet.                                                            *)
(***************************************************************************)
EXTENDS UserRelay, TLC

CONSTANTS alice, server1, server2, bob, carol

Links == (alice :> <<server1>>) @@ (server1 :> <<alice, server2, carol>>)
         @@ (server2 :> <<bob, server1>>) @@ (bob :> <<server2>>)
         @@ (carol :> <<server1>>)

NoConnection == {<<server1, carol>>}

Sends == (alice :> 2) @@ (carol :> 1) @@ [n \in Node |-> 0]
=============================================================================
