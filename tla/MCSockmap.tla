----------------------------- MODULE MCSockmap -----------------------------
(* Two clients of one server port; bytes have four values. *)
EXTENDS Sockmap, TLC

CONSTANTS client1, server1, client2, server2

MCPeer == client1 :> server1 @@ server1 :> client1 @@ client2 :> server2 @@ server2 :> client2
MCLocal == client1 :> 6 @@ client2 :> 9 @@ server1 :> 4 @@ server2 :> 4

Symmetry == Permutations(CPUs)
=============================================================================
