----------------------------- MODULE MCSessions -----------------------------
EXTENDS Sessions, TLC

CONSTANTS s1, s2, ann, bob, p1, p2

(* users.txt holds one account when the server is first started.           *)
MCInitialFile == <<[username |-> ann, password |-> p1]>>

SocketSymmetry == Permutations(Sockets)
=============================================================================
