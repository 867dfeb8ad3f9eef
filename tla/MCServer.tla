------------------------------ MODULE MCServer ------------------------------
EXTENDS Server, TLC

CONSTANTS f1, f2, f3, c1, c2, c3, w1, w2, ann, bob, pw

(* Every account exists; registering is the subject of Sessions.           *)
MCInitialFile ==
  <<[username |-> ann, password |-> pw], [username |-> bob, password |-> pw]>>

MCSymmetry ==
  Permutations(Sockets) \cup Permutations(Conns) \cup Permutations(Workers)
=============================================================================
