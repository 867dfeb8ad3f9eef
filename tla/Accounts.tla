------------------------------ MODULE Accounts ------------------------------
(***************************************************************************)
(* What the account service promises, whatever its data structures: an     *)
(* account is registered once, is in the hands of at most one client       *)
(* connection at a time and of a connection that holds no other account,   *)
(* and a restart of the server ends every session and keeps the accounts   *)
(* that had been made durable.                                             *)
(***************************************************************************)
CONSTANTS Sockets, Names, NoSocket

VARIABLES
  registered,  \* the accounts a client can log in to
  durable,     \* the accounts that survive a restart
  owner        \* owner[n]: the connection logged in as n, or NoSocket

vars == <<registered, durable, owner>>

Init ==
  /\ registered \in SUBSET Names
  /\ durable = registered
  /\ owner = [n \in Names |-> NoSocket]

Register(n) ==
  /\ n \notin registered
  /\ registered' = registered \cup {n}
  /\ UNCHANGED <<durable, owner>>

Persist(n) ==
  /\ n \in registered
  /\ durable' = durable \cup {n}
  /\ UNCHANGED <<registered, owner>>

Login(n, s) ==
  /\ n \in registered
  /\ owner[n] = NoSocket
  /\ \A m \in Names : owner[m] # s
  /\ owner' = [owner EXCEPT ![n] = s]
  /\ UNCHANGED <<registered, durable>>

Logout(n) ==
  /\ owner' = [owner EXCEPT ![n] = NoSocket]
  /\ UNCHANGED <<registered, durable>>

Restart ==
  /\ registered' = durable
  /\ owner' = [n \in Names |-> NoSocket]
  /\ UNCHANGED durable

Next ==
  \/ \E n \in Names : Register(n) \/ Persist(n) \/ Logout(n)
  \/ \E n \in Names, s \in Sockets : Login(n, s)
  \/ Restart

Spec == Init /\ [][Next]_vars
=============================================================================
