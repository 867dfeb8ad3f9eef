----------------------------- MODULE Admission -----------------------------
(***************************************************************************)
(* What the server promises to those who connect, whatever threads, maps   *)
(* and counters it uses: a connection whose handshake is done is refused   *)
(* only while MaxClients others are inside, never more than MaxClients are *)
(* inside, and one that is let in is served once and then leaves.          *)
(***************************************************************************)
EXTENDS Naturals, FiniteSets

CONSTANTS Conns, MaxClients

VARIABLE phase  \* "idle", "waiting", "secured", "admitted", "served" or "done"

Inside == {c \in Conns : phase[c] \in {"admitted", "served"}}

Move(c, from, to) ==
  /\ phase[c] = from
  /\ phase' = [phase EXCEPT ![c] = to]

Init == phase = [c \in Conns |-> "idle"]

Arrive(c)  == Move(c, "idle", "waiting")
Secure(c)  == Move(c, "waiting", "secured")
Fail(c)    == Move(c, "waiting", "done")
Admit(c)   == Cardinality(Inside) < MaxClients /\ Move(c, "secured", "admitted")
Refuse(c)  == Cardinality(Inside) = MaxClients /\ Move(c, "secured", "done")
Serve(c)   == Move(c, "admitted", "served")
Release(c) == Move(c, "served", "done")

Next == \E c \in Conns :
  \/ Arrive(c) \/ Secure(c) \/ Fail(c) \/ Admit(c) \/ Refuse(c)
  \/ Serve(c) \/ Release(c)

Spec == Init /\ [][Next]_phase
=============================================================================
