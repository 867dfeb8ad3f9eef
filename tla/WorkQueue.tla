----------------------------- MODULE WorkQueue -----------------------------
(***************************************************************************)
(* The pool as its users see it (Server has the same two steps, Enqueue    *)
(* and TakeJob): jobs leave the queue in the order they came, each to one  *)
(* worker that is free, and a worker ends only once the queue is closed    *)
(* and empty.                                                              *)
(***************************************************************************)
EXTENDS Sequences

CONSTANTS Workers, Jobs, NoJob

VARIABLES queue, job, ended, open

vars == <<queue, job, ended, open>>

Init ==
  /\ queue = <<>> /\ open = TRUE
  /\ job = [w \in Workers |-> NoJob]
  /\ ended \in SUBSET Workers

Enqueue(j) ==
  /\ open /\ queue' = Append(queue, j)
  /\ UNCHANGED <<job, ended, open>>

TakeJob(w) ==
  /\ queue # <<>> /\ job[w] = NoJob /\ w \notin ended
  /\ job' = [job EXCEPT ![w] = Head(queue)]
  /\ queue' = Tail(queue)
  /\ UNCHANGED <<ended, open>>

Finish(w) ==
  /\ job' = [job EXCEPT ![w] = NoJob]
  /\ UNCHANGED <<queue, ended, open>>

Close ==
  /\ open /\ open' = FALSE
  /\ UNCHANGED <<queue, job, ended>>

End(w) ==
  /\ ~open /\ queue = <<>> /\ job[w] = NoJob
  /\ ended' = ended \cup {w}
  /\ UNCHANGED <<queue, job, open>>

(* What is left when nobody can take it any more is thrown away.           *)
Discard ==
  /\ ~open /\ ended = Workers /\ queue # <<>>
  /\ queue' = Tail(queue)
  /\ UNCHANGED <<job, ended, open>>

Next ==
  \/ \E j \in Jobs : Enqueue(j)
  \/ \E w \in Workers : TakeJob(w) \/ Finish(w) \/ End(w)
  \/ Close \/ Discard

Spec == Init /\ [][Next]_vars
=============================================================================
