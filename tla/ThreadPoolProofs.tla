-------------------------- MODULE ThreadPoolProofs --------------------------
(***************************************************************************)
(* Theorems about ThreadPool: for any finite set of threads, of which any  *)
(* number could be created, any jobs and any limit on them.                *)
(***************************************************************************)
EXTENDS ThreadPool, FiniteSetTheorems, SequenceTheorems, TLAPS

-----------------------------------------------------------------------------
(* The inductive invariant.                                                *)

(* A thread that could not be created has no place; shutdown, run by the   *)
(* thread that adds jobs, clears isRunning in its first step.              *)
Stages ==
  /\ \A w \in Threads : pc[w] = "none" <=> w \notin workers
  /\ isRunning <=> mainPc = "run"

(* A worker leaves only a pool that is shut down and has no job left, and  *)
(* nothing is added to it any more.                                        *)
ExitedLast == At("exited") # {} => ~isRunning /\ jobQueue = <<>>

PoolInv == TypeOK /\ Stages /\ NoSleepAfterShutdown /\ NoLostWakeup /\ ExitedLast

-----------------------------------------------------------------------------
(* Lemmas.                                                                 *)

(* What a step of one thread does to the threads at a place.               *)
LEMMA Moved ==
  ASSUME pc \in [Threads -> PCs], NEW w \in Threads, NEW to, Goto(w, to)
  PROVE  /\ At(to)' = At(to) \cup {w}
         /\ \A place : place # to => At(place)' = At(place) \ {w}
  BY DEF At, Goto

LEMMA FinitePlaces ==
  ASSUME NEW place
  PROVE  /\ IsFiniteSet(At(place))
         /\ Cardinality(At(place)) \in Nat
         /\ At(place) # {} => Cardinality(At(place)) > 0
<1>1. At(place) \in SUBSET Threads /\ IsFiniteSet(Threads)
  BY PoolAssumption DEF At
<1>2. IsFiniteSet(At(place))
  BY <1>1, FS_Subset
<1> QED
  BY <1>2, FS_CardinalityType, FS_EmptySet

(* The threads about to look at the queue, when one joins or leaves them.  *)
LEMMA OneMore ==
  ASSUME pc \in [Threads -> PCs], NEW w \in Threads, pc[w] # "get", Goto(w, "get")
  PROVE  Cardinality(At("get"))' = Cardinality(At("get")) + 1
<1>1. At("get")' = At("get") \cup {w}
  BY Moved
<1>2. w \notin At("get") /\ IsFiniteSet(At("get"))
  BY FinitePlaces DEF At
<1>3. Cardinality(At("get") \cup {w}) = Cardinality(At("get")) + 1
  BY <1>2, FS_AddElement
<1> QED
  BY <1>1, <1>3

LEMMA OneLess ==
  ASSUME pc \in [Threads -> PCs], NEW w \in Threads, pc[w] = "get",
         NEW to, to # "get", Goto(w, to)
  PROVE  Cardinality(At("get"))' = Cardinality(At("get")) - 1
<1>1. At("get")' = At("get") \ {w}
  BY Moved
<1>2. w \in At("get") /\ IsFiniteSet(At("get"))
  BY FinitePlaces DEF At
<1>3. Cardinality(At("get") \ {w}) = Cardinality(At("get")) - 1
  BY <1>2, FS_RemoveElement
<1> QED
  BY <1>1, <1>3

-----------------------------------------------------------------------------
(* Type correctness.                                                       *)

LEMMA TypeInit == Init => TypeOK
<1> SUFFICES ASSUME Init PROVE TypeOK
  OBVIOUS
<1>1. jobQueue \in Seq(Jobs)
  BY EmptySeq DEF Init
<1>2. NoJob \notin Jobs
  BY PoolAssumption
<1> QED
  BY <1>1, <1>2 DEF Init, TypeOK, PCs

LEMMA TypeStep == TypeOK /\ [Next]_vars => TypeOK'
<1> SUFFICES ASSUME TypeOK, [Next]_vars PROVE TypeOK'
  OBVIOUS
<1> USE PoolAssumption DEF TypeOK, PCs
<1>1. ASSUME NEW w \in Threads, Wait(w) PROVE TypeOK'
  BY <1>1 DEF Wait, Goto
<1>2. ASSUME NEW w \in Threads, SpuriousWakeup(w) PROVE TypeOK'
  BY <1>2 DEF SpuriousWakeup, Goto
<1>3. ASSUME NEW w \in Threads, Exit(w) PROVE TypeOK'
  BY <1>3 DEF Exit, Goto
<1>4. ASSUME NEW w \in Threads, GetJob(w) PROVE TypeOK'
  <2>1. Head(jobQueue) \in Jobs /\ Tail(jobQueue) \in Seq(Jobs)
    BY <1>4, HeadTailProperties DEF GetJob
  <2> QED
    BY <1>4, <2>1 DEF GetJob, Goto
<1>5. ASSUME NEW w \in Threads, GiveBack(w) PROVE TypeOK'
  BY <1>5 DEF GiveBack, Goto
<1>6. ASSUME NEW w \in Threads, Return(w) PROVE TypeOK'
  BY <1>6 DEF Return, Goto
<1>7. ASSUME NEW j \in Jobs, AddJob(j) PROVE TypeOK'
  <2>1. Append(jobQueue, j) \in Seq(Jobs)
    BY AppendProperties
  <2> QED
    BY <1>7, <2>1 DEF AddJob, Signal, Goto, At
<1>8. CASE Shutdown
  BY <1>8 DEF Shutdown, Broadcast
<1>9. CASE Drain
  <2>1. Tail(jobQueue) \in Seq(Jobs)
    BY <1>9, HeadTailProperties DEF Drain
  <2> QED
    BY <1>9, <2>1 DEF Drain
<1>10. CASE Stopped
  BY <1>10 DEF Stopped
<1>11. CASE UNCHANGED vars
  BY <1>11 DEF vars
<1> QED
  BY <1>1, <1>2, <1>3, <1>4, <1>5, <1>6, <1>7, <1>8, <1>9, <1>10, <1>11
     DEF Next, Take, Owner, Finished

(* Type correctness of the pool.                                           *)
THEOREM PoolTypeOK == Spec => []TypeOK
<1>1. QED
  BY TypeInit, TypeStep, PTL DEF Spec

-----------------------------------------------------------------------------
(* Wake-ups.                                                               *)

LEMMA InvInit == Init => PoolInv
<1> SUFFICES ASSUME Init PROVE PoolInv
  OBVIOUS
<1>1. TypeOK
  BY TypeInit
<1>2. At("asleep") = {} /\ At("exited") = {}
  BY DEF Init, At
<1>3. Stages
  BY DEF Init, Stages
<1> QED
  BY <1>1, <1>2, <1>3 DEF PoolInv, NoSleepAfterShutdown, NoLostWakeup, ExitedLast

(* One lemma per step, or per group of steps that are alike.               *)
LEMMA InvWait ==
  ASSUME PoolInv, TypeOK', NEW w \in Threads, Wait(w)
  PROVE  PoolInv'
<1> USE DEF PoolInv, Wait
<1>1. Stages'
  BY DEF TypeOK, Stages, Goto
<1>2. At("exited")' = At("exited")
  BY DEF At, Goto, TypeOK
<1>3. Len(jobQueue') = 0
  BY EmptySeq
<1>4. (Cardinality(At("get")) \in Nat)'
  BY FinitePlaces, PoolAssumption, FS_Subset, FS_CardinalityType DEF At
<1> QED
  BY <1>1, <1>2, <1>3, <1>4 DEF NoSleepAfterShutdown, NoLostWakeup, ExitedLast

LEMMA InvWakeup ==
  ASSUME PoolInv, TypeOK', NEW w \in Threads, SpuriousWakeup(w)
  PROVE  PoolInv'
<1> USE DEF PoolInv, SpuriousWakeup
<1>1. Stages'
  BY DEF TypeOK, Stages, Goto
<1>2. At("exited")' = At("exited")
  BY DEF At, Goto, TypeOK
<1>3. At("asleep")' = At("asleep") \ {w} /\ w \in At("asleep")
  BY DEF At, Goto, TypeOK
<1>4. Cardinality(At("get"))' = Cardinality(At("get")) + 1
  BY OneMore DEF TypeOK
<1>5. Len(jobQueue) \in Nat /\ Cardinality(At("get")) \in Nat
  BY FinitePlaces, LenProperties DEF TypeOK
<1> QED
  BY <1>1, <1>2, <1>3, <1>4, <1>5 DEF NoSleepAfterShutdown, NoLostWakeup, ExitedLast

LEMMA InvExit ==
  ASSUME PoolInv, TypeOK', NEW w \in Threads, Exit(w)
  PROVE  PoolInv'
<1> USE DEF PoolInv, Exit
<1>1. Stages'
  BY DEF TypeOK, Stages, Goto
<1>2. At("asleep")' = {}
  BY DEF At, Goto, TypeOK, NoSleepAfterShutdown
<1> QED
  BY <1>1, <1>2 DEF NoSleepAfterShutdown, NoLostWakeup, ExitedLast

LEMMA InvGetJob ==
  ASSUME PoolInv, TypeOK', NEW w \in Threads, GetJob(w)
  PROVE  PoolInv'
<1> USE DEF PoolInv, GetJob
<1>1. Stages'
  BY DEF TypeOK, Stages, Goto
<1>2. At("exited")' = At("exited") /\ At("asleep")' = At("asleep")
  BY DEF At, Goto, TypeOK
<1>3. Cardinality(At("get"))' = Cardinality(At("get")) - 1
  BY OneLess DEF TypeOK
<1>4. Len(jobQueue') = Len(jobQueue) - 1
  BY HeadTailProperties DEF TypeOK
<1>5. Len(jobQueue) \in Nat /\ Cardinality(At("get")) \in Nat
  BY FinitePlaces, LenProperties DEF TypeOK
<1> QED
  BY <1>1, <1>2, <1>3, <1>4, <1>5 DEF NoSleepAfterShutdown, NoLostWakeup, ExitedLast

LEMMA InvGiveBack ==
  ASSUME PoolInv, TypeOK', NEW w \in Threads, GiveBack(w)
  PROVE  PoolInv'
<1> USE DEF PoolInv, GiveBack
<1>1. Stages'
  BY DEF TypeOK, Stages, Goto
<1>2. /\ At("exited")' = At("exited") /\ At("asleep")' = At("asleep")
      /\ At("get")' = At("get")
  BY DEF At, Goto, TypeOK
<1> QED
  BY <1>1, <1>2 DEF NoSleepAfterShutdown, NoLostWakeup, ExitedLast

LEMMA InvReturn ==
  ASSUME PoolInv, TypeOK', NEW w \in Threads, Return(w)
  PROVE  PoolInv'
<1> USE DEF PoolInv, Return
<1>1. Stages'
  BY DEF TypeOK, Stages, Goto
<1>2. At("exited")' = At("exited") /\ At("asleep")' = At("asleep")
  BY DEF At, Goto, TypeOK
<1>3. Cardinality(At("get"))' = Cardinality(At("get")) + 1
  BY OneMore DEF TypeOK
<1>4. Len(jobQueue) \in Nat /\ Cardinality(At("get")) \in Nat
  BY FinitePlaces, LenProperties DEF TypeOK
<1> QED
  BY <1>1, <1>2, <1>3, <1>4 DEF NoSleepAfterShutdown, NoLostWakeup, ExitedLast

(* A new job: the signal adds a thread that is about to look, or there is  *)
(* no sleeper.                                                             *)
LEMMA InvAddJob ==
  ASSUME PoolInv, TypeOK', NEW j \in Jobs, AddJob(j)
  PROVE  PoolInv'
<1> USE DEF PoolInv, AddJob
<1>1. At("exited") = {}
  BY DEF Stages, ExitedLast
<1>2. Len(jobQueue') = Len(jobQueue) + 1
  BY AppendProperties DEF TypeOK
<1>3. Len(jobQueue) \in Nat /\ Cardinality(At("get")) \in Nat
  BY FinitePlaces, LenProperties DEF TypeOK
<1>4. isRunning'
  BY DEF Stages
<1>5. CASE At("asleep") = {}
  <2>1. pc' = pc
    BY <1>5 DEF Signal
  <2>2. Stages'
    BY <2>1 DEF Stages
  <2> QED
    BY <1>1, <1>4, <1>5, <2>1, <2>2
       DEF NoSleepAfterShutdown, NoLostWakeup, ExitedLast, At
<1>6. CASE At("asleep") # {}
  <2>1. PICK w \in At("asleep") : Goto(w, "get")
    BY <1>6 DEF Signal
  <2>2. w \in Threads /\ pc[w] = "asleep"
    BY <2>1 DEF At
  <2>3. Cardinality(At("get"))' = Cardinality(At("get")) + 1
    BY <2>1, <2>2, OneMore DEF TypeOK
  <2>4. At("exited")' = {}
    BY <1>1, <2>1, <2>2 DEF At, Goto, TypeOK
  <2>5. Stages'
    BY <2>1, <2>2 DEF Stages, Goto, TypeOK
  <2> QED
    BY <1>2, <1>3, <1>4, <1>6, <2>3, <2>4, <2>5
       DEF NoSleepAfterShutdown, NoLostWakeup, ExitedLast
<1> QED
  BY <1>5, <1>6

LEMMA InvShutdown ==
  ASSUME PoolInv, TypeOK', Shutdown
  PROVE  PoolInv'
<1> USE DEF PoolInv, Shutdown
<1>1. At("asleep")' = {} /\ At("exited")' = At("exited")
  BY DEF At, Broadcast, TypeOK
<1>2. Stages'
  BY DEF Stages, Broadcast, TypeOK
<1>3. At("exited") = {}
  BY DEF Stages, ExitedLast
<1> QED
  BY <1>1, <1>2, <1>3 DEF NoSleepAfterShutdown, NoLostWakeup, ExitedLast

(* shutdown throws jobs away only if no thread could be created at all.    *)
LEMMA InvDrain ==
  ASSUME PoolInv, TypeOK', Drain \/ Stopped
  PROVE  PoolInv'
<1> USE DEF PoolInv, Drain, Stopped
<1>1. ~isRunning /\ isRunning' = isRunning /\ pc' = pc
  BY DEF Stages
<1>2. At("asleep")' = {} /\ At("exited")' = At("exited")
  BY <1>1 DEF At, NoSleepAfterShutdown
<1>3. Stages'
  BY <1>1 DEF Stages
<1>4. At("exited") # {} => jobQueue' = <<>>
  BY <1>1 DEF ExitedLast
<1> QED
  BY <1>1, <1>2, <1>3, <1>4 DEF NoSleepAfterShutdown, NoLostWakeup, ExitedLast

LEMMA InvStep == PoolInv /\ [Next]_vars => PoolInv'
<1> SUFFICES ASSUME PoolInv, [Next]_vars PROVE PoolInv'
  OBVIOUS
<1>1. TypeOK'
  BY TypeStep DEF PoolInv
<1>2. ASSUME NEW w \in Threads, Take(w) \/ SpuriousWakeup(w) \/ GiveBack(w)
      PROVE  PoolInv'
  BY <1>1, <1>2, InvWait, InvExit, InvGetJob, InvReturn, InvWakeup, InvGiveBack DEF Take
<1>3. CASE Owner
  BY <1>1, <1>3, InvAddJob, InvShutdown, InvDrain DEF Owner
<1>4. CASE UNCHANGED vars
  BY <1>4 DEF vars, PoolInv, TypeOK, Stages, NoSleepAfterShutdown, NoLostWakeup,
              ExitedLast, At
<1> QED
  BY <1>2, <1>3, <1>4 DEF Next, Finished

LEMMA PoolInvariant == Spec => []PoolInv
<1>1. QED
  BY InvInit, InvStep, PTL DEF Spec

(* No wake-up is lost: pthread_cond_signal, once for each job, is enough   *)
(* although a busy worker may take the job another one was woken for.      *)
THEOREM PoolNoLostWakeup == Spec => []NoLostWakeup
<1>1. PoolInv => NoLostWakeup
  BY DEF PoolInv
<1> QED
  BY <1>1, PoolInvariant, PTL

(* No worker sleeps once shutdown has begun, so that none keeps            *)
(* pthread_join waiting by sleeping.                                       *)
THEOREM PoolNoSleepAfterShutdown == Spec => []NoSleepAfterShutdown
<1>1. PoolInv => NoSleepAfterShutdown
  BY DEF PoolInv
<1> QED
  BY <1>1, PoolInvariant, PTL

(* If any worker could be created, shutdown finds the queue empty.         *)
THEOREM PoolShutdownLosesNoJob == Spec => []ShutdownLosesNoJob
<1>1. PoolInv => ShutdownLosesNoJob
  BY DEF PoolInv, ExitedLast, ShutdownLosesNoJob
<1> QED
  BY <1>1, PoolInvariant, PTL

-----------------------------------------------------------------------------
(* A job is in one place.                                                  *)

LEMMA HeldInit == Init => JobHeldOnce
<1> SUFFICES ASSUME Init PROVE JobHeldOnce
  OBVIOUS
<1>1. DOMAIN jobQueue = {}
  BY DEF Init
<1>2. \A w \in Threads : job[w] = NoJob /\ job[w] \notin toAdd
  BY PoolAssumption DEF Init
<1> QED
  BY <1>1, <1>2 DEF JobHeldOnce

(* The steps that leave the queue, the jobs to add and the jobs at hand.   *)
LEMMA HeldKept ==
  ASSUME JobHeldOnce, UNCHANGED <<jobQueue, job, toAdd>>
  PROVE  JobHeldOnce'
  BY DEF JobHeldOnce

(* The queue without its front.                                            *)
LEMMA Popped ==
  ASSUME jobQueue \in Seq(Jobs), jobQueue # <<>>
  PROVE  /\ 1 \in DOMAIN jobQueue
         /\ \A i \in DOMAIN Tail(jobQueue) :
              /\ i + 1 \in DOMAIN jobQueue /\ i \in Nat /\ i # 0
              /\ Tail(jobQueue)[i] = jobQueue[i + 1]
<1> DEFINE q == Tail(jobQueue)
<1>1. /\ q \in Seq(Jobs) /\ Len(q) = Len(jobQueue) - 1
      /\ \A i \in 1 .. Len(q) : q[i] = jobQueue[i + 1]
  BY HeadTailProperties
<1>2. DOMAIN q = 1 .. Len(q) /\ DOMAIN jobQueue = 1 .. Len(jobQueue)
  BY <1>1, LenProperties
<1>3. Len(q) \in Nat /\ Len(jobQueue) \in Nat
  BY <1>1, LenProperties
<1> HIDE DEF q
<1>4. 1 \in DOMAIN jobQueue
  BY <1>1, <1>2, <1>3
<1>5. \A i \in DOMAIN q :
        /\ i + 1 \in DOMAIN jobQueue /\ i \in Nat /\ i # 0
        /\ q[i] = jobQueue[i + 1]
  BY <1>1, <1>2, <1>3
<1> QED
  BY <1>4, <1>5 DEF q

LEMMA HeldGetJob ==
  ASSUME TypeOK, JobHeldOnce, NEW w \in Threads, GetJob(w)
  PROVE  JobHeldOnce'
<1> DEFINE j == jobQueue[1]
           q == Tail(jobQueue)
<1>1. /\ jobQueue' = q /\ toAdd' = toAdd
      /\ job' = [job EXCEPT ![w] = j]
      /\ job \in [Threads -> Jobs \cup {NoJob}]
  BY DEF GetJob, TypeOK
<1>2. /\ \A i \in DOMAIN q : /\ i + 1 \in DOMAIN jobQueue /\ i \in Nat /\ i + 1 # 1
                             /\ q[i] = jobQueue[i + 1]
      /\ 1 \in DOMAIN jobQueue
  BY Popped DEF TypeOK, GetJob
<1>3. \A i \in DOMAIN q : q[i] # j
  BY <1>2 DEF JobHeldOnce
<1>4. j \notin toAdd /\ \A v \in Threads : job[v] # j
  BY <1>2 DEF JobHeldOnce
<1> HIDE DEF j, q
<1>5. \A v \in Threads : job'[v] = IF v = w THEN j ELSE job[v]
  BY <1>1
<1>6. \A i, k \in DOMAIN q : q[i] = q[k] => i = k
  BY <1>2 DEF JobHeldOnce
<1>7. \A u, v \in Threads : job'[u] = job'[v] /\ job'[u] # NoJob => u = v
  BY <1>4, <1>5 DEF JobHeldOnce
<1>8. \A i \in DOMAIN q : q[i] \notin toAdd \cup {job'[v] : v \in Threads}
  BY <1>2, <1>3, <1>5 DEF JobHeldOnce
<1>9. \A v \in Threads : job'[v] \notin toAdd
  BY <1>4, <1>5 DEF JobHeldOnce
<1> QED
  BY <1>1, <1>6, <1>7, <1>8, <1>9 DEF JobHeldOnce

LEMMA HeldReturn ==
  ASSUME TypeOK, JobHeldOnce, NEW w \in Threads, Return(w)
  PROVE  JobHeldOnce'
<1>1. /\ \A v \in Threads : job'[v] = IF v = w THEN NoJob ELSE job[v]
      /\ jobQueue' = jobQueue /\ toAdd' = toAdd
  BY DEF Return, TypeOK
<1>2. NoJob \notin toAdd /\ \A i \in DOMAIN jobQueue : jobQueue[i] # NoJob
  BY PoolAssumption, ElementOfSeq DEF TypeOK
<1> QED
  BY <1>1, <1>2 DEF JobHeldOnce

LEMMA HeldAddJob ==
  ASSUME TypeOK, JobHeldOnce, NEW j \in Jobs, AddJob(j)
  PROVE  JobHeldOnce'
<1> DEFINE q == Append(jobQueue, j)
           n == Len(jobQueue) + 1
<1>1. /\ j \in toAdd /\ toAdd' = toAdd \ {j}
      /\ jobQueue' = q /\ job' = job
  BY DEF AddJob
<1>2. \A i \in DOMAIN q :
        \/ i = n /\ q[i] = j
        \/ i \in DOMAIN jobQueue /\ q[i] = jobQueue[i]
  BY AppendProperties, LenProperties DEF TypeOK
<1>3. \A i \in DOMAIN jobQueue : jobQueue[i] # j
  BY <1>1 DEF JobHeldOnce
<1>4. \A v \in Threads : job[v] # j
  BY <1>1 DEF JobHeldOnce
<1> HIDE DEF q, n
<1> QED
  BY <1>1, <1>2, <1>3, <1>4 DEF JobHeldOnce

LEMMA HeldDrain ==
  ASSUME TypeOK, JobHeldOnce, Drain
  PROVE  JobHeldOnce'
<1>1. \A i \in DOMAIN jobQueue' :
        /\ i + 1 \in DOMAIN jobQueue /\ i \in Nat
        /\ jobQueue'[i] = jobQueue[i + 1]
  BY Popped DEF TypeOK, Drain
<1>2. job' = job /\ toAdd' = toAdd
  BY DEF Drain
<1> QED
  BY <1>1, <1>2 DEF JobHeldOnce

LEMMA HeldStep == TypeOK /\ JobHeldOnce /\ [Next]_vars => JobHeldOnce'
<1> SUFFICES ASSUME TypeOK, JobHeldOnce, [Next]_vars PROVE JobHeldOnce'
  OBVIOUS
<1>1. ASSUME NEW w \in Threads, Take(w) \/ SpuriousWakeup(w) \/ GiveBack(w)
      PROVE  JobHeldOnce'
  <2>1. CASE Wait(w) \/ Exit(w) \/ SpuriousWakeup(w) \/ GiveBack(w)
    BY <2>1, HeldKept DEF Wait, Exit, SpuriousWakeup, GiveBack
  <2> QED
    BY <1>1, <2>1, HeldGetJob, HeldReturn DEF Take
<1>2. CASE Owner
  <2>1. CASE Shutdown \/ Stopped
    BY <2>1, HeldKept DEF Shutdown, Stopped
  <2> QED
    BY <1>2, <2>1, HeldAddJob, HeldDrain DEF Owner
<1>3. CASE UNCHANGED vars
  BY <1>3, HeldKept DEF vars
<1> QED
  BY <1>1, <1>2, <1>3 DEF Next, Finished

(* A job is to be added, queued or at one worker, never at two of these.   *)
THEOREM PoolJobHeldOnce == Spec => []JobHeldOnce
<1>1. QED
  BY HeldInit, HeldStep, PoolTypeOK, PTL DEF Spec

-----------------------------------------------------------------------------
(* The pool implements the queue its users see.                            *)

LEMMA QueueInit == Init => Queue!Init
  BY DEF Init, Queue!Init, At

(* A step that leaves the pool's part of the queue's state.                *)
LEMMA QueueStutter ==
  ASSUME UNCHANGED <<jobQueue, job, workers, isRunning>>, At("exited")' = At("exited")
  PROVE  UNCHANGED Queue!vars
  BY DEF Queue!vars

LEMMA QueueWorker ==
  ASSUME PoolInv, NEW w \in Threads, Take(w) \/ SpuriousWakeup(w) \/ GiveBack(w)
  PROVE  [Queue!Next]_(Queue!vars)
<1> USE DEF PoolInv, TypeOK, PCs
<1>1. CASE Wait(w) \/ SpuriousWakeup(w) \/ GiveBack(w)
  <2>1. At("exited")' = At("exited")
    BY <1>1 DEF Wait, SpuriousWakeup, GiveBack, Goto, At
  <2> QED
    BY <1>1, <2>1, QueueStutter DEF Wait, SpuriousWakeup, GiveBack
<1>2. CASE Exit(w)
  <2>1. At("exited")' = At("exited") \cup {w}
    BY <1>2 DEF Exit, Goto, At
  <2>2. job[w] = NoJob
    BY <1>2 DEF Exit
  <2>3. Queue!End(w)
    BY <1>2, <2>1, <2>2 DEF Exit, Queue!End
  <2> QED
    BY <2>3 DEF Queue!Next
<1>3. CASE GetJob(w)
  <2>1. At("exited")' = At("exited") /\ w \notin At("exited")
    BY <1>3 DEF GetJob, Goto, At
  <2>2. w \in workers /\ job[w] = NoJob
    BY <1>3 DEF GetJob, Stages
  <2>3. Queue!TakeJob(w)
    BY <1>3, <2>1, <2>2 DEF GetJob, Queue!TakeJob
  <2> QED
    BY <2>3 DEF Queue!Next
<1>4. CASE Return(w)
  <2>1. At("exited")' = At("exited")
    BY <1>4 DEF Return, Goto, At
  <2>2. Queue!Finish(w)
    BY <1>4, <2>1 DEF Return, Queue!Finish
  <2> QED
    BY <2>2 DEF Queue!Next
<1> QED
  BY <1>1, <1>2, <1>3, <1>4 DEF Take

LEMMA QueueOwner ==
  ASSUME PoolInv, Owner
  PROVE  [Queue!Next]_(Queue!vars)
<1> USE DEF PoolInv, TypeOK, PCs
<1>1. ASSUME NEW j \in Jobs, AddJob(j) PROVE [Queue!Next]_(Queue!vars)
  <2>1. At("exited")' = At("exited")
    BY <1>1 DEF AddJob, Signal, Goto, At
  <2>2. Queue!Enqueue(j)
    BY <1>1, <2>1 DEF AddJob, Stages, Queue!Enqueue
  <2> QED
    BY <2>2 DEF Queue!Next
<1>2. CASE Shutdown
  <2>1. At("exited")' = At("exited")
    BY <1>2 DEF Shutdown, Broadcast, At
  <2>2. Queue!Close
    BY <1>2, <2>1 DEF Shutdown, Stages, Queue!Close
  <2> QED
    BY <2>2 DEF Queue!Next
<1>3. CASE Drain
  <2>1. (Threads \ workers) \cup At("exited") = Threads
    BY <1>3 DEF Drain
  <2>2. ~isRunning /\ At("exited")' = At("exited")
    BY <1>3 DEF Drain, Stages, At
  <2>3. Queue!Discard
    BY <1>3, <2>1, <2>2 DEF Drain, Queue!Discard
  <2> QED
    BY <2>3 DEF Queue!Next
<1>4. CASE Stopped
  <2>1. At("exited")' = At("exited")
    BY <1>4 DEF Stopped, At
  <2> QED
    BY <1>4, <2>1, QueueStutter DEF Stopped
<1> QED
  BY <1>1, <1>2, <1>3, <1>4 DEF Owner

LEMMA QueueStep == PoolInv /\ [Next]_vars => [Queue!Next]_(Queue!vars)
<1> SUFFICES ASSUME PoolInv, [Next]_vars PROVE [Queue!Next]_(Queue!vars)
  OBVIOUS
<1>1. CASE UNCHANGED vars
  <2>1. At("exited")' = At("exited")
    BY <1>1 DEF vars, At
  <2> QED
    BY <1>1, <2>1, QueueStutter DEF vars
<1> QED
  BY <1>1, QueueWorker, QueueOwner DEF Next, Finished

(* Every step of the pool, whatever its threads are doing, is a step of    *)
(* the first-come first-served queue or leaves it alone.                   *)
THEOREM PoolImplementsWorkQueue == Spec => ImplementsWorkQueue
<1>1. QED
  BY QueueInit, QueueStep, PoolInvariant, PTL DEF Spec, ImplementsWorkQueue, Queue!Spec
=============================================================================
