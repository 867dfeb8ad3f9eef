----------------------------- MODULE ThreadPool -----------------------------
(***************************************************************************)
(* The pool of worker threads (ThreadPool.cpp: constructor, workerThread,  *)
(* addJob, shutdown) with its condition variable.  queueMutex is held for  *)
(* the whole of each step below, so the steps are the critical sections;   *)
(* pthread_cond_wait gives the mutex up and sleeps in one step, and a      *)
(* thread that was woken has to get the mutex again - others may come      *)
(* first.  What a worker does with a job is the subject of Server.         *)
(*                                                                         *)
(* shutdown is run by ~Server in the thread that calls addJob, so nothing  *)
(* is added during or after it.                                            *)
(***************************************************************************)
EXTENDS Naturals, Sequences, FiniteSets

CONSTANTS
  Threads,         \* the numWorkers threads the constructor asks for
  Jobs,            \* bound: the client sockets ever added
  NoJob,           \* clientSocket = -1
  MaxOutstanding   \* MAX_CLIENTS: what the server lets in at a time

ASSUME PoolAssumption ==
  /\ IsFiniteSet(Threads)
  /\ NoJob \notin Jobs
  /\ MaxOutstanding \in Nat

VARIABLES
  isRunning, jobQueue,
  workers,  \* the threads that pthread_create has made
  pc,       \* place of each worker
  job,      \* its local clientSocket
  mainPc,   \* the thread that owns the pool: "run", "join" or "stopped"
  toAdd     \* the jobs not added yet

vars == <<isRunning, jobQueue, workers, pc, job, mainPc, toAdd>>

PCs == {"none", "get", "asleep", "handling", "returning", "exited"}

(* The constructor: pthread_create may fail for some of the threads.       *)
Init ==
  /\ isRunning = TRUE
  /\ jobQueue = <<>>
  /\ workers \in SUBSET Threads
  /\ pc = [w \in Threads |-> IF w \in workers THEN "get" ELSE "none"]
  /\ job = [w \in Threads |-> NoJob]
  /\ mainPc = "run"
  /\ toAdd = Jobs

At(place) == {w \in Threads : pc[w] = place}

Goto(w, to) == pc' = [pc EXCEPT ![w] = to]

-----------------------------------------------------------------------------
(* workerThread.                                                           *)

(* A worker that takes no look at isRunning before it goes to sleep.       *)
Wait_Always(w) ==
  /\ pc[w] = "get"
  /\ jobQueue = <<>>
  /\ Goto(w, "asleep")
  /\ UNCHANGED <<isRunning, workers, jobQueue, job, mainPc, toAdd>>

(* The predicate of the while loop holds: pthread_cond_wait.               *)
Wait(w) ==
  /\ pc[w] = "get"
  /\ jobQueue = <<>> /\ isRunning
  /\ Goto(w, "asleep")
  /\ UNCHANGED <<isRunning, workers, jobQueue, job, mainPc, toAdd>>

(* pthread_cond_wait may return without a signal.                          *)
SpuriousWakeup(w) ==
  /\ pc[w] = "asleep"
  /\ Goto(w, "get")
  /\ UNCHANGED <<isRunning, workers, jobQueue, job, mainPc, toAdd>>

(* A worker that ends on shutdown although jobs are queued.                *)
Exit_Early(w) ==
  /\ pc[w] = "get"
  /\ ~isRunning
  /\ Goto(w, "exited")
  /\ UNCHANGED <<isRunning, workers, jobQueue, job, mainPc, toAdd>>

Exit(w) ==
  /\ pc[w] = "get"
  /\ ~isRunning /\ jobQueue = <<>>
  /\ Goto(w, "exited")
  /\ UNCHANGED <<isRunning, workers, jobQueue, job, mainPc, toAdd>>

(* A worker that serves the newest job first.                              *)
GetJob_Newest(w) ==
  /\ pc[w] = "get"
  /\ jobQueue # <<>>
  /\ job' = [job EXCEPT ![w] = jobQueue[Len(jobQueue)]]
  /\ jobQueue' = SubSeq(jobQueue, 1, Len(jobQueue) - 1)
  /\ Goto(w, "handling")
  /\ UNCHANGED <<isRunning, workers, mainPc, toAdd>>

GetJob(w) ==
  /\ pc[w] = "get"
  /\ jobQueue # <<>>
  /\ job' = [job EXCEPT ![w] = Head(jobQueue)]
  /\ jobQueue' = Tail(jobQueue)
  /\ Goto(w, "handling")
  /\ UNCHANGED <<isRunning, workers, mainPc, toAdd>>

(* handleClient gives the slot back (decrementClientCount) and returns.    *)
GiveBack(w) ==
  /\ pc[w] = "handling"
  /\ Goto(w, "returning")
  /\ UNCHANGED <<isRunning, workers, jobQueue, job, mainPc, toAdd>>

(* A worker whose clientSocket is not reset for the next turn.             *)
Return_KeepsSocket(w) ==
  /\ pc[w] = "returning"
  /\ Goto(w, "get")
  /\ UNCHANGED <<isRunning, workers, jobQueue, job, mainPc, toAdd>>

Return(w) ==
  /\ pc[w] = "returning"
  /\ job' = [job EXCEPT ![w] = NoJob]
  /\ Goto(w, "get")
  /\ UNCHANGED <<isRunning, workers, jobQueue, mainPc, toAdd>>

-----------------------------------------------------------------------------
(* The owner.                                                              *)

(* pthread_cond_signal wakes one sleeper, if there is one.                 *)
Signal ==
  IF At("asleep") = {} THEN UNCHANGED pc ELSE \E w \in At("asleep") : Goto(w, "get")

Broadcast == pc' = [w \in Threads |-> IF pc[w] = "asleep" THEN "get" ELSE pc[w]]

Outstanding == Len(jobQueue) + Cardinality(At("handling"))

(* Signalling only when the queue was empty before.                        *)
AddJob_SignalIfEmpty(j) ==
  /\ mainPc = "run" /\ j \in toAdd
  /\ Outstanding < MaxOutstanding
  /\ toAdd' = toAdd \ {j}
  /\ jobQueue' = Append(jobQueue, j)
  /\ IF jobQueue = <<>> THEN Signal ELSE UNCHANGED pc
  /\ UNCHANGED <<isRunning, workers, job, mainPc>>

(* addJob; handleNewConnection calls it for a connection it let in.        *)
AddJob(j) ==
  /\ mainPc = "run" /\ j \in toAdd
  /\ Outstanding < MaxOutstanding
  /\ toAdd' = toAdd \ {j}
  /\ jobQueue' = Append(jobQueue, j)
  /\ Signal
  /\ UNCHANGED <<isRunning, workers, job, mainPc>>

Shutdown ==
  /\ mainPc = "run"
  /\ isRunning' = FALSE
  /\ Broadcast
  /\ mainPc' = "join"
  /\ UNCHANGED <<workers, jobQueue, job, toAdd>>

(* After pthread_join of every thread: the loop over the remaining jobs.   *)
Drain ==
  /\ mainPc = "join" /\ At("exited") = workers
  /\ jobQueue # <<>>
  /\ jobQueue' = Tail(jobQueue)
  /\ UNCHANGED <<isRunning, workers, pc, job, mainPc, toAdd>>

Stopped ==
  /\ mainPc = "join" /\ At("exited") = workers
  /\ jobQueue = <<>>
  /\ mainPc' = "stopped"
  /\ UNCHANGED <<isRunning, workers, jobQueue, pc, job, toAdd>>

Take(w) == Wait(w) \/ Exit(w) \/ GetJob(w) \/ Return(w)

Owner == (\E j \in Jobs : AddJob(j)) \/ Shutdown \/ Drain \/ Stopped

(* Not a step of the code: the program has ended.                          *)
Finished == mainPc = "stopped" /\ UNCHANGED vars

Next ==
  \/ \E w \in Threads : Take(w) \/ SpuriousWakeup(w) \/ GiveBack(w)
  \/ Owner
  \/ Finished

Spec == Init /\ [][Next]_vars

(* The threads that can go on do, the owner once it has begun to shut      *)
(* down; a client stays as long as it likes unless ClientsLeave is added.  *)
Fairness ==
  /\ \A w \in Threads : WF_vars(Take(w))
  /\ WF_vars(Drain \/ Stopped)

ClientsLeave == \A w \in Threads : WF_vars(GiveBack(w))

FairSpec == Spec /\ Fairness

-----------------------------------------------------------------------------
(* Type invariant.                                                         *)
TypeOK ==
  /\ isRunning \in BOOLEAN
  /\ jobQueue \in Seq(Jobs)
  /\ workers \in SUBSET Threads
  /\ pc \in [Threads -> PCs]
  /\ job \in [Threads -> Jobs \cup {NoJob}]
  /\ mainPc \in {"run", "join", "stopped"}
  /\ toAdd \in SUBSET Jobs
  /\ \A w \in Threads : job[w] # NoJob <=> pc[w] \in {"handling", "returning"}

(* No wake-up is lost: while some worker sleeps there is, for every queued *)
(* job, a worker that is awake and about to look at the queue - even when  *)
(* a worker that was busy takes the job another one was woken for.         *)
NoLostWakeup == At("asleep") # {} => Len(jobQueue) <= Cardinality(At("get"))

(* Nobody sleeps through a shutdown, so pthread_join cannot hang on one.   *)
NoSleepAfterShutdown == ~isRunning => At("asleep") = {}

(* A job is in one place: to be added, queued, or at one worker.           *)
JobHeldOnce ==
  /\ \A i, j \in DOMAIN jobQueue : jobQueue[i] = jobQueue[j] => i = j
  /\ \A v, w \in Threads : job[v] = job[w] /\ job[v] # NoJob => v = w
  /\ \A i \in DOMAIN jobQueue : jobQueue[i] \notin toAdd \cup {job[w] : w \in Threads}
  /\ \A w \in Threads : job[w] \notin toAdd

(* The threads leave only when the queue is empty: if any was created,     *)
(* shutdown finds no job left to throw away when it has joined them.       *)
ShutdownLosesNoJob ==
  ~isRunning /\ workers # {} /\ At("exited") = workers => jobQueue = <<>>

-----------------------------------------------------------------------------
(* Liveness.                                                               *)

(* A job whose client was let in is started at once - without waiting for  *)
(* another client to leave - if enough of the threads could be created.    *)
Queued(j) == \E i \in DOMAIN jobQueue : jobQueue[i] = j

Enough == Cardinality(workers) >= MaxOutstanding

JobStarted == Enough => \A j \in Jobs : Queued(j) ~> ~Queued(j)

(* Once it has begun, shutdown returns if the clients all leave.           *)
ShutdownReturns == ClientsLeave => ((mainPc = "join") ~> (mainPc = "stopped"))

-----------------------------------------------------------------------------
(* Refinement: the queue the server's model uses.                          *)
Queue == INSTANCE WorkQueue WITH
  Workers <- Threads,
  queue <- jobQueue,
  ended <- (Threads \ workers) \cup At("exited"),
  open  <- isRunning

ImplementsWorkQueue == Queue!Spec
=============================================================================
