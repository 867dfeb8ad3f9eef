------------------------------- MODULE Server -------------------------------
(***************************************************************************)
(* The life of a connection in the server: Server::handleNewConnection in  *)
(* the main thread, the job queue, and ThreadPool::handleClient in one of  *)
(* the worker threads, over the state they share - the descriptors of the  *)
(* process, sslMap, currentClients and the sessions of UserManager.        *)
(*                                                                         *)
(* A worker talks to its client through the SSL object it looked up once,  *)
(* but to another client ("send" to a client, modes 2 and 4) through the   *)
(* descriptor found in clientStatus and then the pointer found in sslMap,  *)
(* neither of them protected while it is used.                             *)
(*                                                                         *)
(* One SSL object per connection, so a pointer is the connection it was    *)
(* made for.  Each operation on sslMap is one step: the map has no lock.   *)
(***************************************************************************)
EXTENDS UserManager, FiniteSets

CONSTANTS
  Conns,       \* bound: the TCP connections clients ever make
  Workers,     \* the threads of the pool (MAX_WORKERS)
  MaxClients,  \* MAX_CLIENTS
  None,        \* no connection, no descriptor, no entry in sslMap
  Null         \* the null pointer std::map::operator[] inserts

ASSUME ServerAssumption ==
  /\ IsFiniteSet(Workers) /\ IsFiniteSet(Conns)
  /\ MaxClients \in Nat
  /\ MaxClients <= Cardinality(Workers)
  /\ None \notin Conns \cup Sockets \cup {Null}
  /\ Null \notin Conns

VARIABLES
  up,       \* the process is alive
  peer,     \* the client's end: "idle", "open" or "gone"
  backlog,  \* connections the kernel holds for accept()
  fdConn,   \* the connection an open descriptor is the socket of
  ssl,      \* the SSL object of a connection: "none", "live" or "freed"
  sslMap,   \* Server::sslMap
  currentClients, jobQueue,
  mainPc, mainFd,          \* the main thread and its connSocketFD
  pc, clientSocket, own,   \* a worker: place, clientSocket and ssl
  targetSocket, target,    \* a relaying worker: targetClientSocket, targetSSL
  addressee                \* history: the connection the lookup meant

netVars    == <<peer, backlog, fdConn, ssl>>
mainVars   == <<mainPc, mainFd>>
targetVars == <<targetSocket, target, addressee>>
workerVars == <<pc, clientSocket, own, targetVars>>

(* What a worker leaves alone while it serves its client.                  *)
frame == <<up, netVars, currentClients, jobQueue, mainVars, clientSocket, own>>

vars == <<umVars, up, netVars, sslMap, currentClients, jobQueue, mainVars, workerVars>>

MainPCs   == {"accept", "handshake", "admit", "store", "enqueue"}
WorkerPCs == {"idle", "start", "loop", "relayAsk", "relayMap", "relayWrite",
              "logout", "free", "erase", "close", "decrement"}

Init ==
  /\ UMInit
  /\ up = TRUE
  /\ peer = [c \in Conns |-> "idle"]
  /\ backlog = <<>>
  /\ fdConn = [f \in Sockets |-> None]
  /\ ssl = [c \in Conns |-> "none"]
  /\ sslMap = [f \in Sockets |-> None]
  /\ currentClients = 0
  /\ jobQueue = <<>>
  /\ mainPc = "accept" /\ mainFd = None
  /\ pc = [w \in Workers |-> "idle"]
  /\ clientSocket = [w \in Workers |-> None]
  /\ own = [w \in Workers |-> None]
  /\ targetSocket = [w \in Workers |-> None]
  /\ target = [w \in Workers |-> None]
  /\ addressee = [w \in Workers |-> None]

-----------------------------------------------------------------------------
(* Clients.  One connects, and may close its end whenever it likes; it is  *)
(* gone from the server's view when what it had sent has been read.        *)

Connect(c) ==
  /\ up /\ peer[c] = "idle"
  /\ peer' = [peer EXCEPT ![c] = "open"]
  /\ backlog' = Append(backlog, c)
  /\ UNCHANGED <<umVars, up, fdConn, ssl, sslMap, currentClients, jobQueue, mainVars,
                   workerVars>>

Leave(c) ==
  /\ up /\ peer[c] = "open"
  /\ peer' = [peer EXCEPT ![c] = "gone"]
  /\ UNCHANGED <<umVars, up, backlog, fdConn, ssl, sslMap, currentClients, jobQueue,
                   mainVars, workerVars>>

-----------------------------------------------------------------------------
(* The main thread: handleNewConnection, forever.                          *)

MainAt(place) == up /\ mainPc = place

(* An accept loop that stops accepting while the server is full.           *)
Accept_WhenRoom ==
  /\ MainAt("accept")
  /\ backlog # <<>>
  /\ currentClients < MaxClients
  /\ \E f \in Sockets :
       /\ fdConn[f] = None
       /\ fdConn' = [fdConn EXCEPT ![f] = Head(backlog)]
       /\ mainFd' = f
  /\ ssl' = [ssl EXCEPT ![Head(backlog)] = "live"]
  /\ backlog' = Tail(backlog)
  /\ mainPc' = "handshake"
  /\ UNCHANGED <<umVars, up, peer, sslMap, currentClients, jobQueue, workerVars>>

(* accept and SSL_new.                                                     *)
Accept ==
  /\ MainAt("accept")
  /\ backlog # <<>>
  /\ \E f \in Sockets :
       /\ fdConn[f] = None
       /\ fdConn' = [fdConn EXCEPT ![f] = Head(backlog)]
       /\ mainFd' = f
  /\ ssl' = [ssl EXCEPT ![Head(backlog)] = "live"]
  /\ backlog' = Tail(backlog)
  /\ mainPc' = "handshake"
  /\ UNCHANGED <<umVars, up, peer, sslMap, currentClients, jobQueue, workerVars>>

(* SSL_free and close of a connection that is not let in.                  *)
TurnAway ==
  /\ ssl' = [ssl EXCEPT ![fdConn[mainFd]] = "freed"]
  /\ fdConn' = [fdConn EXCEPT ![mainFd] = None]
  /\ mainPc' = "accept" /\ mainFd' = None
  /\ UNCHANGED <<umVars, up, peer, backlog, sslMap, jobQueue, workerVars>>

(* SSL_accept blocks until the client has spoken or gone.                  *)
HandshakeDone ==
  /\ MainAt("handshake")
  /\ peer[fdConn[mainFd]] = "open"
  /\ mainPc' = "admit"
  /\ UNCHANGED <<umVars, up, netVars, sslMap, currentClients, jobQueue, mainFd, workerVars>>

(* A handshake failure that gives back a slot it never took.               *)
HandshakeFails_Decrements ==
  /\ MainAt("handshake")
  /\ TurnAway
  /\ currentClients' = IF currentClients > 0 THEN currentClients - 1 ELSE 0

HandshakeFails ==
  /\ MainAt("handshake")
  /\ TurnAway
  /\ UNCHANGED currentClients

Reject ==
  /\ MainAt("admit")
  /\ currentClients >= MaxClients
  /\ TurnAway
  /\ UNCHANGED currentClients

(* An off-by-one in the capacity test.                                     *)
Admit_OffByOne ==
  /\ MainAt("admit")
  /\ currentClients <= MaxClients
  /\ currentClients' = currentClients + 1
  /\ mainPc' = "store"
  /\ UNCHANGED <<umVars, up, netVars, sslMap, jobQueue, mainFd, workerVars>>

(* The welcome and the increment, with clientCountMutex held.              *)
Admit ==
  /\ MainAt("admit")
  /\ currentClients < MaxClients
  /\ currentClients' = currentClients + 1
  /\ mainPc' = "store"
  /\ UNCHANGED <<umVars, up, netVars, sslMap, jobQueue, mainFd, workerVars>>

Store ==
  /\ MainAt("store")
  /\ sslMap' = [sslMap EXCEPT ![mainFd] = fdConn[mainFd]]
  /\ mainPc' = "enqueue"
  /\ UNCHANGED <<umVars, up, netVars, currentClients, jobQueue, mainFd, workerVars>>

(* addJob; ThreadPool models its lock and its condition variable.          *)
Enqueue ==
  /\ MainAt("enqueue")
  /\ jobQueue' = Append(jobQueue, mainFd)
  /\ mainPc' = "accept" /\ mainFd' = None
  /\ UNCHANGED <<umVars, up, netVars, sslMap, currentClients, workerVars>>

-----------------------------------------------------------------------------
(* A worker.                                                               *)

At(w, place) == up /\ pc[w] = place
Goto(w, to)  == pc' = [pc EXCEPT ![w] = to]

(* A worker that is not woken for the last job of the queue.               *)
TakeJob_NotLast(w) ==
  /\ At(w, "idle")
  /\ Len(jobQueue) > 1
  /\ Goto(w, "start")
  /\ clientSocket' = [clientSocket EXCEPT ![w] = Head(jobQueue)]
  /\ jobQueue' = Tail(jobQueue)
  /\ UNCHANGED <<umVars, up, netVars, sslMap, currentClients, mainVars, own, targetVars>>

(* workerThread: the front of the queue.                                   *)
TakeJob(w) ==
  /\ At(w, "idle")
  /\ jobQueue # <<>>
  /\ Goto(w, "start")
  /\ clientSocket' = [clientSocket EXCEPT ![w] = Head(jobQueue)]
  /\ jobQueue' = Tail(jobQueue)
  /\ UNCHANGED <<umVars, up, netVars, sslMap, currentClients, mainVars, own, targetVars>>

(* sslMap[f] as an expression: operator[] makes a null entry, and returns  *)
(* it, where there is none.                                                *)
Looked(f) == IF sslMap[f] = None THEN Null ELSE sslMap[f]
Touch(f)  == sslMap' = [sslMap EXCEPT ![f] = Looked(f)]

Start(w) ==
  /\ At(w, "start")
  /\ Goto(w, "loop")
  /\ own' = [own EXCEPT ![w] = Looked(clientSocket[w])]
  /\ Touch(clientSocket[w])
  /\ UNCHANGED <<umVars, up, netVars, currentClients, jobQueue, mainVars, clientSocket,
                   targetVars>>

(* SSL_read returns what the client has sent.                              *)
Hears(w) == own[w] \in Conns /\ peer[own[w]] = "open"

(* The login command of a client that is not logged in.                    *)
Login(w) ==
  /\ At(w, "loop") /\ Hears(w)
  /\ ~IsLoggedIn(clientSocket[w])
  /\ \E n \in Names, p \in Passwords :
       /\ LoginAccepted(n, p)
       /\ LoginUser(clientSocket[w], n)
  /\ UNCHANGED <<pc, frame, sslMap, targetVars>>

Logout(w) ==
  /\ At(w, "loop") /\ Hears(w)
  /\ IsLoggedIn(clientSocket[w])
  /\ LogoutUser(clientSocket[w])
  /\ UNCHANGED <<pc, frame, sslMap, targetVars>>

(* An exit that also closes the socket the clean-up will close.            *)
Exit_Closes(w) ==
  /\ At(w, "loop") /\ Hears(w)
  /\ ~IsLoggedIn(clientSocket[w])
  /\ Goto(w, "logout")
  /\ sslMap' = [sslMap EXCEPT ![clientSocket[w]] = None]
  /\ fdConn' = [fdConn EXCEPT ![clientSocket[w]] = None]
  /\ UNCHANGED <<umVars, up, peer, backlog, ssl, currentClients, jobQueue, mainVars,
                   clientSocket, own, targetVars>>

(* exit without a login: the entry of sslMap is erased here already.       *)
Exit(w) ==
  /\ At(w, "loop") /\ Hears(w)
  /\ ~IsLoggedIn(clientSocket[w])
  /\ Goto(w, "logout")
  /\ sslMap' = [sslMap EXCEPT ![clientSocket[w]] = None]
  /\ UNCHANGED <<umVars, frame, targetVars>>

(* A read error after which the loop is tried again.                       *)
ReadFails_Retried(w) ==
  /\ At(w, "loop")
  /\ UNCHANGED <<umVars, pc, frame, sslMap, targetVars>>

(* SSL_read <= 0, in the command loop or while a relay command waits for   *)
(* its message; the latter only goes back to the loop.                     *)
ReadFails(w) ==
  /\ At(w, "loop")
  /\ Goto(w, "logout")
  /\ UNCHANGED <<umVars, frame, sslMap, targetVars>>

RelayGivenUp(w) ==
  /\ At(w, "relayAsk")
  /\ Goto(w, "loop")
  /\ UNCHANGED <<umVars, frame, sslMap, targetVars>>

CountOnlineClients == Cardinality({f \in Sockets : IsLoggedIn(f)})

(* send, mode 2 or 4, when somebody else is on line.                       *)
RelaySelect(w) ==
  /\ At(w, "loop") /\ Hears(w)
  /\ IsLoggedIn(clientSocket[w])
  /\ CountOnlineClients > 1
  /\ Goto(w, "relayAsk")
  /\ UNCHANGED <<umVars, frame, sslMap, targetVars>>

(* A relay that goes on with the -1 of a name that is not logged in.       *)
RelayLookup_Unchecked(w) ==
  /\ At(w, "relayAsk") /\ Hears(w)
  /\ Goto(w, "relayMap")
  /\ UNCHANGED <<umVars, frame, sslMap, targetVars>>

(* getClientSocketNumFromStatus once the client has named the addressee.   *)
RelayLookup(w) ==
  /\ At(w, "relayAsk") /\ Hears(w)
  /\ Goto(w, "relayMap")
  /\ \E f \in Sockets :
       /\ IsLoggedIn(f)
       /\ targetSocket' = [targetSocket EXCEPT ![w] = f]
       /\ addressee' = [addressee EXCEPT ![w] = fdConn[f]]
  /\ UNCHANGED <<umVars, frame, sslMap, target>>

(* SSL* targetSSL = server->sslMap[targetClientSocket]                     *)
RelayMap(w) ==
  /\ At(w, "relayMap")
  /\ Goto(w, "relayWrite")
  /\ target' = [target EXCEPT ![w] = Looked(targetSocket[w])]
  /\ Touch(targetSocket[w])
  /\ UNCHANGED <<umVars, frame, targetSocket, addressee>>

(* The last SSL_write to the target; the earlier ones change nothing here. *)
RelayWrite(w) ==
  /\ At(w, "relayWrite")
  /\ Goto(w, "loop")
  /\ targetSocket' = [targetSocket EXCEPT ![w] = None]
  /\ target' = [target EXCEPT ![w] = None]
  /\ addressee' = [addressee EXCEPT ![w] = None]
  /\ UNCHANGED <<umVars, frame, sslMap>>

-----------------------------------------------------------------------------
(* The clean-up at the end of handleClient, in its order.                  *)

(* A clean-up that leaves the login behind.                                *)
CleanupLogout_Skipped(w) ==
  /\ At(w, "logout")
  /\ Goto(w, "free")
  /\ UNCHANGED <<umVars, frame, sslMap, targetVars>>

CleanupLogout(w) ==
  /\ At(w, "logout")
  /\ Goto(w, "free")
  /\ LogoutUser(clientSocket[w])
  /\ UNCHANGED <<frame, sslMap, targetVars>>

(* SSL_shutdown and SSL_free, unless the pointer is null.                  *)
CleanupFree(w) ==
  /\ At(w, "free")
  /\ Goto(w, IF own[w] = Null THEN "close" ELSE "erase")
  /\ ssl' = IF own[w] = Null THEN ssl ELSE [ssl EXCEPT ![own[w]] = "freed"]
  /\ UNCHANGED <<umVars, up, peer, backlog, fdConn, sslMap, currentClients, jobQueue,
                   mainVars, clientSocket, own, targetVars>>

(* A clean-up that leaves the freed pointer in the map.                    *)
CleanupErase_Skipped(w) ==
  /\ At(w, "erase")
  /\ Goto(w, "close")
  /\ UNCHANGED <<umVars, frame, sslMap, targetVars>>

CleanupErase(w) ==
  /\ At(w, "erase")
  /\ Goto(w, "close")
  /\ sslMap' = [sslMap EXCEPT ![clientSocket[w]] = None]
  /\ UNCHANGED <<umVars, frame, targetVars>>

CleanupClose(w) ==
  /\ At(w, "close")
  /\ Goto(w, "decrement")
  /\ fdConn' = [fdConn EXCEPT ![clientSocket[w]] = None]
  /\ UNCHANGED <<umVars, up, peer, backlog, ssl, sslMap, currentClients, jobQueue,
                   mainVars, clientSocket, own, targetVars>>

Decrement(w) ==
  /\ At(w, "decrement")
  /\ Goto(w, "idle")
  /\ currentClients' = IF currentClients > 0 THEN currentClients - 1 ELSE currentClients
  /\ clientSocket' = [clientSocket EXCEPT ![w] = None]
  /\ own' = [own EXCEPT ![w] = None]
  /\ UNCHANGED <<umVars, up, netVars, sslMap, jobQueue, mainVars, targetVars>>

-----------------------------------------------------------------------------
(* SIGPIPE is not ignored: a write to a client that has gone may end the   *)
(* process, and so may the use of a null or freed SSL object.              *)
Broken(p) == p = Null \/ p \in {c \in Conns : peer[c] = "gone" \/ ssl[c] = "freed"}

Die ==
  /\ up
  /\ \/ mainPc \in {"handshake", "admit"} /\ Broken(fdConn[mainFd])
     \/ \E w \in Workers :
          \/ pc[w] \in {"loop", "relayAsk", "relayMap", "relayWrite", "free"} /\ Broken(own[w])
          \/ pc[w] = "relayWrite" /\ Broken(target[w])
  /\ up' = FALSE
  /\ UNCHANGED <<umVars, netVars, sslMap, currentClients, jobQueue, mainVars, workerVars>>

Main == Accept \/ HandshakeDone \/ HandshakeFails \/ Reject \/ Admit \/ Store \/ Enqueue

Command(w) == Login(w) \/ Logout(w) \/ Exit(w) \/ RelaySelect(w)

Relay(w) == RelayGivenUp(w) \/ RelayLookup(w) \/ RelayMap(w) \/ RelayWrite(w)

Cleanup(w) ==
  CleanupLogout(w) \/ CleanupFree(w) \/ CleanupErase(w) \/ CleanupClose(w) \/ Decrement(w)

Worker(w) == TakeJob(w) \/ Start(w) \/ ReadFails(w) \/ Command(w) \/ Relay(w) \/ Cleanup(w)

Next ==
  \/ \E c \in Conns : Connect(c) \/ Leave(c)
  \/ Main
  \/ \E w \in Workers : Worker(w)
  \/ Die

Spec == Init /\ [][Next]_vars

-----------------------------------------------------------------------------
(* Fairness.  A thread that can go on does; nothing is assumed of a client *)
(* but that, where HandshakeFairness is added, it completes or abandons    *)
(* its TLS handshake, and that a client a message is relayed to reads it.  *)

MainOwn == Accept \/ Reject \/ Admit \/ Store \/ Enqueue

WorkerOwn(w) == TakeJob(w) \/ Start(w) \/ RelayMap(w) \/ RelayWrite(w) \/ Cleanup(w)

PeerGone(w) == own[w] \in {c \in Conns : peer[c] = "gone"}

Fairness ==
  /\ WF_vars(MainOwn)
  /\ \A w \in Workers :
       /\ WF_vars(WorkerOwn(w))
       /\ WF_vars(PeerGone(w) /\ (ReadFails(w) \/ RelayGivenUp(w)))

HandshakeFairness == WF_vars(HandshakeDone \/ HandshakeFails)

FairSpec == Spec /\ Fairness
LiveSpec == FairSpec /\ HandshakeFairness

-----------------------------------------------------------------------------
Busy    == {w \in Workers : pc[w] # "idle"}
(* The workers whose descriptor is not closed yet, and those that use ssl. *)
Holding == {w \in Workers : pc[w] \notin {"idle", "decrement"}}
Serving == {w \in Workers : pc[w] \notin {"idle", "start", "erase", "close", "decrement"}}

(* Type invariant.                                                         *)
TypeOK ==
  /\ UMTypeOK
  /\ up \in BOOLEAN
  /\ peer \in [Conns -> {"idle", "open", "gone"}]
  /\ backlog \in Seq(Conns)
  /\ fdConn \in [Sockets -> Conns \cup {None}]
  /\ ssl \in [Conns -> {"none", "live", "freed"}]
  /\ sslMap \in [Sockets -> Conns \cup {None, Null}]
  /\ currentClients \in Nat
  /\ jobQueue \in Seq(Sockets)
  /\ mainPc \in MainPCs
  /\ mainFd \in Sockets \cup {None}
  /\ pc \in [Workers -> WorkerPCs]
  /\ clientSocket \in [Workers -> Sockets \cup {None}]
  /\ own \in [Workers -> Conns \cup {None, Null}]
  /\ targetSocket \in [Workers -> Sockets \cup {None}]
  /\ target \in [Workers -> Conns \cup {None, Null}]
  /\ addressee \in [Workers -> Conns \cup {None}]
  /\ \A w \in Workers : pc[w] = "relayMap" => targetSocket[w] \in Sockets

(* currentClients counts exactly the connections that were let in and not  *)
(* yet given back: one may be between the increment and the queue, the     *)
(* others are queued or at a worker.  (Decrementing never needs its test.) *)
Admitting == IF mainPc \in {"store", "enqueue"} THEN 1 ELSE 0

ClientCountExact ==
  /\ currentClients = Admitting + Len(jobQueue) + Cardinality(Busy)
  /\ currentClients <= MaxClients

(* A descriptor is in one place at a time - the main thread, the queue or  *)
(* one worker - and is open there, so nobody closes or reads a socket that *)
(* has been reused for somebody else; an open one is always somewhere.     *)
FdHeldOnce ==
  /\ \A i, j \in DOMAIN jobQueue : jobQueue[i] = jobQueue[j] => i = j
  /\ \A v, w \in Holding : clientSocket[v] = clientSocket[w] => v = w
  /\ \A i \in DOMAIN jobQueue, w \in Holding : jobQueue[i] # clientSocket[w]
  /\ mainPc # "accept" => /\ \A i \in DOMAIN jobQueue : jobQueue[i] # mainFd
                          /\ \A w \in Holding : clientSocket[w] # mainFd
  /\ \A f \in Sockets :
       fdConn[f] # None <=> \/ mainPc # "accept" /\ mainFd = f
                            \/ \E i \in DOMAIN jobQueue : jobQueue[i] = f
                            \/ \E w \in Holding : clientSocket[w] = f

(* The pointer a worker keeps in ssl is the live SSL object of its own     *)
(* socket until it frees it, although sslMap is shared by all threads and  *)
(* lookups of others insert into it.                                       *)
OwnSslLive ==
  \A w \in Serving :
    /\ own[w] \in Conns
    /\ fdConn[clientSocket[w]] = own[w]
    /\ ssl[own[w]] = "live"

(* The map never keeps a freed pointer, except between SSL_free and erase  *)
(* of the worker that owns the entry; and nobody's live entry is lost      *)
(* before its worker starts.                                               *)
SslMapCurrent ==
  /\ \A f \in Sockets, c \in Conns :
       sslMap[f] = c => \/ ssl[c] = "live" /\ fdConn[f] = c
                        \/ \E w \in Workers : pc[w] = "erase" /\ clientSocket[w] = f
  /\ \A i \in DOMAIN jobQueue : sslMap[jobQueue[i]] = fdConn[jobQueue[i]]
  /\ \A w \in Workers :
       pc[w] = "start" => sslMap[clientSocket[w]] = fdConn[clientSocket[w]]

(* Map and objects agree, whichever worker looks, inserts or erases when.  *)
SslCurrent == OwnSslLive /\ SslMapCurrent

(* Whoever is logged in is being served: a session never survives into the *)
(* next connection on the same descriptor.                                 *)
SessionIsServed ==
  \A f \in Sockets : IsLoggedIn(f) =>
    \E w \in Serving : clientSocket[w] = f /\ pc[w] # "free"

(* What a client relays is written to no other connection than the one     *)
(* that was logged in under the name given, when that name was looked up.  *)
RelayReachesAddressee ==
  \A w \in Workers : pc[w] = "relayWrite" /\ target[w] # Null => target[w] = addressee[w]

-----------------------------------------------------------------------------
(* Liveness.  A connection the kernel has accepted is let in or turned     *)
(* away, if no client stops half-way in its handshake.                     *)
Undecided(c) ==
  \/ \E i \in DOMAIN backlog : backlog[i] = c
  \/ mainPc \in {"handshake", "admit"} /\ fdConn[mainFd] = c

EveryConnectionAnswered == \A c \in Conns : Undecided(c) ~> (~Undecided(c) \/ ~up)

(* A connection that was let in is served, whatever the others do.         *)
AtWorker(c) == \E w \in Workers : own[w] = c

EveryAdmissionServed ==
  \A c \in Conns :
    (mainPc = "store" /\ fdConn[mainFd] = c) ~> (AtWorker(c) \/ ~up)

(* A client that has gone frees its slot, wherever its worker was.         *)
SlotReleased ==
  \A c \in Conns : (AtWorker(c) /\ peer[c] = "gone") ~> (~AtWorker(c) \/ ~up)

-----------------------------------------------------------------------------
(* Refinement: to the abstract admission of connections, with the phase of *)
(* a connection read off the place of its descriptor.                      *)
Secured(c) == mainPc = "admit" /\ fdConn[mainFd] = c

PhaseOf(c) ==
  IF AtWorker(c) THEN "served"
  ELSE IF peer[c] = "idle" THEN "idle"
  ELSE IF Secured(c) THEN "secured"
  ELSE IF Undecided(c) THEN "waiting"
  ELSE IF \E f \in Sockets : fdConn[f] = c THEN "admitted"
  ELSE "done"

Gate == INSTANCE Admission WITH phase <- [c \in Conns |-> PhaseOf(c)]

(* Every step of the threads is a step of the gate, or hidden.             *)
ImplementsAdmission == Gate!Spec
=============================================================================
