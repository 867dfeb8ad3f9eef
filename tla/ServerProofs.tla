---------------------------- MODULE ServerProofs ----------------------------
(***************************************************************************)
(* Theorems about Server: for any number of connections, descriptors and   *)
(* workers, and any MaxClients the workers can serve.                      *)
(***************************************************************************)
EXTENDS Server, SequenceTheorems, FiniteSetTheorems, TLAPS

-----------------------------------------------------------------------------
(* The account table, whoever uses it.                                     *)

(* Setting the flag of one entry.                                          *)
LEMMA SetFlag ==
  ASSUME users \in Seq(User), NEW k \in DOMAIN users, NEW v \in BOOLEAN,
         users' = [users EXCEPT ![k].isLoggedIn = v]
  PROVE  /\ users' \in Seq(User)
         /\ DOMAIN users' = DOMAIN users
         /\ \A i \in DOMAIN users :
              /\ users'[i].username = users[i].username
              /\ users'[i].password = users[i].password
              /\ users'[i].isLoggedIn = IF i = k THEN v ELSE users[i].isLoggedIn
<1> DEFINE u == [users[k] EXCEPT !.isLoggedIn = v]
<1>1. users[k] \in User
  BY ElementOfSeq
<1>2. u \in User
  BY <1>1 DEF User
<1>3. users' = [users EXCEPT ![k] = u]
  OBVIOUS
<1>4. users' \in Seq(User)
  BY <1>2, <1>3, ExceptSeq
<1>5. \A i \in DOMAIN users : users'[i] = IF i = k THEN u ELSE users[i]
  BY <1>3
<1> QED
  BY <1>1, <1>3, <1>4, <1>5 DEF User

(* loginUser and logoutUser keep the table one of accounts and the map one *)
(* of names, whatever entry the scan has found.                            *)
LEMMA FlagKeepsTable ==
  ASSUME users \in Seq(User), NEW k, NEW v \in BOOLEAN,
         users' = [users EXCEPT ![k].isLoggedIn = v]
  PROVE  users' \in Seq(User)
<1>1. CASE k \in DOMAIN users
  BY <1>1, SetFlag
<1>2. CASE k \notin DOMAIN users
  <2>1. DOMAIN users' = DOMAIN users /\ \A i \in DOMAIN users : users'[i] = users[i]
    BY <1>2
  <2>2. users' = users
    BY <2>1, LenProperties
  <2> QED
    BY <2>2
<1> QED
  BY <1>1, <1>2

LEMMA LoginKeepsTypes ==
  ASSUME UMTypeOK, NEW s \in Sockets, NEW n \in Names, LoginUser(s, n)
  PROVE  UMTypeOK'
<1>1. users' \in Seq(User)
  BY FlagKeepsTable DEF UMTypeOK, LoginUser
<1> QED
  BY <1>1 DEF UMTypeOK, LoginUser

LEMMA LogoutKeepsTypes ==
  ASSUME UMTypeOK, NEW s \in Sockets, LogoutUser(s)
  PROVE  UMTypeOK'
<1>1. users' \in Seq(User)
  BY FlagKeepsTable DEF UMTypeOK, LogoutUser
<1> QED
  BY <1>1 DEF UMTypeOK, LogoutUser

(* loadUsers: nobody is logged in when the server has just started.        *)
LEMMA LoadedAgreement ==
  ASSUME NEW file \in Seq(Line),
         \A i, j \in DOMAIN file : file[i].username = file[j].username => i = j
  PROVE  /\ LoadUsers(file) \in Seq(User)
         /\ DOMAIN LoadUsers(file) = DOMAIN file
         /\ \A i \in DOMAIN file :
              /\ LoadUsers(file)[i].username = file[i].username
              /\ LoadUsers(file)[i].isLoggedIn = FALSE
<1>1. DOMAIN file = 1..Len(file) /\ Len(file) \in Nat
  BY LenProperties
<1>2. \A i \in 1..Len(file) : file[i] \in Line
  BY ElementOfSeq
<1>3. \A i \in 1..Len(file) : NewUser(file[i]) \in User
  BY <1>2 DEF NewUser, User, Line
<1>4. LoadUsers(file) \in [1..Len(file) -> User]
  BY <1>1, <1>3 DEF LoadUsers
<1>5. LoadUsers(file) \in Seq(User)
  BY <1>1, <1>4, SeqDef
<1> QED
  BY <1>1, <1>5 DEF LoadUsers, NewUser

-----------------------------------------------------------------------------
(* Queues, seen as what is in them and whether it is in them once.         *)

In(x, q) == \E i \in DOMAIN q : q[i] = x
Once(q)  == \A i, j \in DOMAIN q : q[i] = q[j] => i = j

LEMMA QueuedLast ==
  ASSUME NEW S, NEW q \in Seq(S), NEW x \in S
  PROVE  /\ Append(q, x) \in Seq(S)
         /\ Len(Append(q, x)) = Len(q) + 1
         /\ \A y : In(y, Append(q, x)) <=> In(y, q) \/ y = x
         /\ Once(q) /\ ~In(x, q) => Once(Append(q, x))
<1> DEFINE r == Append(q, x)
           m == Len(q) + 1
<1>1. /\ r \in Seq(S) /\ Len(r) = m /\ Len(q) \in Nat
      /\ DOMAIN q = 1..Len(q) /\ DOMAIN r = 1..m
      /\ \A i \in DOMAIN q : r[i] = q[i]
      /\ r[m] = x
  BY AppendProperties, LenProperties
<1>2. DOMAIN r = DOMAIN q \cup {m}
  BY <1>1
<1> HIDE DEF r, m
<1>3. \A y : In(y, r) <=> In(y, q) \/ y = x
  BY <1>1, <1>2 DEF In
<1>4. Once(q) /\ ~In(x, q) => Once(r)
  BY <1>1, <1>2 DEF In, Once
<1> QED
  BY <1>1, <1>3, <1>4 DEF r, m

LEMMA TakenFirst ==
  ASSUME NEW S, NEW q \in Seq(S), q # <<>>
  PROVE  /\ Head(q) \in S /\ In(Head(q), q)
         /\ Tail(q) \in Seq(S)
         /\ Len(q) \in Nat /\ Len(q) > 0 /\ Len(Tail(q)) = Len(q) - 1
         /\ \A y : In(y, Tail(q)) => In(y, q)
         /\ \A y : In(y, q) => In(y, Tail(q)) \/ y = Head(q)
         /\ Once(q) => Once(Tail(q)) /\ ~In(Head(q), Tail(q))
<1> DEFINE r == Tail(q)
<1>1. /\ Len(q) \in Nat /\ Len(q) > 0 /\ DOMAIN q = 1..Len(q)
      /\ Head(q) = q[1] /\ q[1] \in S
  BY LenProperties, EmptySeq, HeadTailProperties, ElementOfSeq
<1>2. /\ r \in Seq(S) /\ Len(r) = Len(q) - 1 /\ DOMAIN r = 1..(Len(q) - 1)
      /\ \A i \in DOMAIN r : r[i] = q[i + 1]
  BY LenProperties, HeadTailProperties
<1> HIDE DEF r
<1>3. \A i \in DOMAIN r : i + 1 \in DOMAIN q /\ i + 1 # 1
  BY <1>1, <1>2
<1>4. \A i \in DOMAIN q : i = 1 \/ (i - 1 \in DOMAIN r /\ r[i - 1] = q[i])
  BY <1>1, <1>2
<1>5. \A y : In(y, r) => In(y, q)
  BY <1>2, <1>3 DEF In
<1>6. \A y : In(y, q) => In(y, r) \/ y = Head(q)
  BY <1>1, <1>4 DEF In
<1>7. ASSUME Once(q) PROVE Once(r) /\ ~In(Head(q), r)
  <2>1. \A i, j \in DOMAIN r : r[i] = r[j] => i + 1 = j + 1
    BY <1>2, <1>3, <1>7 DEF Once
  <2>2. Once(r)
    BY <2>1, <1>1, <1>2 DEF Once
  <2>3. 1 \in DOMAIN q
    BY <1>1
  <2>4. ~In(Head(q), r)
    BY <1>1, <1>2, <1>3, <1>7, <2>3 DEF In, Once
  <2> QED
    BY <2>2, <2>4
<1>8. In(Head(q), q)
  BY <1>1 DEF In
<1> QED
  BY <1>1, <1>2, <1>5, <1>6, <1>7, <1>8 DEF r

-----------------------------------------------------------------------------
(* The inductive invariant, in named parts.                                *)

(* A place has its data: the main thread a descriptor beyond accept, a     *)
(* worker a descriptor, and beyond its look-up an SSL object.              *)
Places ==
  /\ mainPc # "accept" => mainFd \in Sockets
  /\ \A w \in Workers :
       /\ pc[w] # "idle" => clientSocket[w] \in Sockets
       /\ pc[w] \in {"idle", "start"} => own[w] = None
       /\ pc[w] \notin {"idle", "start"} => own[w] \in Conns

(* FdHeldOnce and SslMapCurrent, the queue seen through In and Once.       *)
FdOK ==
  /\ Once(jobQueue)
  /\ \A v, w \in Holding : clientSocket[v] = clientSocket[w] => v = w
  /\ \A w \in Holding : ~In(clientSocket[w], jobQueue)
  /\ mainPc # "accept" => /\ ~In(mainFd, jobQueue)
                          /\ \A w \in Holding : clientSocket[w] # mainFd
  /\ \A f \in Sockets :
       fdConn[f] # None <=> \/ mainPc # "accept" /\ mainFd = f
                            \/ In(f, jobQueue)
                            \/ \E w \in Holding : clientSocket[w] = f

(* A connection is in one place of its life.                               *)
ConnOnce ==
  /\ Once(backlog)
  /\ \A f, g \in Sockets : fdConn[f] \in Conns /\ fdConn[f] = fdConn[g] => f = g
  /\ \A c \in Conns : peer[c] = "idle" \/ In(c, backlog) =>
       (\A f \in Sockets : fdConn[f] # c) /\ (\A w \in Workers : own[w] # c)
  /\ \A c \in Conns : peer[c] = "idle" => ~In(c, backlog)
  /\ \A v, w \in Workers : own[v] \in Conns /\ own[v] = own[w] => v = w
  /\ \A w \in Workers : own[w] \in Conns =>
       IF pc[w] = "decrement" THEN \A f \in Sockets : fdConn[f] # own[w]
                              ELSE fdConn[clientSocket[w]] = own[w]

(* An open descriptor has its SSL object, until its worker has freed it.   *)
Ending(w) == pc[w] \in {"erase", "close"}

SslOK ==
  /\ \A f \in Sockets : fdConn[f] \in Conns =>
       ssl[fdConn[f]] = "live" \/ \E w \in Workers : Ending(w) /\ clientSocket[w] = f
  /\ \A w \in Workers : Ending(w) => ssl[own[w]] = "freed"

MapOK ==
  /\ \A f \in Sockets, c \in Conns :
       sslMap[f] = c => \/ ssl[c] = "live" /\ fdConn[f] = c
                        \/ \E w \in Workers : pc[w] = "erase" /\ clientSocket[w] = f
  /\ \A f \in Sockets : In(f, jobQueue) => sslMap[f] = fdConn[f]
  /\ \A w \in Workers : pc[w] = "start" => sslMap[clientSocket[w]] = fdConn[clientSocket[w]]
  /\ mainPc = "enqueue" => sslMap[mainFd] = fdConn[mainFd]
  /\ mainPc \in {"handshake", "admit", "store"} => sslMap[mainFd] \notin Conns

(* The counter also counts the connections that are inside the gate.       *)
InsideNow   == {c \in Conns : PhaseOf(c) \in {"admitted", "served"}}
InsideExact == Cardinality(InsideNow) = currentClients

(* What the steps disturb, and what counts them.                           *)
Base == TypeOK /\ Places /\ FdOK /\ ConnOnce /\ SslOK /\ MapOK

IInv == Base /\ SessionIsServed /\ ClientCountExact /\ InsideExact

LEMMA PartsAgree ==
  ASSUME Base PROVE FdHeldOnce /\ SslCurrent
<1>1. FdHeldOnce
  BY DEF Base, FdOK, FdHeldOnce, In, Once
<1>2. ASSUME NEW w \in Serving
      PROVE  /\ own[w] \in Conns
             /\ fdConn[clientSocket[w]] = own[w]
             /\ ssl[own[w]] = "live"
  <2>1. w \in Workers /\ w \in Holding /\ ~Ending(w) /\ pc[w] \notin {"idle", "start", "decrement"}
    BY <1>2 DEF Serving, Holding, Ending
  <2>2. own[w] \in Conns /\ fdConn[clientSocket[w]] = own[w] /\ clientSocket[w] \in Sockets
    BY <2>1 DEF Base, Places, ConnOnce
  <2>3. \A v \in Workers : Ending(v) /\ clientSocket[v] = clientSocket[w] => v = w
    BY <2>1 DEF Base, FdOK, Ending, Holding
  <2> QED
    BY <2>1, <2>2, <2>3 DEF Base, SslOK
<1>3. SslMapCurrent
  <2>1. \A i \in DOMAIN jobQueue : jobQueue[i] \in Sockets /\ In(jobQueue[i], jobQueue)
    BY ElementOfSeq, LenProperties DEF Base, TypeOK, In
  <2> QED
    BY <2>1 DEF Base, MapOK, SslMapCurrent
<1> QED
  BY <1>1, <1>2, <1>3 DEF SslCurrent, OwnSslLive

-----------------------------------------------------------------------------
(* The steps.                                                              *)

(* What serving a client does, seen from outside: pc moves on, the session *)
(* of the client's own descriptor may change, and sslMap gets null entries *)
(* where it had none or loses the client's own one.                        *)
From == {"loop", "relayAsk", "relayMap", "relayWrite", "logout"}

Talk(w) ==
  LET own_ == clientSocket[w] IN
  /\ up /\ pc[w] \in From
  /\ UNCHANGED frame
  /\ \E to \in From \cup {"free"} : pc' = [pc EXCEPT ![w] = to]
  /\ pc'[w] = "free" => clientStatus'[own_] = NoUser
  /\ \A f \in Sockets : f # own_ => clientStatus'[f] = clientStatus[f]
  /\ \A f \in Sockets :
       \/ sslMap'[f] = sslMap[f]
       \/ sslMap[f] = None /\ sslMap'[f] = Null
       \/ f = own_ /\ sslMap'[f] = None

LEMMA TalkSteps ==
  ASSUME TypeOK, Places, NEW w \in Workers,
         \/ Login(w) \/ Logout(w) \/ Exit(w) \/ ReadFails(w) \/ RelaySelect(w)
         \/ Relay(w) \/ CleanupLogout(w)
  PROVE  Talk(w)
<1> USE DEF TypeOK, UMTypeOK, Talk, From, At, Goto
<1>1. CASE Login(w)
  <2>1. \E n \in Names : clientStatus' = [clientStatus EXCEPT ![clientSocket[w]] = n]
    BY <1>1 DEF Login, LoginUser
  <2>2. \A f \in Sockets : f # clientSocket[w] => clientStatus'[f] = clientStatus[f]
    BY <2>1
  <2>3. pc[w] = "loop" /\ pc' = [pc EXCEPT ![w] = "loop"]
    BY <1>1 DEF Login
  <2> QED
    BY <1>1, <2>2, <2>3 DEF Login
<1>2. CASE Logout(w)
  <2>1. \A f \in Sockets : f # clientSocket[w] => clientStatus'[f] = clientStatus[f]
    BY <1>2 DEF Logout, LogoutUser
  <2>2. pc[w] = "loop" /\ pc' = [pc EXCEPT ![w] = "loop"]
    BY <1>2 DEF Logout
  <2> QED
    BY <1>2, <2>1, <2>2 DEF Logout
<1>3. CASE Exit(w)
  <2>1. pc[w] \in From /\ pc' = [pc EXCEPT ![w] = "logout"] /\ up /\ UNCHANGED frame
    BY <1>3 DEF Exit
  <2>2. clientStatus' = clientStatus
    BY <1>3 DEF Exit, umVars
  <2>3. \A f \in Sockets :
          sslMap'[f] = sslMap[f] \/ (f = clientSocket[w] /\ sslMap'[f] = None)
    BY <1>3 DEF Exit
  <2> QED
    BY <2>1, <2>2, <2>3
<1>4. CASE ReadFails(w)
  <2>1. pc[w] \in From /\ pc' = [pc EXCEPT ![w] = "logout"] /\ up /\ UNCHANGED frame
    BY <1>4 DEF ReadFails
  <2>2. clientStatus' = clientStatus /\ sslMap' = sslMap
    BY <1>4 DEF ReadFails, umVars
  <2> QED
    BY <2>1, <2>2
<1>5. CASE RelaySelect(w)
  <2>1. pc[w] \in From /\ pc' = [pc EXCEPT ![w] = "relayAsk"] /\ up /\ UNCHANGED frame
    BY <1>5 DEF RelaySelect
  <2>2. clientStatus' = clientStatus /\ sslMap' = sslMap
    BY <1>5 DEF RelaySelect, umVars
  <2> QED
    BY <2>1, <2>2
<1>6. CASE RelayGivenUp(w)
  <2>1. pc[w] \in From /\ pc' = [pc EXCEPT ![w] = "loop"] /\ up /\ UNCHANGED frame
    BY <1>6 DEF RelayGivenUp
  <2>2. clientStatus' = clientStatus /\ sslMap' = sslMap
    BY <1>6 DEF RelayGivenUp, umVars
  <2> QED
    BY <2>1, <2>2
<1>7. CASE RelayLookup(w)
  <2>1. pc[w] \in From /\ pc' = [pc EXCEPT ![w] = "relayMap"] /\ up /\ UNCHANGED frame
    BY <1>7 DEF RelayLookup
  <2>2. clientStatus' = clientStatus /\ sslMap' = sslMap
    BY <1>7 DEF RelayLookup, umVars
  <2> QED
    BY <2>1, <2>2
<1>8. CASE RelayMap(w)
  <2>1. pc[w] \in From /\ pc' = [pc EXCEPT ![w] = "relayWrite"] /\ up /\ UNCHANGED frame
    BY <1>8 DEF RelayMap
  <2>2. clientStatus' = clientStatus
    BY <1>8 DEF RelayMap, umVars
  <2>3. \A f \in Sockets :
          sslMap'[f] = sslMap[f] \/ (sslMap[f] = None /\ sslMap'[f] = Null)
    BY <1>8 DEF RelayMap, Touch, Looked
  <2> QED
    BY <2>1, <2>2, <2>3
<1>9. CASE RelayWrite(w)
  <2>1. pc[w] \in From /\ pc' = [pc EXCEPT ![w] = "loop"] /\ up /\ UNCHANGED frame
    BY <1>9 DEF RelayWrite
  <2>2. clientStatus' = clientStatus /\ sslMap' = sslMap
    BY <1>9 DEF RelayWrite, umVars
  <2> QED
    BY <2>1, <2>2
<1>10. CASE CleanupLogout(w)
  <2>1. clientSocket[w] \in Sockets
    BY <1>10 DEF CleanupLogout, Places
  <2>2. /\ \A f \in Sockets : f # clientSocket[w] => clientStatus'[f] = clientStatus[f]
        /\ clientStatus'[clientSocket[w]] = NoUser
    BY <1>10, <2>1 DEF CleanupLogout, LogoutUser
  <2>3. pc[w] \in From /\ pc' = [pc EXCEPT ![w] = "free"] /\ up /\ UNCHANGED frame
    BY <1>10 DEF CleanupLogout
  <2>4. sslMap' = sslMap
    BY <1>10 DEF CleanupLogout
  <2> QED
    BY <2>2, <2>3, <2>4
<1> QED
  BY <1>1, <1>2, <1>3, <1>4, <1>5, <1>6, <1>7, <1>8, <1>9, <1>10 DEF Relay

(* HandshakeFails and Reject.                                              *)
NotLetIn == up /\ mainPc \in {"handshake", "admit"} /\ TurnAway /\ UNCHANGED currentClients

LEMMA StepsOfNext ==
  ASSUME TypeOK, Places, Next
  PROVE  \/ \E c \in Conns : Connect(c) \/ Leave(c)
         \/ Accept \/ HandshakeDone \/ NotLetIn \/ Admit \/ Store \/ Enqueue
         \/ \E w \in Workers :
              \/ TakeJob(w) \/ Start(w) \/ Talk(w) \/ CleanupFree(w)
              \/ CleanupErase(w) \/ CleanupClose(w) \/ Decrement(w)
         \/ Die
<1>1. ASSUME NEW w \in Workers, Worker(w)
      PROVE  \/ TakeJob(w) \/ Start(w) \/ Talk(w) \/ CleanupFree(w)
             \/ CleanupErase(w) \/ CleanupClose(w) \/ Decrement(w)
  BY <1>1, TalkSteps DEF Worker, Command, Cleanup
<1>2. HandshakeFails \/ Reject => NotLetIn
  BY DEF HandshakeFails, Reject, NotLetIn, MainAt
<1> QED
  BY <1>1, <1>2 DEF Next, Main

-----------------------------------------------------------------------------
(* Types.                                                                  *)

LEMMA ServerTypes ==
  ASSUME TypeOK, Places, Next PROVE TypeOK'
<1> USE DEF TypeOK
<1>1. ASSUME NEW c \in Conns, Connect(c) PROVE TypeOK'
  <2>1. backlog' \in Seq(Conns)
    BY <1>1, QueuedLast DEF Connect
  <2> QED
    BY <1>1, <2>1 DEF Connect, UMTypeOK, umVars, mainVars, workerVars, targetVars
<1>2. ASSUME NEW c \in Conns, Leave(c) PROVE TypeOK'
  BY <1>2 DEF Leave, UMTypeOK, umVars, mainVars, workerVars, targetVars
<1>3. CASE Accept
  <2>1. backlog' \in Seq(Conns) /\ Head(backlog) \in Conns
    BY <1>3, TakenFirst DEF Accept
  <2>2. PICK f \in Sockets : fdConn' = [fdConn EXCEPT ![f] = Head(backlog)] /\ mainFd' = f
    BY <1>3 DEF Accept
  <2>3. fdConn' \in [Sockets -> Conns \cup {None}] /\ mainFd' \in Sockets \cup {None}
    BY <2>1, <2>2
  <2> QED
    BY <1>3, <2>1, <2>3 DEF Accept, MainPCs, UMTypeOK, umVars, workerVars, targetVars
<1>4. CASE HandshakeDone
  BY <1>4 DEF HandshakeDone, MainPCs, UMTypeOK, umVars, netVars, workerVars, targetVars
<1>5. CASE NotLetIn
  BY <1>5 DEF NotLetIn, TurnAway, MainPCs, UMTypeOK, umVars, workerVars, targetVars
<1>6. CASE Admit
  BY <1>6 DEF Admit, MainPCs, UMTypeOK, umVars, netVars, workerVars, targetVars
<1>7. CASE Store
  <2>1. mainFd \in Sockets
    BY <1>7 DEF Store, MainAt, Places
  <2> QED
    BY <1>7, <2>1 DEF Store, MainPCs, UMTypeOK, umVars, netVars, workerVars, targetVars
<1>8. CASE Enqueue
  <2>1. jobQueue' \in Seq(Sockets)
    BY <1>8, QueuedLast DEF Enqueue, MainAt, Places
  <2> QED
    BY <1>8, <2>1 DEF Enqueue, MainPCs, UMTypeOK, umVars, netVars, workerVars, targetVars
<1>9. ASSUME NEW w \in Workers, Worker(w) PROVE TypeOK'
  <2> USE DEF WorkerPCs, At, Goto
  <2>1. CASE TakeJob(w)
    <3>1. jobQueue' \in Seq(Sockets) /\ Head(jobQueue) \in Sockets
      BY <2>1, TakenFirst DEF TakeJob
    <3> QED
      BY <2>1, <3>1 DEF TakeJob, UMTypeOK, umVars, netVars, mainVars, targetVars
  <2>2. CASE Start(w)
    <3>1. clientSocket[w] \in Sockets
      BY <2>2 DEF Start, Places
    <3>2. Looked(clientSocket[w]) \in Conns \cup {Null}
      BY <3>1 DEF Looked
    <3> QED
      BY <2>2, <3>1, <3>2 DEF Start, Touch, UMTypeOK, umVars, netVars, mainVars, targetVars
  <2>3. CASE Login(w)
    <3>1. clientSocket[w] \in Sockets
      BY <2>3 DEF Login, Places
    <3>2. UMTypeOK'
      BY <2>3, <3>1, LoginKeepsTypes DEF Login
    <3> QED
      BY <2>3, <3>2 DEF Login, frame, netVars, mainVars, targetVars
  <2>4. CASE Logout(w) \/ CleanupLogout(w)
    <3>1. clientSocket[w] \in Sockets
      BY <2>4 DEF Logout, CleanupLogout, Places
    <3>2. UMTypeOK'
      BY <2>4, <3>1, LogoutKeepsTypes DEF Logout, CleanupLogout
    <3>3. pc' \in [Workers -> WorkerPCs] /\ \A v \in Workers : pc'[v] = "relayMap" => pc[v] = "relayMap"
      BY <2>4 DEF Logout, CleanupLogout
    <3> QED
      BY <2>4, <3>2, <3>3 DEF Logout, CleanupLogout, frame, netVars, mainVars, targetVars
  <2>5. CASE Exit(w)
    <3>1. clientSocket[w] \in Sockets
      BY <2>5 DEF Exit, Places
    <3> QED
      BY <2>5, <3>1 DEF Exit, UMTypeOK, umVars, frame, netVars, mainVars, targetVars
  <2>6. CASE ReadFails(w) \/ RelaySelect(w) \/ RelayGivenUp(w)
    <3>1. pc' \in [Workers -> WorkerPCs] /\ \A v \in Workers : pc'[v] = "relayMap" => pc[v] = "relayMap"
      BY <2>6 DEF ReadFails, RelaySelect, RelayGivenUp
    <3> QED
      BY <2>6, <3>1 DEF ReadFails, RelaySelect, RelayGivenUp, UMTypeOK, umVars, frame,
         netVars, mainVars, targetVars
  <2>7. CASE RelayLookup(w)
    BY <2>7 DEF RelayLookup, UMTypeOK, umVars, frame, netVars, mainVars
  <2>8. CASE RelayMap(w)
    <3>1. targetSocket[w] \in Sockets
      BY <2>8 DEF RelayMap
    <3>2. Looked(targetSocket[w]) \in Conns \cup {Null}
      BY <3>1 DEF Looked
    <3> QED
      BY <2>8, <3>1, <3>2 DEF RelayMap, Touch, UMTypeOK, umVars, frame, netVars, mainVars
  <2>9. CASE RelayWrite(w)
    BY <2>9 DEF RelayWrite, UMTypeOK, umVars, frame, netVars, mainVars
  <2>10. CASE CleanupFree(w)
    BY <2>10 DEF CleanupFree, UMTypeOK, umVars, mainVars, targetVars
  <2>11. CASE CleanupErase(w) \/ CleanupClose(w)
    BY <2>11 DEF CleanupErase, CleanupClose, UMTypeOK, umVars, frame, netVars, mainVars, targetVars
  <2>12. CASE Decrement(w)
    BY <2>12 DEF Decrement, UMTypeOK, umVars, netVars, mainVars, targetVars
  <2> QED
    BY <1>9, <2>1, <2>2, <2>3, <2>4, <2>5, <2>6, <2>7, <2>8, <2>9, <2>10, <2>11, <2>12
       DEF Worker, Command, Relay, Cleanup
<1>10. CASE Die
  BY <1>10 DEF Die, UMTypeOK, umVars, netVars, mainVars, workerVars, targetVars
<1>11. HandshakeFails \/ Reject => NotLetIn
  BY DEF HandshakeFails, Reject, NotLetIn, MainAt
<1> QED
  BY <1>1, <1>2, <1>3, <1>4, <1>5, <1>6, <1>7, <1>8, <1>9, <1>10, <1>11 DEF Next, Main

-----------------------------------------------------------------------------
(* Each part of Base is kept.                                              *)

(* The look-up of a worker finds what the main thread stored, and inserts  *)
(* nothing.                                                                *)
LEMMA StartFinds ==
  ASSUME Base, NEW w \in Workers, Start(w)
  PROVE  /\ clientSocket[w] \in Sockets
         /\ fdConn[clientSocket[w]] \in Conns
         /\ sslMap[clientSocket[w]] = fdConn[clientSocket[w]]
         /\ own' = [own EXCEPT ![w] = fdConn[clientSocket[w]]]
         /\ sslMap' = sslMap
<1> DEFINE f == clientSocket[w]
<1>1. pc[w] = "start" /\ w \in Holding
  BY DEF Start, At, Holding
<1>2. f \in Sockets
  BY <1>1 DEF Base, Places
<1>3. fdConn[f] # None /\ sslMap[f] = fdConn[f]
  BY <1>1, <1>2 DEF Base, FdOK, MapOK
<1>4. fdConn[f] \in Conns
  BY <1>2, <1>3 DEF Base, TypeOK
<1>5. Looked(f) = fdConn[f]
  BY <1>3 DEF Looked
<1>6. sslMap' = sslMap
  BY <1>2, <1>3, <1>5 DEF Start, Touch, Base, TypeOK
<1> QED
  BY <1>2, <1>3, <1>4, <1>5, <1>6 DEF Start

LEMMA PlacesKept ==
  ASSUME Base, Next PROVE Places'
<1> USE DEF Places
<1>1. ASSUME NEW c \in Conns, Connect(c) \/ Leave(c) PROVE Places'
  BY <1>1 DEF Base, Connect, Leave, mainVars, workerVars
<1>2. CASE Accept
  BY <1>2 DEF Base, Accept, workerVars
<1>3. CASE HandshakeDone
  BY <1>3 DEF Base, HandshakeDone, MainAt, workerVars
<1>4. CASE NotLetIn
  BY <1>4 DEF Base, NotLetIn, TurnAway, workerVars
<1>5. CASE Admit \/ Store \/ Enqueue
  BY <1>5 DEF Base, Admit, Store, Enqueue, MainAt, workerVars
<1>6. ASSUME NEW w \in Workers, TakeJob(w) PROVE Places'
  <2>1. Head(jobQueue) \in Sockets
    BY <1>6, TakenFirst DEF TakeJob, Base, TypeOK
  <2> QED
    BY <1>6, <2>1 DEF Base, TypeOK, TakeJob, At, Goto, mainVars
<1>7. ASSUME NEW w \in Workers, Start(w) PROVE Places'
  <2>1. /\ fdConn[clientSocket[w]] \in Conns /\ clientSocket[w] \in Sockets
        /\ own' = [own EXCEPT ![w] = fdConn[clientSocket[w]]] /\ pc' = [pc EXCEPT ![w] = "loop"]
        /\ UNCHANGED <<clientSocket, mainPc, mainFd>>
    BY <1>7, StartFinds DEF Start, Goto, mainVars
  <2>2. \A v \in Workers : /\ own'[v] = IF v = w THEN fdConn[clientSocket[w]] ELSE own[v]
                           /\ pc'[v] = IF v = w THEN "loop" ELSE pc[v]
    BY <2>1 DEF Base, TypeOK
  <2> QED
    BY <2>1, <2>2 DEF Base
<1>8. ASSUME NEW w \in Workers, Talk(w) PROVE Places'
  BY <1>8 DEF Base, TypeOK, Talk, From, frame, mainVars
<1>9. ASSUME NEW w \in Workers,
             CleanupFree(w) \/ CleanupErase(w) \/ CleanupClose(w) \/ Decrement(w)
      PROVE  Places'
  BY <1>9 DEF Base, TypeOK, CleanupFree, CleanupErase, CleanupClose, Decrement, At, Goto,
     frame, mainVars
<1>10. CASE Die
  BY <1>10 DEF Base, Die, mainVars, workerVars
<1>11. Base => TypeOK /\ Places
  BY DEF Base
<1> QED
  BY <1>1, <1>2, <1>3, <1>4, <1>5, <1>6, <1>7, <1>8, <1>9, <1>10, <1>11, StepsOfNext

LEMMA FdKept ==
  ASSUME Base, Next PROVE FdOK'
<1> USE DEF FdOK
<1>1. ASSUME NEW c \in Conns, Connect(c) \/ Leave(c) PROVE FdOK'
  BY <1>1 DEF Base, Connect, Leave, mainVars, workerVars, Holding
<1>2. CASE Accept
  <2>1. PICK f \in Sockets :
          fdConn[f] = None /\ fdConn' = [fdConn EXCEPT ![f] = Head(backlog)] /\ mainFd' = f
    BY <1>2 DEF Accept
  <2>2. Head(backlog) \in Conns /\ Head(backlog) # None
    BY <1>2, TakenFirst, ServerAssumption DEF Accept, Base, TypeOK
  <2>3. mainPc = "accept" /\ mainPc' = "handshake" /\ jobQueue' = jobQueue
        /\ pc' = pc /\ clientSocket' = clientSocket
    BY <1>2 DEF Accept, MainAt, workerVars
  <2>4. \A g \in Sockets : fdConn'[g] # None <=> fdConn[g] # None \/ g = f
    BY <2>1, <2>2 DEF Base, TypeOK
  <2>5. ~In(f, jobQueue) /\ \A w \in Holding : clientSocket[w] # f
    BY <2>1 DEF Base
  <2> QED
    BY <2>1, <2>3, <2>4, <2>5 DEF Base, Holding
<1>3. CASE HandshakeDone
  BY <1>3 DEF Base, HandshakeDone, MainAt, netVars, workerVars, Holding
<1>4. CASE NotLetIn
  <2>1. \A g \in Sockets : fdConn'[g] # None <=> fdConn[g] # None /\ g # mainFd
    BY <1>4 DEF Base, TypeOK, Places, NotLetIn, TurnAway
  <2>2. jobQueue' = jobQueue /\ pc' = pc /\ clientSocket' = clientSocket
        /\ mainPc # "accept" /\ mainPc' = "accept"
    BY <1>4 DEF NotLetIn, TurnAway, workerVars
  <2> QED
    BY <2>1, <2>2 DEF Base, Holding
<1>5. CASE Admit \/ Store
  BY <1>5 DEF Base, Admit, Store, MainAt, netVars, workerVars, Holding
<1>6. CASE Enqueue
  <2>1. mainFd \in Sockets /\ mainPc = "enqueue" /\ mainPc' = "accept"
    BY <1>6 DEF Enqueue, MainAt, Base, Places
  <2>2. /\ \A y : In(y, jobQueue') <=> In(y, jobQueue) \/ y = mainFd
        /\ Once(jobQueue')
    BY <1>6, <2>1, QueuedLast DEF Enqueue, Base, TypeOK
  <2>3. fdConn' = fdConn /\ pc' = pc /\ clientSocket' = clientSocket
    BY <1>6 DEF Enqueue, netVars, workerVars
  <2> QED
    BY <2>1, <2>2, <2>3 DEF Base, Holding
<1>7. ASSUME NEW w \in Workers, TakeJob(w) PROVE FdOK'
  <2> DEFINE f == Head(jobQueue)
  <2>1. /\ f \in Sockets /\ Once(jobQueue')
        /\ \A y : In(y, jobQueue') <=> In(y, jobQueue) /\ y # f
        /\ In(f, jobQueue)
    BY <1>7, TakenFirst DEF TakeJob, Base, TypeOK
  <2>2. /\ clientSocket' = [clientSocket EXCEPT ![w] = f] /\ pc' = [pc EXCEPT ![w] = "start"]
        /\ pc[w] = "idle" /\ fdConn' = fdConn /\ mainPc' = mainPc /\ mainFd' = mainFd
    BY <1>7 DEF TakeJob, At, Goto, netVars, mainVars
  <2> HIDE DEF f
  <2>3. /\ \A v \in Workers : clientSocket'[v] = IF v = w THEN f ELSE clientSocket[v]
        /\ \A v \in Workers : v \in Holding' <=> v \in Holding \/ v = w
        /\ w \notin Holding
    BY <2>2 DEF Base, TypeOK, Holding
  <2>4. Holding \subseteq Workers /\ Holding' \subseteq Workers
    BY DEF Holding
  <2> QED
    BY <2>1, <2>2, <2>3, <2>4 DEF Base
<1>8. ASSUME NEW w \in Workers, Start(w) \/ Talk(w) \/ CleanupFree(w) \/ CleanupErase(w)
      PROVE  FdOK'
  <2>1. /\ jobQueue' = jobQueue /\ fdConn' = fdConn /\ mainPc' = mainPc /\ mainFd' = mainFd
        /\ clientSocket' = clientSocket
    BY <1>8 DEF Start, Talk, CleanupFree, CleanupErase, frame, netVars, mainVars
  <2>2. Holding' = Holding
    BY <1>8 DEF Start, Talk, From, CleanupFree, CleanupErase, Holding, At, Goto, Base, TypeOK
  <2> QED
    BY <2>1, <2>2 DEF Base
<1>9. ASSUME NEW w \in Workers, CleanupClose(w) PROVE FdOK'
  <2>1. /\ jobQueue' = jobQueue /\ mainPc' = mainPc /\ mainFd' = mainFd
        /\ clientSocket' = clientSocket /\ w \in Holding /\ clientSocket[w] \in Sockets
    BY <1>9 DEF CleanupClose, mainVars, At, Holding, Base, Places
  <2>2. /\ \A v \in Workers : v \in Holding' <=> v \in Holding /\ v # w
    BY <1>9 DEF CleanupClose, Holding, At, Goto, Base, TypeOK
  <2>3. \A g \in Sockets : fdConn'[g] # None <=> fdConn[g] # None /\ g # clientSocket[w]
    BY <1>9, <2>1 DEF CleanupClose, Base, TypeOK
  <2>4. Holding \subseteq Workers /\ Holding' \subseteq Workers
    BY DEF Holding
  <2> QED
    BY <2>1, <2>2, <2>3, <2>4 DEF Base
<1>10. ASSUME NEW w \in Workers, Decrement(w) PROVE FdOK'
  <2>1. /\ jobQueue' = jobQueue /\ fdConn' = fdConn /\ mainPc' = mainPc /\ mainFd' = mainFd
    BY <1>10 DEF Decrement, netVars, mainVars
  <2>2. Holding' = Holding /\ \A v \in Holding : clientSocket'[v] = clientSocket[v]
    BY <1>10 DEF Decrement, Holding, At, Goto, Base, TypeOK
  <2> QED
    BY <2>1, <2>2 DEF Base
<1>11. CASE Die
  BY <1>11 DEF Base, Die, netVars, mainVars, workerVars, Holding
<1>12. Base => TypeOK /\ Places
  BY DEF Base
<1> QED
  BY <1>1, <1>2, <1>3, <1>4, <1>5, <1>6, <1>7, <1>8, <1>9, <1>10, <1>11, <1>12, StepsOfNext

LEMMA ConnKept ==
  ASSUME Base, Next PROVE ConnOnce'
<1> USE DEF ConnOnce
<1>0. None \notin Conns /\ Null \notin Conns /\ None # Null
  BY ServerAssumption
<1>1. ASSUME NEW c \in Conns, Connect(c) PROVE ConnOnce'
  <2>1. /\ peer[c] = "idle"
        /\ \A d \in Conns : peer'[d] = "idle" <=> peer[d] = "idle" /\ d # c
    BY <1>1 DEF Connect, Base, TypeOK
  <2>2. ~In(c, backlog)
    BY <2>1 DEF Base
  <2>3. (\A y : In(y, backlog') <=> In(y, backlog) \/ y = c) /\ Once(backlog')
    BY <1>1, <2>2, QueuedLast DEF Connect, Base, TypeOK
  <2>4. UNCHANGED <<fdConn, own, pc, clientSocket>>
    BY <1>1 DEF Connect, workerVars
  <2> QED
    BY <2>1, <2>3, <2>4 DEF Base
<1>2. ASSUME NEW c \in Conns, Leave(c) PROVE ConnOnce'
  <2>1. \A d \in Conns : peer'[d] = "idle" <=> peer[d] = "idle"
    BY <1>2 DEF Leave, Base, TypeOK
  <2>2. UNCHANGED <<backlog, fdConn, own, pc, clientSocket>>
    BY <1>2 DEF Leave, workerVars
  <2> QED
    BY <2>1, <2>2 DEF Base
<1>3. CASE Accept
  <2> DEFINE c == Head(backlog)
  <2>1. PICK f \in Sockets : fdConn[f] = None /\ fdConn' = [fdConn EXCEPT ![f] = c]
    BY <1>3 DEF Accept
  <2>2. /\ c \in Conns /\ Once(backlog') /\ In(c, backlog)
        /\ \A y : In(y, backlog') <=> In(y, backlog) /\ y # c
    BY <1>3, TakenFirst DEF Accept, Base, TypeOK
  <2> HIDE DEF c
  <2>3. \A g \in Sockets : fdConn'[g] = IF g = f THEN c ELSE fdConn[g]
    BY <2>1 DEF Base, TypeOK
  <2>4. UNCHANGED <<peer, own, pc, clientSocket>>
    BY <1>3 DEF Accept, workerVars
  <2>5. /\ peer[c] # "idle"
        /\ \A g \in Sockets : fdConn[g] # c
        /\ \A w \in Workers : own[w] # c
    BY <2>2 DEF Base
  <2>6. \A w \in Workers : own[w] \in Conns /\ pc[w] # "decrement" =>
          clientSocket[w] \in Sockets /\ clientSocket[w] # f
    BY <1>0, <2>1 DEF Base, Places
  <2>7. \A w \in Workers : own[w] \in Conns =>
         IF pc[w] = "decrement" THEN \A g \in Sockets : fdConn'[g] # own[w]
                                ELSE fdConn'[clientSocket[w]] = own[w]
    BY <2>3, <2>5, <2>6 DEF Base
  <2>8. \A g, h \in Sockets : fdConn'[g] \in Conns /\ fdConn'[g] = fdConn'[h] => g = h
    BY <2>3, <2>5 DEF Base
  <2> QED
    BY <2>2, <2>3, <2>4, <2>5, <2>7, <2>8 DEF Base
<1>4. CASE HandshakeDone \/ Admit \/ Store \/ Enqueue
  BY <1>4 DEF Base, HandshakeDone, Admit, Store, Enqueue, netVars, workerVars
<1>5. CASE NotLetIn
  <2>1. mainFd \in Sockets /\ \A w \in Holding : clientSocket[w] # mainFd
    BY <1>5 DEF NotLetIn, Base, Places, FdOK
  <2>2. UNCHANGED <<peer, backlog, own, pc, clientSocket>>
    BY <1>5 DEF NotLetIn, TurnAway, workerVars
  <2>3. \A g \in Sockets : fdConn'[g] = IF g = mainFd THEN None ELSE fdConn[g]
    BY <1>5 DEF NotLetIn, TurnAway, Base, TypeOK
  <2>4. \A w \in Workers : own[w] \in Conns /\ pc[w] # "decrement" =>
          clientSocket[w] \in Sockets /\ clientSocket[w] # mainFd
    BY <1>0, <2>1 DEF Base, Places, Holding
  <2> QED
    BY <1>0, <2>2, <2>3, <2>4 DEF Base
<1>6. ASSUME NEW w \in Workers, TakeJob(w) PROVE ConnOnce'
  <2>1. UNCHANGED <<peer, backlog, own, fdConn>>
    BY <1>6 DEF TakeJob, netVars
  <2>2. own[w] = None
    BY <1>6 DEF TakeJob, At, Base, Places
  <2>3. \A v \in Workers : v # w => pc'[v] = pc[v] /\ clientSocket'[v] = clientSocket[v]
    BY <1>6 DEF TakeJob, Goto, Base, TypeOK
  <2> QED
    BY <1>0, <2>1, <2>2, <2>3 DEF Base
<1>7. ASSUME NEW w \in Workers, Start(w) PROVE ConnOnce'
  <2> DEFINE c == fdConn[clientSocket[w]]
  <2>1. UNCHANGED <<peer, backlog, fdConn, clientSocket>>
    BY <1>7 DEF Start, netVars
  <2>a. /\ clientSocket[w] \in Sockets /\ c \in Conns /\ pc[w] = "start" /\ w \in Holding
        /\ own' = [own EXCEPT ![w] = c] /\ pc' = [pc EXCEPT ![w] = "loop"]
    BY <1>7, StartFinds DEF Start, At, Goto, Holding
  <2>2. /\ clientSocket[w] \in Sockets /\ c \in Conns /\ pc[w] = "start" /\ w \in Holding
        /\ \A v \in Workers : own'[v] = IF v = w THEN c ELSE own[v]
        /\ \A v \in Workers : pc'[v] = IF v = w THEN "loop" ELSE pc[v]
    BY <2>a DEF Base, TypeOK
  <2>3. peer[c] # "idle" /\ ~In(c, backlog)
    BY <2>2 DEF Base
  <2>4. \A v \in Workers : v # w => own[v] # c
    <3>1. SUFFICES ASSUME NEW v \in Workers, v # w, own[v] = c PROVE FALSE
      OBVIOUS
    <3>2. pc[v] # "decrement" /\ fdConn[clientSocket[v]] = c
      BY <2>2, <3>1 DEF Base
    <3>3. v \in Holding /\ clientSocket[v] \in Sockets
      BY <1>0, <2>2, <3>1, <3>2 DEF Base, Places, Holding
    <3>4. clientSocket[v] = clientSocket[w]
      BY <2>2, <3>2, <3>3 DEF Base
    <3> QED
      BY <2>2, <3>1, <3>3, <3>4 DEF Base, FdOK
  <2> HIDE DEF c
  <2>5. c = fdConn[clientSocket[w]]
    BY DEF c
  <2> QED
    BY <1>0, <2>1, <2>2, <2>3, <2>4, <2>5 DEF Base
<1>8. ASSUME NEW w \in Workers, Talk(w) \/ CleanupFree(w) \/ CleanupErase(w) PROVE ConnOnce'
  <2>1. UNCHANGED <<peer, backlog, fdConn, own, clientSocket>>
    BY <1>8 DEF Talk, CleanupFree, CleanupErase, frame, netVars
  <2>2. \A v \in Workers : pc'[v] = "decrement" <=> pc[v] = "decrement"
    BY <1>8 DEF Talk, From, CleanupFree, CleanupErase, At, Goto, Base, TypeOK
  <2> QED
    BY <2>1, <2>2 DEF Base
<1>9. ASSUME NEW w \in Workers, CleanupClose(w) PROVE ConnOnce'
  <2> DEFINE f == clientSocket[w]
  <2>1. UNCHANGED <<peer, backlog, own, clientSocket>>
    BY <1>9 DEF CleanupClose
  <2>2. /\ f \in Sockets /\ own[w] \in Conns /\ pc[w] = "close" /\ fdConn[f] = own[w]
        /\ w \in Holding
    BY <1>9 DEF CleanupClose, At, Holding, Base, Places
  <2>3. /\ \A g \in Sockets : fdConn'[g] = IF g = f THEN None ELSE fdConn[g]
        /\ \A v \in Workers : pc'[v] = IF v = w THEN "decrement" ELSE pc[v]
    BY <1>9 DEF CleanupClose, Goto, Base, TypeOK
  <2>4. \A v \in Workers : v # w /\ own[v] \in Conns /\ pc[v] # "decrement" =>
          clientSocket[v] \in Sockets /\ clientSocket[v] # f
    BY <1>0, <2>2 DEF Base, Places, Holding, FdOK
  <2> HIDE DEF f
  <2>5. \A g \in Sockets : fdConn'[g] # own[w]
    BY <1>0, <2>2, <2>3 DEF Base
  <2>6. \A v \in Workers : own[v] \in Conns =>
         IF pc'[v] = "decrement" THEN \A g \in Sockets : fdConn'[g] # own[v]
                                 ELSE fdConn'[clientSocket[v]] = own[v]
    BY <1>0, <2>3, <2>4, <2>5 DEF Base
  <2> QED
    BY <1>0, <2>1, <2>3, <2>6 DEF Base
<1>10. ASSUME NEW w \in Workers, Decrement(w) PROVE ConnOnce'
  <2>1. UNCHANGED <<peer, backlog, fdConn>>
    BY <1>10 DEF Decrement, netVars
  <2>2. \A v \in Workers : /\ own'[v] = IF v = w THEN None ELSE own[v]
                           /\ v # w => pc'[v] = pc[v] /\ clientSocket'[v] = clientSocket[v]
    BY <1>10 DEF Decrement, Goto, Base, TypeOK
  <2> QED
    BY <1>0, <2>1, <2>2 DEF Base
<1>11. CASE Die
  BY <1>11 DEF Base, Die, netVars, workerVars
<1>12. Base => TypeOK /\ Places
  BY DEF Base
<1> QED
  BY <1>1, <1>2, <1>3, <1>4, <1>5, <1>6, <1>7, <1>8, <1>9, <1>10, <1>11, <1>12, StepsOfNext

LEMMA SslKept ==
  ASSUME Base, Next PROVE SslOK'
<1> USE DEF SslOK
<1>0. None \notin Conns /\ Null \notin Conns /\ None # Null
  BY ServerAssumption
<1>1. ASSUME NEW c \in Conns, Connect(c) \/ Leave(c) PROVE SslOK'
  BY <1>1 DEF Base, Connect, Leave, workerVars, Ending
<1>2. CASE Accept
  <2> DEFINE c == Head(backlog)
  <2>1. PICK f \in Sockets : fdConn' = [fdConn EXCEPT ![f] = c] /\ fdConn[f] = None
    BY <1>2 DEF Accept
  <2>2. UNCHANGED <<own, pc, clientSocket>> /\ ssl' = [ssl EXCEPT ![c] = "live"]
    BY <1>2 DEF Accept, workerVars
  <2>3. c \in Conns /\ In(c, backlog)
    BY <1>2, TakenFirst DEF Accept, Base, TypeOK
  <2> HIDE DEF c
  <2>4. /\ \A g \in Sockets : fdConn'[g] = IF g = f THEN c ELSE fdConn[g]
        /\ \A d \in Conns : ssl'[d] = IF d = c THEN "live" ELSE ssl[d]
    BY <2>1, <2>2 DEF Base, TypeOK
  <2>5. \A w \in Workers : Ending(w) => own[w] \in Conns /\ own[w] # c
    BY <2>3 DEF Base, Places, ConnOnce, Ending
  <2> QED
    BY <1>0, <2>2, <2>3, <2>4, <2>5 DEF Base, Ending
<1>3. CASE HandshakeDone \/ Admit \/ Store \/ Enqueue
  BY <1>3 DEF Base, HandshakeDone, Admit, Store, Enqueue, netVars, workerVars, Ending
<1>4. CASE NotLetIn
  <2>1. /\ mainFd \in Sockets /\ fdConn[mainFd] \in Conns
        /\ \A w \in Holding : clientSocket[w] # mainFd
    BY <1>4 DEF NotLetIn, Base, Places, FdOK, TypeOK
  <2>2. /\ \A g \in Sockets : fdConn'[g] = IF g = mainFd THEN None ELSE fdConn[g]
        /\ \A d \in Conns : ssl'[d] = IF d = fdConn[mainFd] THEN "freed" ELSE ssl[d]
    BY <1>4 DEF NotLetIn, TurnAway, Base, TypeOK
  <2>3. UNCHANGED <<own, pc, clientSocket>>
    BY <1>4 DEF NotLetIn, TurnAway, workerVars
  <2>4. \A g \in Sockets : g # mainFd /\ fdConn[g] \in Conns => fdConn[g] # fdConn[mainFd]
    BY <2>1 DEF Base, ConnOnce
  <2>5. \A w \in Workers : Ending(w) => own[w] \in Conns
    BY DEF Base, Places, Ending
  <2> QED
    BY <1>0, <2>1, <2>2, <2>3, <2>4, <2>5 DEF Base, Ending
<1>5. ASSUME NEW w \in Workers, TakeJob(w) PROVE SslOK'
  <2>1. UNCHANGED <<own, fdConn, ssl>>
    BY <1>5 DEF TakeJob, netVars
  <2>2. /\ \A v \in Workers : v # w => pc'[v] = pc[v] /\ clientSocket'[v] = clientSocket[v]
        /\ pc[w] = "idle" /\ pc'[w] = "start"
    BY <1>5 DEF TakeJob, At, Goto, Base, TypeOK
  <2> QED
    BY <2>1, <2>2 DEF Base, Ending
<1>6. ASSUME NEW w \in Workers, Start(w) PROVE SslOK'
  <2>1. UNCHANGED <<clientSocket, fdConn, ssl>>
    BY <1>6 DEF Start, netVars
  <2>2. /\ \A v \in Workers : v # w => pc'[v] = pc[v] /\ own'[v] = own[v]
        /\ pc[w] = "start" /\ pc'[w] = "loop"
    BY <1>6 DEF Start, At, Goto, Base, TypeOK
  <2> QED
    BY <2>1, <2>2 DEF Base, Ending
<1>7. ASSUME NEW w \in Workers, Talk(w) \/ CleanupErase(w) PROVE SslOK'
  <2>1. UNCHANGED <<clientSocket, fdConn, ssl, own>>
    BY <1>7 DEF Talk, CleanupErase, frame, netVars
  <2>2. \A v \in Workers : Ending(v)' <=> Ending(v)
    BY <1>7 DEF Talk, From, CleanupErase, At, Goto, Base, TypeOK, Ending
  <2> QED
    BY <2>1, <2>2 DEF Base
<1>8. ASSUME NEW w \in Workers, CleanupFree(w) PROVE SslOK'
  <2>1. UNCHANGED <<clientSocket, fdConn, own>> /\ pc[w] = "free"
    BY <1>8 DEF CleanupFree, At
  <2>2. own[w] \in Conns /\ own[w] # Null /\ fdConn[clientSocket[w]] = own[w]
    BY <1>0, <2>1 DEF Base, Places, ConnOnce
  <2>3. ssl' = [ssl EXCEPT ![own[w]] = "freed"] /\ pc' = [pc EXCEPT ![w] = "erase"]
    BY <1>8, <2>2 DEF CleanupFree, Goto
  <2>4. /\ \A c \in Conns : ssl'[c] = IF c = own[w] THEN "freed" ELSE ssl[c]
        /\ \A v \in Workers : Ending(v)' <=> Ending(v) \/ v = w
    BY <2>2, <2>3 DEF Base, TypeOK, Ending
  <2>5. \A v \in Workers : Ending(v) => own[v] \in Conns
    BY DEF Base, Places, Ending
  <2>6. clientSocket[w] \in Sockets
    BY <2>1 DEF Base, Places
  <2>7. \A f \in Sockets : fdConn[f] \in Conns =>
          ssl'[fdConn[f]] = "live" \/ \E v \in Workers : Ending(v)' /\ clientSocket[v] = f
    <3>1. SUFFICES ASSUME NEW f \in Sockets, fdConn[f] \in Conns, fdConn[f] # own[w]
                   PROVE  ssl'[fdConn[f]] = "live"
                            \/ \E v \in Workers : Ending(v)' /\ clientSocket[v] = f
      BY <2>2, <2>4, <2>6 DEF Base, ConnOnce
    <3> QED
      BY <2>4, <3>1 DEF Base
  <2> QED
    BY <2>1, <2>2, <2>4, <2>5, <2>7 DEF Base
<1>9. ASSUME NEW w \in Workers, CleanupClose(w) PROVE SslOK'
  <2>1. UNCHANGED <<clientSocket, ssl, own>> /\ pc[w] = "close"
    BY <1>9 DEF CleanupClose, At
  <2>2. /\ \A g \in Sockets : fdConn'[g] = IF g = clientSocket[w] THEN None ELSE fdConn[g]
        /\ \A v \in Workers : Ending(v)' <=> Ending(v) /\ v # w
    BY <1>9 DEF CleanupClose, At, Goto, Base, TypeOK, Ending
  <2> QED
    BY <1>0, <2>1, <2>2 DEF Base
<1>10. ASSUME NEW w \in Workers, Decrement(w) PROVE SslOK'
  <2>1. UNCHANGED <<fdConn, ssl>> /\ pc[w] = "decrement" /\ pc' = [pc EXCEPT ![w] = "idle"]
    BY <1>10 DEF Decrement, netVars, At, Goto
  <2>2. \A v \in Workers :
          /\ Ending(v)' <=> Ending(v)
          /\ Ending(v) => own'[v] = own[v] /\ clientSocket'[v] = clientSocket[v]
    BY <1>10, <2>1 DEF Decrement, Base, TypeOK, Ending
  <2> QED
    BY <2>1, <2>2 DEF Base
<1>11. CASE Die
  BY <1>11 DEF Base, Die, netVars, workerVars, Ending
<1>12. Base => TypeOK /\ Places
  BY DEF Base
<1> QED
  BY <1>1, <1>2, <1>3, <1>4, <1>5, <1>6, <1>7, <1>8, <1>9, <1>10, <1>11, <1>12, StepsOfNext

LEMMA MapKept ==
  ASSUME Base, Next PROVE MapOK'
<1> USE DEF MapOK
<1>0. None \notin Conns /\ Null \notin Conns /\ None # Null
  BY ServerAssumption
<1>1. ASSUME NEW c \in Conns, Connect(c) \/ Leave(c) PROVE MapOK'
  BY <1>1 DEF Base, Connect, Leave, workerVars, mainVars
<1>2. CASE Accept
  <2> DEFINE c == Head(backlog)
  <2>1. PICK f \in Sockets :
          fdConn' = [fdConn EXCEPT ![f] = c] /\ fdConn[f] = None /\ mainFd' = f
    BY <1>2 DEF Accept
  <2>2. /\ UNCHANGED <<sslMap, jobQueue, pc, clientSocket>> /\ mainPc' = "handshake"
        /\ mainFd' = f /\ ssl' = [ssl EXCEPT ![c] = "live"]
    BY <1>2, <2>1 DEF Accept, workerVars
  <2>3. c \in Conns
    BY <1>2, TakenFirst DEF Accept, Base, TypeOK
  <2> HIDE DEF c
  <2>4. /\ \A g \in Sockets : fdConn'[g] = IF g = f THEN c ELSE fdConn[g]
        /\ \A d \in Conns : ssl'[d] = IF d = c THEN "live" ELSE ssl[d]
    BY <2>1, <2>2, <2>3 DEF Base, TypeOK
  <2>5. ~In(f, jobQueue) /\ \A w \in Holding : clientSocket[w] # f
    BY <2>1 DEF Base, FdOK
  <2>6. \A w \in Workers : pc[w] = "start" => clientSocket[w] # f /\ clientSocket[w] \in Sockets
    BY <2>5 DEF Holding, Base, Places
  <2>7. sslMap[f] \notin Conns
    BY <1>0, <2>1, <2>5 DEF Base, Holding
  <2> QED
    BY <1>0, <2>1, <2>2, <2>4, <2>5, <2>6, <2>7 DEF Base
<1>3. CASE HandshakeDone \/ Admit
  BY <1>3 DEF Base, HandshakeDone, Admit, MainAt, netVars, workerVars
<1>4. CASE NotLetIn
  <2>1. /\ mainFd \in Sockets /\ fdConn[mainFd] \in Conns /\ ~In(mainFd, jobQueue)
        /\ \A w \in Holding : clientSocket[w] # mainFd
    BY <1>4 DEF NotLetIn, Base, Places, FdOK, TypeOK
  <2>2. /\ \A g \in Sockets : fdConn'[g] = IF g = mainFd THEN None ELSE fdConn[g]
        /\ \A d \in Conns : ssl'[d] = IF d = fdConn[mainFd] THEN "freed" ELSE ssl[d]
    BY <1>4 DEF NotLetIn, TurnAway, Base, TypeOK
  <2>3. UNCHANGED <<sslMap, jobQueue, pc, clientSocket>> /\ mainPc' = "accept"
    BY <1>4 DEF NotLetIn, TurnAway, workerVars
  <2>4. \A w \in Workers : pc[w] = "start" => clientSocket[w] # mainFd /\ clientSocket[w] \in Sockets
    BY <2>1 DEF Holding, Base, Places
  <2>5. sslMap[mainFd] \notin Conns
    BY <1>4 DEF NotLetIn, Base
  <2>6. \A g \in Sockets : g # mainFd /\ fdConn[g] \in Conns => fdConn[g] # fdConn[mainFd]
    BY <2>1 DEF Base, ConnOnce
  <2> QED
    BY <1>0, <2>1, <2>2, <2>3, <2>4, <2>5, <2>6 DEF Base
<1>5. CASE Store
  <2>1. /\ mainFd \in Sockets /\ fdConn[mainFd] \in Conns /\ ~In(mainFd, jobQueue)
        /\ \A w \in Holding : clientSocket[w] # mainFd
        /\ mainPc = "store" /\ mainPc' = "enqueue"
    BY <1>5 DEF Store, MainAt, Base, Places, FdOK, TypeOK
  <2>2. /\ UNCHANGED <<fdConn, ssl, jobQueue, pc, clientSocket, mainFd>>
        /\ \A g \in Sockets : sslMap'[g] = IF g = mainFd THEN fdConn[mainFd] ELSE sslMap[g]
    BY <1>5 DEF Store, netVars, workerVars, Base, TypeOK
  <2>3. \A w \in Workers : pc[w] = "start" => clientSocket[w] # mainFd /\ clientSocket[w] \in Sockets
    BY <2>1 DEF Holding, Base, Places
  <2>4. ssl[fdConn[mainFd]] = "live"
    BY <2>1 DEF Base, SslOK, Ending, Holding
  <2> QED
    BY <1>0, <2>1, <2>2, <2>3, <2>4 DEF Base
<1>6. CASE Enqueue
  <2>1. mainFd \in Sockets /\ mainPc = "enqueue" /\ mainPc' = "accept"
    BY <1>6 DEF Enqueue, MainAt, Base, Places
  <2>2. \A y : In(y, jobQueue') <=> In(y, jobQueue) \/ y = mainFd
    BY <1>6, <2>1, QueuedLast DEF Enqueue, Base, TypeOK
  <2>3. UNCHANGED <<fdConn, ssl, sslMap, pc, clientSocket>>
    BY <1>6 DEF Enqueue, netVars, workerVars
  <2> QED
    BY <2>1, <2>2, <2>3 DEF Base
<1>7. ASSUME NEW w \in Workers, TakeJob(w) PROVE MapOK'
  <2> DEFINE f == Head(jobQueue)
  <2>1. f \in Sockets /\ In(f, jobQueue) /\ \A y : In(y, jobQueue') => In(y, jobQueue)
    BY <1>7, TakenFirst DEF TakeJob, Base, TypeOK
  <2>2. /\ clientSocket' = [clientSocket EXCEPT ![w] = f] /\ pc' = [pc EXCEPT ![w] = "start"]
        /\ pc[w] = "idle" /\ UNCHANGED <<fdConn, ssl, sslMap, mainPc, mainFd>>
    BY <1>7 DEF TakeJob, At, Goto, netVars, mainVars
  <2> HIDE DEF f
  <2>3. \A v \in Workers :
          /\ clientSocket'[v] = IF v = w THEN f ELSE clientSocket[v]
          /\ pc'[v] = IF v = w THEN "start" ELSE pc[v]
    BY <2>2 DEF Base, TypeOK
  <2> QED
    BY <2>1, <2>2, <2>3 DEF Base
<1>8. ASSUME NEW w \in Workers, Start(w) PROVE MapOK'
  <2>1. UNCHANGED <<fdConn, ssl, sslMap, mainPc, mainFd, jobQueue, clientSocket>>
    BY <1>8, StartFinds DEF Start, netVars, mainVars
  <2>2. \A v \in Workers : pc'[v] = IF v = w THEN "loop" ELSE pc[v]
    BY <1>8 DEF Start, Goto, Base, TypeOK
  <2>3. pc[w] = "start"
    BY <1>8 DEF Start, At
  <2> QED
    BY <2>1, <2>2, <2>3 DEF Base
<1>9. ASSUME NEW w \in Workers, Talk(w) \/ CleanupErase(w) PROVE MapOK'
  <2>1. UNCHANGED <<fdConn, ssl, mainPc, mainFd, jobQueue, clientSocket>>
    BY <1>9 DEF Talk, CleanupErase, frame, netVars, mainVars
  <2>2. /\ w \in Holding /\ clientSocket[w] \in Sockets /\ pc[w] # "start"
        /\ \A v \in Workers : pc'[v] = "start" => pc[v] = "start"
        /\ \A v \in Workers : pc[v] = "erase" => pc'[v] = "erase" \/ v = w
    BY <1>9 DEF Talk, From, CleanupErase, At, Goto, Holding, Base, Places, TypeOK
  <2>3. \A g \in Sockets : \/ sslMap'[g] = sslMap[g]
                           \/ sslMap[g] = None /\ sslMap'[g] = Null
                           \/ g = clientSocket[w] /\ sslMap'[g] = None
    BY <1>9, <2>2 DEF Talk, CleanupErase, Base, TypeOK
  <2>4. \A g \in Sockets : g # clientSocket[w] /\ fdConn[g] # None /\ sslMap[g] = fdConn[g] =>
          sslMap'[g] = fdConn[g]
    BY <2>3
  <2>5. \A g \in Sockets : In(g, jobQueue) => fdConn[g] # None /\ g # clientSocket[w]
    BY <2>2 DEF Base, FdOK
  <2>6. \A v \in Workers : pc[v] = "start" =>
          /\ clientSocket[v] \in Sockets /\ clientSocket[v] # clientSocket[w]
          /\ fdConn[clientSocket[v]] # None
    BY <2>2 DEF Base, FdOK, Places, Holding
  <2>7. mainPc # "accept" => /\ mainFd \in Sockets /\ mainFd # clientSocket[w]
                             /\ fdConn[mainFd] # None
    BY <2>2 DEF Base, FdOK, Places
  <2>8. \A g \in Sockets, c \in Conns :
          sslMap'[g] = c => sslMap[g] = c /\ (pc[w] # "erase" \/ g # clientSocket[w])
    BY <1>0, <1>9, <2>2, <2>3 DEF Talk, From, CleanupErase, Base, TypeOK
  <2>9. \A g \in Sockets, c \in Conns :
          sslMap'[g] = c => \/ ssl[c] = "live" /\ fdConn[g] = c
                            \/ \E v \in Workers : pc'[v] = "erase" /\ clientSocket[v] = g
    BY <2>2, <2>8 DEF Base
  <2> QED
    BY <1>0, <2>1, <2>2, <2>4, <2>5, <2>6, <2>7, <2>8, <2>9 DEF Base
<1>10. ASSUME NEW w \in Workers, CleanupFree(w) PROVE MapOK'
  <2>1. /\ UNCHANGED <<clientSocket, fdConn, own, sslMap, jobQueue, mainPc, mainFd>>
        /\ pc[w] = "free"
    BY <1>10 DEF CleanupFree, At, mainVars
  <2>2. own[w] \in Conns /\ own[w] # Null /\ fdConn[clientSocket[w]] = own[w]
        /\ clientSocket[w] \in Sockets
    BY <1>0, <2>1 DEF Base, Places, ConnOnce
  <2>3. ssl' = [ssl EXCEPT ![own[w]] = "freed"] /\ pc' = [pc EXCEPT ![w] = "erase"]
    BY <1>10, <2>2 DEF CleanupFree, Goto
  <2>4. /\ \A c \in Conns : ssl'[c] = IF c = own[w] THEN "freed" ELSE ssl[c]
        /\ \A v \in Workers : pc'[v] = IF v = w THEN "erase" ELSE pc[v]
    BY <2>2, <2>3 DEF Base, TypeOK
  <2>5. \A g \in Sockets, c \in Conns :
          sslMap[g] = c => \/ ssl'[c] = "live" /\ fdConn[g] = c
                           \/ \E v \in Workers : pc'[v] = "erase" /\ clientSocket[v] = g
    <3>1. SUFFICES ASSUME NEW g \in Sockets, NEW c \in Conns, sslMap[g] = c,
                          ssl[c] = "live", fdConn[g] = c, c = own[w]
                   PROVE  g = clientSocket[w]
      BY <2>1, <2>4 DEF Base
    <3> QED
      BY <2>2, <3>1 DEF Base, ConnOnce
  <2> QED
    BY <2>1, <2>4, <2>5 DEF Base
<1>11. ASSUME NEW w \in Workers, CleanupClose(w) PROVE MapOK'
  <2> DEFINE f == clientSocket[w]
  <2>1. /\ UNCHANGED <<clientSocket, ssl, own, sslMap, jobQueue, mainPc, mainFd>>
        /\ pc[w] = "close" /\ f \in Sockets /\ w \in Holding /\ own[w] \in Conns
        /\ fdConn[f] = own[w] /\ ssl[own[w]] = "freed"
    BY <1>11 DEF CleanupClose, At, mainVars, Holding, Base, Places, ConnOnce, SslOK, Ending
  <2>2. /\ \A g \in Sockets : fdConn'[g] = IF g = f THEN None ELSE fdConn[g]
        /\ \A v \in Workers : pc'[v] = IF v = w THEN "decrement" ELSE pc[v]
    BY <1>11, <2>1 DEF CleanupClose, Goto, Base, TypeOK
  <2>3. \A v \in Workers : v # w /\ v \in Holding => clientSocket[v] # f
    BY <2>1 DEF Base, FdOK
  <2>4. ~In(f, jobQueue) /\ (mainPc # "accept" => mainFd \in Sockets /\ mainFd # f)
    BY <2>1 DEF Base, FdOK, Places
  <2>5. \A v \in Workers : pc[v] = "start" => clientSocket[v] \in Sockets /\ clientSocket[v] # f
    BY <2>1, <2>3 DEF Base, Places, Holding
  <2> HIDE DEF f
  <2>6. \A g \in Sockets, c \in Conns :
          sslMap[g] = c => \/ ssl[c] = "live" /\ fdConn'[g] = c
                           \/ \E v \in Workers : pc'[v] = "erase" /\ clientSocket[v] = g
    BY <2>1, <2>2 DEF Base
  <2> QED
    BY <2>1, <2>2, <2>4, <2>5, <2>6 DEF Base
<1>12. ASSUME NEW w \in Workers, Decrement(w) PROVE MapOK'
  <2>1. /\ UNCHANGED <<fdConn, ssl, sslMap, jobQueue, mainPc, mainFd>>
        /\ pc[w] = "decrement"
    BY <1>12 DEF Decrement, netVars, mainVars, At
  <2>2. /\ \A v \in Workers : v # w => pc'[v] = pc[v] /\ clientSocket'[v] = clientSocket[v]
        /\ pc'[w] = "idle"
    BY <1>12 DEF Decrement, Goto, Base, TypeOK
  <2> QED
    BY <2>1, <2>2 DEF Base
<1>13. CASE Die
  BY <1>13 DEF Base, Die, netVars, mainVars, workerVars
<1>14. Base => TypeOK /\ Places
  BY DEF Base
<1> QED
  BY <1>1, <1>2, <1>3, <1>4, <1>5, <1>6, <1>7, <1>8, <1>9, <1>10, <1>11, <1>12, <1>13, <1>14,
     StepsOfNext

-----------------------------------------------------------------------------
(* Sessions: only Talk touches them, and no worker leaves the places where *)
(* it talks without logging its descriptor out.                            *)
LEMMA SessionsKept ==
  ASSUME Base, SessionIsServed, Next PROVE SessionIsServed'
<1> DEFINE Kept == \A f \in Sockets : IsLoggedIn(f) =>
                     \E w \in Workers : pc[w] \in From /\ clientSocket[w] = f
<1>1. SessionIsServed => Kept
  BY DEF SessionIsServed, Serving, From, Base, TypeOK, WorkerPCs
<1>2. Kept' => SessionIsServed'
  BY DEF SessionIsServed, Serving, From
<1>3. ASSUME UNCHANGED <<umVars, pc, clientSocket>> PROVE Kept'
  BY <1>1, <1>3 DEF IsLoggedIn, umVars
<1>4. ASSUME NEW w \in Workers,
             \/ TakeJob(w) \/ Start(w) \/ CleanupFree(w) \/ CleanupErase(w)
             \/ CleanupClose(w) \/ Decrement(w)
      PROVE  Kept'
  <2>1. /\ clientStatus' = clientStatus /\ pc[w] \notin From
        /\ \A v \in Workers : v # w => pc'[v] = pc[v] /\ clientSocket'[v] = clientSocket[v]
    BY <1>4 DEF TakeJob, Start, CleanupFree, CleanupErase, CleanupClose, Decrement, umVars, frame,
       At, Goto, From, Base, TypeOK
  <2> QED
    BY <1>1, <2>1 DEF IsLoggedIn
<1>5. ASSUME NEW w \in Workers, Talk(w) PROVE Kept'
  <2>1. clientSocket' = clientSocket /\ clientSocket[w] \in Sockets
    BY <1>5 DEF Talk, From, frame, Base, Places
  <2>2. /\ \A v \in Workers : v # w => pc'[v] = pc[v]
        /\ pc'[w] \in From \/ clientStatus'[clientSocket[w]] = NoUser
    BY <1>5 DEF Talk, Base, TypeOK
  <2>3. \A f \in Sockets : f # clientSocket[w] => clientStatus'[f] = clientStatus[f]
    BY <1>5 DEF Talk
  <2> QED
    BY <1>1, <2>1, <2>2, <2>3 DEF IsLoggedIn
<1>6. ASSUME \/ \E c \in Conns : Connect(c) \/ Leave(c)
             \/ Accept \/ HandshakeDone \/ NotLetIn \/ Admit \/ Store \/ Enqueue \/ Die
      PROVE  UNCHANGED <<umVars, pc, clientSocket>>
  BY <1>6 DEF Connect, Leave, Accept, HandshakeDone, NotLetIn, TurnAway, Admit, Store, Enqueue,
     Die, workerVars
<1>7. Base => TypeOK /\ Places
  BY DEF Base
<1> QED
  BY <1>1, <1>2, <1>3, <1>4, <1>5, <1>6, <1>7, StepsOfNext

-----------------------------------------------------------------------------
(* The counter against the places of the connections.                      *)

LEMMA BusyFinite ==
  ASSUME NEW w \in Workers
  PROVE  /\ IsFiniteSet(Busy) /\ Cardinality(Busy) \in Nat
         /\ w \notin Busy => Cardinality(Busy \cup {w}) = Cardinality(Busy) + 1
         /\ w \in Busy => /\ Cardinality(Busy) > 0
                          /\ Cardinality(Busy \ {w}) = Cardinality(Busy) - 1
<1>1. IsFiniteSet(Busy)
  BY ServerAssumption, FS_Subset DEF Busy
<1>2. Cardinality(Busy) \in Nat
  BY <1>1, FS_CardinalityType
<1>3. w \in Busy => Cardinality(Busy \ {w}) = Cardinality(Busy) - 1
  BY <1>1, FS_RemoveElement
<1>4. Cardinality(Busy \ {w}) \in Nat
  BY <1>1, FS_Subset, FS_CardinalityType
<1>5. w \notin Busy => Cardinality(Busy \cup {w}) = Cardinality(Busy) + 1
  BY <1>1, FS_AddElement
<1> QED
  BY <1>1, <1>2, <1>3, <1>4, <1>5

LEMMA CountKept ==
  ASSUME Base, ClientCountExact, Next PROVE ClientCountExact'
<1> USE DEF ClientCountExact
<1>1. MaxClients \in Nat /\ currentClients \in Nat /\ Len(jobQueue) \in Nat /\ Admitting \in Nat
  BY ServerAssumption, LenProperties DEF Base, TypeOK, Admitting
<1>0. Cardinality(Busy) \in Nat
  BY ServerAssumption, FS_Subset, FS_CardinalityType DEF Busy
<1>3. CASE \/ \E c \in Conns : Connect(c) \/ Leave(c)
           \/ Accept \/ HandshakeDone \/ NotLetIn \/ Store \/ Die
  <2>1. UNCHANGED <<pc, jobQueue, currentClients>>
    BY <1>3 DEF Connect, Leave, Accept, HandshakeDone, NotLetIn, TurnAway, Store, Die, workerVars
  <2>2. Admitting' = Admitting
    BY <1>3 DEF Connect, Leave, Accept, HandshakeDone, NotLetIn, TurnAway, Store, Die, mainVars,
       Admitting, MainAt
  <2>3. Busy' = Busy
    BY <2>1 DEF Busy
  <2> QED
    BY <2>1, <2>2, <2>3
<1>4. CASE Admit
  <2>1. UNCHANGED <<pc, jobQueue>> /\ currentClients' = currentClients + 1
        /\ currentClients < MaxClients /\ Admitting = 0 /\ Admitting' = 1
    BY <1>4 DEF Admit, MainAt, workerVars, Admitting
  <2>2. Busy' = Busy
    BY <2>1 DEF Busy
  <2> QED
    BY <1>0, <1>1, <2>1, <2>2
<1>5. CASE Enqueue
  <2>1. UNCHANGED <<pc, currentClients>> /\ Admitting = 1 /\ Admitting' = 0
    BY <1>5 DEF Enqueue, MainAt, workerVars, Admitting
  <2>2. Len(jobQueue') = Len(jobQueue) + 1
    BY <1>5, QueuedLast DEF Enqueue, MainAt, Base, Places, TypeOK
  <2>3. Busy' = Busy
    BY <2>1 DEF Busy
  <2> QED
    BY <1>1, <2>1, <2>2, <2>3
<1>6. ASSUME NEW w \in Workers, TakeJob(w) PROVE ClientCountExact'
  <2>1. UNCHANGED <<currentClients, mainPc>>
    BY <1>6 DEF TakeJob, mainVars
  <2>2. Len(jobQueue') = Len(jobQueue) - 1
    BY <1>6, TakenFirst DEF TakeJob, Base, TypeOK
  <2>3. w \notin Busy /\ Busy' = Busy \cup {w}
    BY <1>6 DEF TakeJob, At, Goto, Busy, Base, TypeOK
  <2>4. Cardinality(Busy') = Cardinality(Busy) + 1 /\ Cardinality(Busy) \in Nat
    BY <2>3, BusyFinite
  <2> QED
    BY <1>1, <2>1, <2>2, <2>4 DEF Admitting
<1>7. ASSUME NEW w \in Workers,
             \/ Start(w) \/ Talk(w) \/ CleanupFree(w) \/ CleanupErase(w) \/ CleanupClose(w)
      PROVE  ClientCountExact'
  <2>1. UNCHANGED <<currentClients, mainPc, jobQueue>>
    BY <1>7 DEF Start, Talk, CleanupFree, CleanupErase, CleanupClose, frame, mainVars
  <2>2. Busy' = Busy
    BY <1>7 DEF Start, Talk, From, CleanupFree, CleanupErase, CleanupClose, At, Goto, Busy, Base,
       TypeOK
  <2> QED
    BY <2>1, <2>2 DEF Admitting
<1>8. ASSUME NEW w \in Workers, Decrement(w) PROVE ClientCountExact'
  <2>1. UNCHANGED <<mainPc, jobQueue>>
    BY <1>8 DEF Decrement, mainVars
  <2>2. w \in Busy /\ Busy' = Busy \ {w}
    BY <1>8 DEF Decrement, At, Goto, Busy, Base, TypeOK
  <2>3. /\ Cardinality(Busy') = Cardinality(Busy) - 1
        /\ Cardinality(Busy) \in Nat /\ Cardinality(Busy) > 0
    BY <2>2, BusyFinite
  <2>4. currentClients' = currentClients - 1
    BY <1>1, <1>8, <2>3 DEF Decrement
  <2> QED
    BY <1>1, <2>1, <2>3, <2>4 DEF Admitting
<1>9. Base => TypeOK /\ Places
  BY DEF Base
<1> QED
  BY <1>3, <1>4, <1>5, <1>6, <1>7, <1>8, <1>9, StepsOfNext

-----------------------------------------------------------------------------
(* The gate: how each step moves the phases of the connections.            *)

Open(c) == \E f \in Sockets : fdConn[f] = c

Waits(c) == In(c, backlog) \/ (mainPc \in {"handshake", "admit"} /\ fdConn[mainFd] = c)

(* One connection moves, the others stay where they are.                   *)
Shift(c, from, to) ==
  /\ PhaseOf(c) = from /\ PhaseOf(c)' = to
  /\ \A d \in Conns : d # c => PhaseOf(d)' = PhaseOf(d)

Stay == \A d \in Conns : PhaseOf(d)' = PhaseOf(d)

LEMMA PhaseIs ==
  /\ \A c \in Conns : Undecided(c) <=> Waits(c)
  /\ \A c \in Conns : PhaseOf(c) =
       IF AtWorker(c) THEN "served"
       ELSE IF peer[c] = "idle" THEN "idle"
       ELSE IF Secured(c) THEN "secured"
       ELSE IF Waits(c) THEN "waiting"
       ELSE IF Open(c) THEN "admitted"
       ELSE "done"
<1>1. \A c \in Conns : Undecided(c) <=> Waits(c)
  BY DEF Undecided, Waits, In
<1> QED
  BY <1>1 DEF PhaseOf, Open

LEMMA PhaseNext ==
  \A c \in Conns : PhaseOf(c)' =
    IF AtWorker(c)' THEN "served"
    ELSE IF peer'[c] = "idle" THEN "idle"
    ELSE IF Secured(c)' THEN "secured"
    ELSE IF Waits(c)' THEN "waiting"
    ELSE IF Open(c)' THEN "admitted"
    ELSE "done"
<1>1. \A c \in Conns : Undecided(c)' <=> Waits(c)'
  BY DEF Undecided, Waits, In
<1> QED
  BY <1>1 DEF PhaseOf, Open

(* What holds of the connection the main thread is busy with.              *)
LEMMA MainHolds ==
  ASSUME Base, mainPc # "accept"
  PROVE  /\ mainFd \in Sockets /\ fdConn[mainFd] \in Conns
         /\ peer[fdConn[mainFd]] # "idle" /\ ~In(fdConn[mainFd], backlog)
         /\ ~AtWorker(fdConn[mainFd])
         /\ \A f \in Sockets : fdConn[f] = fdConn[mainFd] => f = mainFd
<1> DEFINE c == fdConn[mainFd]
<1>1. mainFd \in Sockets /\ c # None
  BY DEF Base, Places, FdOK
<1>2. c \in Conns
  BY <1>1 DEF Base, TypeOK
<1>3. /\ peer[c] # "idle" /\ ~In(c, backlog)
      /\ \A f \in Sockets : fdConn[f] = c => f = mainFd
  BY <1>1, <1>2 DEF Base, ConnOnce
<1>4. ASSUME NEW w \in Workers, own[w] = c PROVE FALSE
  <2>1. pc[w] # "decrement" /\ fdConn[clientSocket[w]] = c
    BY <1>1, <1>2, <1>4 DEF Base, ConnOnce
  <2>2. w \in Holding /\ clientSocket[w] \in Sockets
    BY <1>2, <1>4, <2>1, ServerAssumption DEF Base, Places, Holding
  <2> QED
    BY <1>3, <2>1, <2>2 DEF Base, FdOK
<1> QED
  BY <1>1, <1>2, <1>3, <1>4 DEF AtWorker

LEMMA ServedOnce ==
  ASSUME Base, NEW w \in Workers, own[w] \in Conns
  PROVE  /\ PhaseOf(own[w]) = "served" /\ peer[own[w]] # "idle"
         /\ ~In(own[w], backlog)
         /\ mainPc # "accept" => fdConn[mainFd] # own[w]
<1>1. PhaseOf(own[w]) = "served"
  BY DEF PhaseOf, AtWorker
<1>2. peer[own[w]] # "idle" /\ ~In(own[w], backlog)
  BY DEF Base, ConnOnce
<1>3. mainPc # "accept" => fdConn[mainFd] # own[w]
  BY MainHolds DEF AtWorker
<1> QED
  BY <1>1, <1>2, <1>3

LEMMA ConnectMoves ==
  ASSUME Base, NEW c \in Conns, Connect(c)
  PROVE  Shift(c, "idle", "waiting")
<1>1. /\ peer[c] = "idle" /\ ~AtWorker(c)
      /\ \A d \in Conns : peer'[d] = "idle" <=> peer[d] = "idle" /\ d # c
  BY DEF Connect, Base, TypeOK, ConnOnce, AtWorker
<1>2. \A d : In(d, backlog') <=> In(d, backlog) \/ d = c
  BY QueuedLast DEF Connect, Base, TypeOK
<1>3. UNCHANGED <<own, fdConn, mainPc, mainFd>>
  BY DEF Connect, mainVars, workerVars
<1>4. mainPc # "accept" => fdConn[mainFd] # c
  BY <1>1, MainHolds
<1>5. /\ \A d \in Conns : AtWorker(d)' <=> AtWorker(d)
      /\ \A d \in Conns : Secured(d)' <=> Secured(d)
      /\ \A d \in Conns : Waits(d)' <=> Waits(d) \/ d = c
      /\ \A d \in Conns : Open(d)' <=> Open(d)
      /\ ~Secured(c)
  BY <1>2, <1>3, <1>4 DEF AtWorker, Secured, Waits, Open
<1> QED
  BY <1>1, <1>5, PhaseIs, PhaseNext DEF Shift

(* Steps the gate does not see.                                            *)
LEMMA HiddenSteps ==
  ASSUME Base,
         \/ \E c \in Conns : Leave(c)
         \/ Accept \/ Store \/ Enqueue \/ Die
         \/ \E w \in Workers :
              TakeJob(w) \/ Talk(w) \/ CleanupFree(w) \/ CleanupErase(w) \/ CleanupClose(w)
  PROVE  Stay
<1>1. CASE Accept
  <2> DEFINE c == Head(backlog)
  <2>1. PICK f \in Sockets : fdConn' = [fdConn EXCEPT ![f] = c] /\ fdConn[f] = None /\ mainFd' = f
    BY <1>1 DEF Accept
  <2>2. /\ c \in Conns /\ In(c, backlog)
        /\ \A y : In(y, backlog') <=> In(y, backlog) /\ y # c
    BY <1>1, TakenFirst DEF Accept, Base, TypeOK, ConnOnce
  <2>3. UNCHANGED <<own, peer>> /\ mainPc = "accept" /\ mainPc' = "handshake"
    BY <1>1 DEF Accept, MainAt, workerVars
  <2>4. peer[c] # "idle" /\ ~AtWorker(c)
    BY <2>2 DEF Base, ConnOnce, AtWorker
  <2> HIDE DEF c
  <2>5. \A g \in Sockets : fdConn'[g] = IF g = f THEN c ELSE fdConn[g]
    BY <2>1 DEF Base, TypeOK
  <2>6. /\ \A d \in Conns : AtWorker(d)' <=> AtWorker(d)
        /\ \A d \in Conns : ~Secured(d) /\ ~Secured(d)'
        /\ \A d \in Conns : Waits(d)' <=> Waits(d)
        /\ \A d \in Conns : d # c => (Open(d)' <=> Open(d))
        /\ Waits(c)
    BY <2>1, <2>2, <2>3, <2>5, ServerAssumption DEF AtWorker, Secured, Waits, Open
  <2> QED
    BY <2>3, <2>6, PhaseIs, PhaseNext DEF Stay
<1>2. CASE \/ \E c \in Conns : Leave(c)
           \/ Store \/ Enqueue \/ Die
           \/ \E w \in Workers : TakeJob(w) \/ Talk(w) \/ CleanupFree(w) \/ CleanupErase(w)
  <2>1. UNCHANGED <<own, backlog, fdConn>>
    BY <1>2 DEF Leave, Store, Enqueue, Die, TakeJob, Talk, CleanupFree, CleanupErase, frame,
       netVars, workerVars
  <2>2. /\ mainPc' = mainPc \/ (mainPc \notin {"handshake", "admit"} /\ mainPc' \notin {"handshake", "admit"})
        /\ mainPc' = mainPc => mainFd' = mainFd
    BY <1>2 DEF Leave, Store, Enqueue, Die, TakeJob, Talk, CleanupFree, CleanupErase, frame,
       mainVars, MainAt
  <2>3. \A d \in Conns : peer'[d] = "idle" <=> peer[d] = "idle"
    BY <1>2 DEF Leave, Store, Enqueue, Die, TakeJob, Talk, CleanupFree, CleanupErase, frame,
       netVars, Base, TypeOK
  <2>4. \A d \in Conns : /\ AtWorker(d)' <=> AtWorker(d)
                         /\ Secured(d)' <=> Secured(d)
                         /\ Waits(d)' <=> Waits(d)
                         /\ Open(d)' <=> Open(d)
    BY <2>1, <2>2 DEF AtWorker, Secured, Waits, Open
  <2> QED
    BY <2>3, <2>4, PhaseIs, PhaseNext DEF Stay
<1>3. ASSUME NEW w \in Workers, CleanupClose(w) PROVE Stay
  <2> DEFINE c == own[w]
             f == clientSocket[w]
  <2>1. /\ UNCHANGED <<own, backlog, peer, mainPc, mainFd>>
        /\ f \in Sockets /\ c \in Conns /\ fdConn[f] = c /\ w \in Holding
    BY <1>3 DEF CleanupClose, At, mainVars, Holding, Base, Places, ConnOnce
  <2>2. \A g \in Sockets : fdConn'[g] = IF g = f THEN None ELSE fdConn[g]
    BY <1>3 DEF CleanupClose, Base, TypeOK
  <2>3. mainPc # "accept" => mainFd \in Sockets /\ mainFd # f
    BY <2>1 DEF Base, FdOK, Places
  <2>4. AtWorker(c)
    BY DEF AtWorker
  <2> HIDE DEF c, f
  <2>5. /\ \A d \in Conns : AtWorker(d)' <=> AtWorker(d)
        /\ \A d \in Conns : Secured(d)' <=> Secured(d)
        /\ \A d \in Conns : Waits(d)' <=> Waits(d)
        /\ \A d \in Conns : d # c => (Open(d)' <=> Open(d))
    BY <2>1, <2>2, <2>3, ServerAssumption DEF AtWorker, Secured, Waits, Open
  <2> QED
    BY <2>1, <2>4, <2>5, PhaseIs, PhaseNext DEF Stay
<1> QED
  BY <1>1, <1>2, <1>3

LEMMA MainMoves ==
  ASSUME Base, mainPc # "accept", NEW c \in Conns, c = fdConn[mainFd]
  PROVE  /\ HandshakeDone  => Shift(c, "waiting", "secured")
         /\ HandshakeFails => Shift(c, "waiting", "done")
         /\ Reject         => Shift(c, "secured", "done")
         /\ Admit          => Shift(c, "secured", "admitted")
<1>1. /\ mainFd \in Sockets /\ c \in Conns
      /\ peer[c] # "idle" /\ ~In(c, backlog) /\ ~AtWorker(c)
      /\ \A f \in Sockets : fdConn[f] = c => f = mainFd
  BY MainHolds
<1>2. ASSUME HandshakeDone \/ Admit PROVE UNCHANGED <<own, backlog, peer, fdConn, mainFd>>
  BY <1>2 DEF HandshakeDone, Admit, netVars, workerVars
<1>3. ASSUME HandshakeFails \/ Reject
      PROVE  /\ UNCHANGED <<own, backlog, peer>> /\ mainPc' = "accept"
             /\ \A g \in Sockets : fdConn'[g] = IF g = mainFd THEN None ELSE fdConn[g]
  BY <1>3 DEF HandshakeFails, Reject, TurnAway, workerVars, Base, TypeOK
<1>4. c = fdConn[mainFd]
  OBVIOUS
<1>5. ASSUME HandshakeDone PROVE Shift(c, "waiting", "secured")
  <2>1. mainPc = "handshake" /\ mainPc' = "admit"
    BY <1>5 DEF HandshakeDone, MainAt
  <2>2. \A d \in Conns : /\ AtWorker(d)' <=> AtWorker(d)
                         /\ Secured(d)' <=> d = c
                         /\ ~Secured(d)
                         /\ Waits(d)' <=> Waits(d)
                         /\ Open(d)' <=> Open(d)
    BY <1>2, <1>4, <1>5, <2>1 DEF AtWorker, Secured, Waits, Open
  <2>3. Waits(c)
    BY <1>4, <2>1 DEF Waits
  <2> QED
    BY <1>1, <1>2, <1>5, <2>2, <2>3, PhaseIs, PhaseNext DEF Shift
<1>6. ASSUME Admit PROVE Shift(c, "secured", "admitted")
  <2>1. mainPc = "admit" /\ mainPc' = "store"
    BY <1>6 DEF Admit, MainAt
  <2>2. \A d \in Conns : /\ AtWorker(d)' <=> AtWorker(d)
                         /\ Secured(d) <=> d = c
                         /\ ~Secured(d)'
                         /\ Waits(d)' <=> Waits(d) /\ d # c
                         /\ Open(d)' <=> Open(d)
    BY <1>1, <1>2, <1>4, <1>6, <2>1 DEF AtWorker, Secured, Waits, Open
  <2>3. Open(c)
    BY <1>1, <1>4 DEF Open
  <2> QED
    BY <1>1, <1>2, <1>6, <2>2, <2>3, PhaseIs, PhaseNext DEF Shift
<1>7. ASSUME HandshakeFails \/ Reject
      PROVE  /\ PhaseOf(c)' = "done"
             /\ \A d \in Conns : d # c => PhaseOf(d)' = PhaseOf(d)
  <2>1. mainPc \in {"handshake", "admit"}
    BY <1>7 DEF HandshakeFails, Reject, MainAt
  <2>2. \A d \in Conns : /\ AtWorker(d)' <=> AtWorker(d)
                         /\ ~Secured(d)'
                         /\ Secured(d) => d = c
                         /\ Waits(d)' <=> Waits(d) /\ d # c
                         /\ d # c => (Open(d)' <=> Open(d))
    BY <1>1, <1>3, <1>4, <1>7, <2>1, ServerAssumption DEF AtWorker, Secured, Waits, Open
  <2>3. ~Open(c)'
    BY <1>1, <1>3, <1>4, <1>7, ServerAssumption DEF Open
  <2> QED
    BY <1>1, <1>3, <1>7, <2>2, <2>3, PhaseIs, PhaseNext
<1>8. /\ HandshakeFails => PhaseOf(c) = "waiting"
      /\ Reject => PhaseOf(c) = "secured"
  <2>1. HandshakeFails => Waits(c) /\ ~Secured(c)
    BY <1>4 DEF HandshakeFails, MainAt, Waits, Secured
  <2>2. Reject => Secured(c)
    BY <1>4 DEF Reject, MainAt, Secured
  <2> QED
    BY <1>1, <2>1, <2>2, PhaseIs
<1> QED
  BY <1>4, <1>5, <1>6, <1>7, <1>8 DEF Shift

LEMMA StartMoves ==
  ASSUME Base, NEW w \in Workers, Start(w)
  PROVE  \E c \in Conns : Shift(c, "admitted", "served")
<1> DEFINE f == clientSocket[w]
<1>0. PICK c \in Conns : c = fdConn[f]
  BY StartFinds
<1>1. /\ f \in Sockets /\ fdConn[f] = c /\ own' = [own EXCEPT ![w] = c]
      /\ pc[w] = "start" /\ w \in Holding /\ own[w] = None
      /\ UNCHANGED <<peer, backlog, fdConn, mainPc, mainFd>>
  BY <1>0, StartFinds DEF Start, At, Holding, netVars, mainVars, Base, Places
<1>2. peer[c] # "idle" /\ ~In(c, backlog)
  BY <1>1 DEF Base, ConnOnce
<1>3. mainPc # "accept" => c # fdConn[mainFd]
  BY <1>1, MainHolds DEF Base, FdOK
<1>4. ASSUME NEW v \in Workers, own[v] = c PROVE FALSE
  <2>1. v # w /\ pc[v] # "decrement" /\ fdConn[clientSocket[v]] = c
    BY <1>1, <1>4, ServerAssumption DEF Base, ConnOnce
  <2>2. v \in Holding /\ clientSocket[v] \in Sockets
    BY <1>1, <1>4, <2>1, ServerAssumption DEF Base, Places, Holding
  <2>3. clientSocket[v] = f
    BY <1>1, <2>1, <2>2 DEF Base, ConnOnce
  <2> QED
    BY <1>1, <2>1, <2>2, <2>3 DEF Base, FdOK
<1>5. Open(c)
  BY <1>1 DEF Open
<1>6. \A v \in Workers : own'[v] = IF v = w THEN c ELSE own[v]
  BY <1>1 DEF Base, TypeOK
<1>7. /\ ~AtWorker(c) /\ ~Secured(c) /\ ~Waits(c)
      /\ \A d \in Conns : AtWorker(d)' <=> AtWorker(d) \/ d = c
      /\ \A d \in Conns : Secured(d)' <=> Secured(d)
      /\ \A d \in Conns : Waits(d)' <=> Waits(d)
      /\ \A d \in Conns : Open(d)' <=> Open(d)
  BY <1>1, <1>2, <1>3, <1>4, <1>6, ServerAssumption DEF AtWorker, Secured, Waits, Open
<1>8. Shift(c, "admitted", "served")
  BY <1>1, <1>2, <1>5, <1>7, PhaseIs, PhaseNext DEF Shift
<1> QED
  BY <1>8

LEMMA DecrementMoves ==
  ASSUME Base, NEW w \in Workers, Decrement(w)
  PROVE  \E c \in Conns : Shift(c, "served", "done")
<1>0. PICK c \in Conns : c = own[w]
  BY DEF Decrement, At, Base, Places
<1>1. /\ c = own[w] /\ pc[w] = "decrement"
      /\ \A v \in Workers : own'[v] = IF v = w THEN None ELSE own[v]
      /\ UNCHANGED <<peer, backlog, fdConn, mainPc, mainFd>>
  BY <1>0 DEF Decrement, At, netVars, mainVars, Base, TypeOK
<1>2. /\ PhaseOf(c) = "served" /\ peer[c] # "idle" /\ ~In(c, backlog)
      /\ mainPc # "accept" => fdConn[mainFd] # c
  BY <1>1, ServedOnce
<1>3. /\ \A f \in Sockets : fdConn[f] # c
      /\ \A v \in Workers : own[v] = c => v = w
  BY <1>1 DEF Base, ConnOnce
<1>5. /\ ~AtWorker(c)' /\ ~Secured(c)' /\ ~Waits(c)' /\ ~Open(c)'
      /\ \A d \in Conns : d # c => (AtWorker(d)' <=> AtWorker(d))
      /\ \A d \in Conns : Secured(d)' <=> Secured(d)
      /\ \A d \in Conns : Waits(d)' <=> Waits(d)
      /\ \A d \in Conns : Open(d)' <=> Open(d)
  BY <1>1, <1>2, <1>3, ServerAssumption DEF AtWorker, Secured, Waits, Open
<1>6. Shift(c, "served", "done")
  BY <1>1, <1>2, <1>5, PhaseIs, PhaseNext DEF Shift
<1> QED
  BY <1>6

(* The gate is passed with room, refused without, and left with the        *)
(* counter lowered.                                                        *)
LEMMA GateMoves ==
  ASSUME Base, Next
  PROVE  \/ Stay /\ currentClients' = currentClients
         \/ \E c \in Conns :
              \/ /\ \/ Shift(c, "idle", "waiting") \/ Shift(c, "waiting", "secured")
                    \/ Shift(c, "waiting", "done") \/ Shift(c, "admitted", "served")
                 /\ currentClients' = currentClients
              \/ /\ Shift(c, "secured", "done")
                 /\ currentClients >= MaxClients /\ currentClients' = currentClients
              \/ /\ Shift(c, "secured", "admitted")
                 /\ currentClients < MaxClients /\ currentClients' = currentClients + 1
              \/ /\ Shift(c, "served", "done")
                 /\ currentClients' =
                      IF currentClients > 0 THEN currentClients - 1 ELSE currentClients
<1>1. CASE \/ \E c \in Conns : Leave(c)
           \/ Accept \/ Store \/ Enqueue \/ Die
           \/ \E w \in Workers :
                TakeJob(w) \/ Talk(w) \/ CleanupFree(w) \/ CleanupErase(w) \/ CleanupClose(w)
  <2>1. currentClients' = currentClients
    BY <1>1 DEF Leave, Accept, Store, Enqueue, Die, TakeJob, Talk, CleanupFree, CleanupErase,
       CleanupClose, frame
  <2> QED
    BY <1>1, <2>1, HiddenSteps
<1>2. ASSUME NEW c \in Conns, Connect(c)
      PROVE  Shift(c, "idle", "waiting") /\ currentClients' = currentClients
  BY <1>2, ConnectMoves DEF Connect
<1>3. ASSUME HandshakeDone \/ HandshakeFails \/ Reject \/ Admit
      PROVE  mainPc # "accept" /\ \E c \in Conns : c = fdConn[mainFd]
  <2>1. mainPc # "accept"
    BY <1>3 DEF HandshakeDone, HandshakeFails, Reject, Admit, MainAt
  <2> QED
    BY <2>1, MainHolds
<1>4. HandshakeDone =>
        \E c \in Conns : Shift(c, "waiting", "secured") /\ currentClients' = currentClients
  BY <1>3, MainMoves DEF HandshakeDone
<1>5. HandshakeFails =>
        \E c \in Conns : Shift(c, "waiting", "done") /\ currentClients' = currentClients
  BY <1>3, MainMoves DEF HandshakeFails
<1>6. Reject => \E c \in Conns : /\ Shift(c, "secured", "done")
                                 /\ currentClients >= MaxClients
                                 /\ currentClients' = currentClients
  BY <1>3, MainMoves DEF Reject
<1>7. Admit => \E c \in Conns : /\ Shift(c, "secured", "admitted")
                                /\ currentClients < MaxClients
                                /\ currentClients' = currentClients + 1
  BY <1>3, MainMoves DEF Admit
<1>8. ASSUME NEW w \in Workers, Start(w)
      PROVE  \E c \in Conns : Shift(c, "admitted", "served") /\ currentClients' = currentClients
  BY <1>8, StartMoves DEF Start
<1>9. ASSUME NEW w \in Workers, Decrement(w)
      PROVE  \E c \in Conns :
               /\ Shift(c, "served", "done")
               /\ currentClients' =
                    IF currentClients > 0 THEN currentClients - 1 ELSE currentClients
  BY <1>9, DecrementMoves DEF Decrement
<1>10. ASSUME NEW w \in Workers, Worker(w)
       PROVE  \/ TakeJob(w) \/ Start(w) \/ Talk(w) \/ CleanupFree(w)
              \/ CleanupErase(w) \/ CleanupClose(w) \/ Decrement(w)
  BY <1>10, TalkSteps DEF Worker, Command, Cleanup, Base
<1> QED
  BY <1>1, <1>2, <1>4, <1>5, <1>6, <1>7, <1>8, <1>9, <1>10 DEF Next, Main

LEMMA InsideFinite == IsFiniteSet(InsideNow) /\ Cardinality(InsideNow) \in Nat
BY ServerAssumption, FS_Subset, FS_CardinalityType DEF InsideNow

LEMMA InsideKept ==
  ASSUME Base, InsideExact, Next PROVE InsideExact'
<1> USE DEF InsideExact
<1>1. CASE Stay /\ currentClients' = currentClients
  <2>1. InsideNow' = InsideNow
    BY <1>1 DEF Stay, InsideNow
  <2> QED
    BY <1>1, <2>1
<1>2. ASSUME NEW c \in Conns, currentClients' = currentClients,
             \/ Shift(c, "idle", "waiting") \/ Shift(c, "waiting", "secured")
             \/ Shift(c, "waiting", "done") \/ Shift(c, "admitted", "served")
             \/ Shift(c, "secured", "done")
      PROVE  InsideExact'
  <2>1. InsideNow' = InsideNow
    BY <1>2 DEF Shift, InsideNow
  <2> QED
    BY <1>2, <2>1
<1>3. ASSUME NEW c \in Conns, Shift(c, "secured", "admitted"),
             currentClients' = currentClients + 1
      PROVE  InsideExact'
  <2>1. InsideNow' = InsideNow \cup {c} /\ c \notin InsideNow
    BY <1>3 DEF Shift, InsideNow
  <2> QED
    BY <1>3, <2>1, InsideFinite, FS_AddElement
<1>4. ASSUME NEW c \in Conns, Shift(c, "served", "done"),
             currentClients' = IF currentClients > 0 THEN currentClients - 1 ELSE currentClients
      PROVE  InsideExact'
  <2>1. InsideNow' = InsideNow \ {c} /\ c \in InsideNow
    BY <1>4 DEF Shift, InsideNow
  <2>2. Cardinality(InsideNow') = Cardinality(InsideNow) - 1
    BY <2>1, InsideFinite, FS_RemoveElement
  <2>3. Cardinality(InsideNow) # 0
    BY <2>1, InsideFinite, FS_EmptySet
  <2> QED
    BY <1>4, <2>2, <2>3, InsideFinite
<1> QED
  BY <1>1, <1>2, <1>3, <1>4, GateMoves

-----------------------------------------------------------------------------
(* The invariant, and what follows from it.                                *)

LEMMA InitIInv ==
  ASSUME Init PROVE IInv /\ \A c \in Conns : PhaseOf(c) = "idle"
<1>1. /\ <<>> \in Seq(Conns) /\ <<>> \in Seq(Sockets) /\ Len(<<>>) = 0
      /\ Once(<<>>) /\ \A x : ~In(x, <<>>)
  BY EmptySeq DEF Once, In
<1>2. UMTypeOK
  <2>1. LoadUsers(InitialFile) \in Seq(User)
    BY InitialFileAssumption, LoadedAgreement
  <2> QED
    BY <2>1, InitialFileAssumption DEF Init, UMInit, UMTypeOK
<1>3. TypeOK
  BY <1>1, <1>2 DEF Init, TypeOK, MainPCs, WorkerPCs
<1>4. Places /\ FdOK /\ ConnOnce /\ SslOK /\ MapOK
  BY <1>1, ServerAssumption DEF Init, Places, FdOK, ConnOnce, SslOK, MapOK, Holding, Ending
<1>5. SessionIsServed
  BY DEF Init, UMInit, SessionIsServed, IsLoggedIn
<1>6. ClientCountExact
  <2>1. Busy = {}
    BY DEF Init, Busy
  <2> QED
    BY <1>1, <2>1, FS_EmptySet, ServerAssumption DEF Init, ClientCountExact, Admitting
<1>7. \A c \in Conns : PhaseOf(c) = "idle"
  BY ServerAssumption DEF Init, PhaseOf, AtWorker
<1>8. InsideExact
  <2>1. InsideNow = {}
    BY <1>7 DEF InsideNow
  <2> QED
    BY <2>1, FS_EmptySet DEF Init, InsideExact
<1> QED
  BY <1>3, <1>4, <1>5, <1>6, <1>7, <1>8 DEF IInv, Base

LEMMA StepIInv ==
  ASSUME IInv, [Next]_vars PROVE IInv'
<1>1. CASE Next
  <2>1. Base'
    BY <1>1, ServerTypes, PlacesKept, FdKept, ConnKept, SslKept, MapKept DEF IInv, Base
  <2> QED
    BY <1>1, <2>1, SessionsKept, CountKept, InsideKept DEF IInv
<1>2. CASE UNCHANGED vars
  <2> USE <1>2 DEF vars, umVars, netVars, mainVars, workerVars, targetVars
  <2>1. Base'
    BY DEF IInv, Base, TypeOK, UMTypeOK, Places, FdOK, ConnOnce, SslOK, MapOK, Holding, Ending
  <2>2. SessionIsServed'
    BY DEF IInv, SessionIsServed, IsLoggedIn, Serving
  <2>3. ClientCountExact'
    BY DEF IInv, ClientCountExact, Busy, Admitting
  <2>4. InsideExact'
    BY DEF IInv, InsideExact, InsideNow, PhaseOf, AtWorker, Secured, Undecided
  <2> QED
    BY <2>1, <2>2, <2>3, <2>4 DEF IInv
<1> QED
  BY <1>1, <1>2

LEMMA SpecIInv == Spec => []IInv
BY InitIInv, StepIInv, PTL DEF Spec

(* Type correctness of the connections, descriptors, threads and counter.  *)
THEOREM ServerTypeOK == Spec => []TypeOK
<1>1. IInv => TypeOK
  BY DEF IInv, Base
<1> QED
  BY <1>1, SpecIInv, PTL

(* currentClients is the number of connections let in and not yet given    *)
(* back, and never above MaxClients.                                       *)
THEOREM ServerClientCountExact == Spec => []ClientCountExact
<1>1. IInv => ClientCountExact
  BY DEF IInv
<1> QED
  BY <1>1, SpecIInv, PTL

(* A descriptor is with the main thread, in the queue or at one worker,    *)
(* and open exactly while it is: nobody uses a socket that was reused.     *)
THEOREM ServerFdHeldOnce == Spec => []FdHeldOnce
<1>1. IInv => FdHeldOnce
  BY PartsAgree DEF IInv
<1> QED
  BY <1>1, SpecIInv, PTL

(* sslMap without a lock still gives every worker the live SSL object of   *)
(* its own connection, and keeps no freed one past its erase.              *)
THEOREM ServerSslCurrent == Spec => []SslCurrent
<1>1. IInv => SslCurrent
  BY PartsAgree DEF IInv
<1> QED
  BY <1>1, SpecIInv, PTL

(* No session survives its connection.                                     *)
THEOREM ServerSessionIsServed == Spec => []SessionIsServed
<1>1. IInv => SessionIsServed
  BY DEF IInv
<1> QED
  BY <1>1, SpecIInv, PTL

(* Every step of the threads is a step of the gate, or hidden: room is     *)
(* given and refused by the number of connections inside, not by what the  *)
(* counter happens to hold.                                                *)
THEOREM ServerImplementsAdmission == Spec => ImplementsAdmission
<1> DEFINE Phase == [c \in Conns |-> PhaseOf(c)]
<1>1. Init => Gate!Init
  BY InitIInv DEF Gate!Init
<1>2. ASSUME IInv, [Next]_vars PROVE [Gate!Next]_Phase
  <2>1. Gate!Inside = InsideNow
    BY DEF Gate!Inside, InsideNow
  <2>0. Gate!Cardinality(InsideNow) = Cardinality(InsideNow)
    BY DEF Gate!Cardinality, Cardinality
  <2>2. Gate!Cardinality(Gate!Inside) = currentClients /\ currentClients <= MaxClients
    BY <1>2, <2>0, <2>1 DEF IInv, InsideExact, ClientCountExact
  <2>3. MaxClients \in Nat /\ currentClients \in Nat
    BY <1>2, ServerAssumption DEF IInv, Base, TypeOK
  <2>4. ASSUME NEW c \in Conns, NEW from, NEW to, Shift(c, from, to)
        PROVE  Gate!Move(c, from, to)
    BY <2>4 DEF Shift, Gate!Move
  <2>5. Stay => Phase' = Phase
    BY DEF Stay
  <2>6. UNCHANGED vars => Phase' = Phase
    BY DEF vars, umVars, netVars, mainVars, workerVars, targetVars, PhaseOf, AtWorker, Secured,
       Undecided
  <2>7. ASSUME NEW c \in Conns,
               \/ Shift(c, "idle", "waiting") \/ Shift(c, "waiting", "secured")
               \/ Shift(c, "waiting", "done") \/ Shift(c, "admitted", "served")
               \/ Shift(c, "served", "done")
               \/ Shift(c, "secured", "done") /\ currentClients >= MaxClients
               \/ Shift(c, "secured", "admitted") /\ currentClients < MaxClients
        PROVE  Gate!Next
    BY <2>2, <2>3, <2>4, <2>7
       DEF Gate!Next, Gate!Arrive, Gate!Secure, Gate!Fail, Gate!Admit, Gate!Refuse, Gate!Serve,
           Gate!Release
  <2> QED
    BY <1>2, <2>5, <2>6, <2>7, GateMoves DEF IInv
<1> QED
  BY <1>1, <1>2, SpecIInv, PTL DEF Spec, ImplementsAdmission, Gate!Spec
=============================================================================
