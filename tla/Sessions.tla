------------------------------ MODULE Sessions ------------------------------
(***************************************************************************)
(* The account commands of ThreadPool::handleClient: register, login,      *)
(* logout, exit and the clean-up after a connection, one worker thread per *)
(* connected socket.  The worker calls several methods of UserManager one  *)
(* after the other, each under the mutex but none across two calls, so     *)
(* every call is a step and the workers interleave between them.           *)
(*                                                                         *)
(* The relay commands (send) change no account state; see Server.          *)
(***************************************************************************)
EXTENDS UserManager

CONSTANTS
  LongName,     \* stands for any name or password over the length limits
  NoLine,       \* the local strings of a worker outside a command
  DiskMayFail,  \* whether opening users.txt for appending can fail
  MaxCrashes    \* bound: how often the process dies and is started again

ASSUME SocketsAssumption == NoUser \notin Sockets
ASSUME SessionsAssumption ==
  /\ LongName \notin Names
  /\ NoLine \notin [username : Names \cup {LongName}, password : Passwords]
  /\ DiskMayFail \in BOOLEAN
  /\ MaxCrashes \in Nat

VARIABLES
  pc,      \* where the worker of each socket is; "closed": not connected
  line,    \* the user name and password of the command being executed
  reply,   \* the response the worker is about to write, or has not yet
  acked,   \* history: the lines answered with "Registration successful"
  lost,    \* history: the lines whose last saveUsers could not open the file
  crashes  \* bounded counter of restarts

workerVars == <<pc, line, reply>>
vars == <<umVars, workerVars, acked, lost, crashes>>

Input == [username : Names \cup {LongName}, password : Passwords]

Replies == {"none", "usage", "nameToolong", "logoutToRegister",
            "Registration successful", "userNameExist", "alreadyLogin",
            "accNotFound", "accountNotAvailable", "Login successful",
            "incorrectPwd", "logoutMsg", "notLogin", "logoutFirst", "goodByeMsg"}

PCs == {"closed", "read", "registerOwn", "registerUser", "saveUsers",
        "loginOwn", "loginExist", "loginAvailable", "loginUser",
        "logoutOwn", "logoutUser", "exitOwn", "reply", "cleanup", "cleanupLogout"}

Init ==
  /\ UMInit
  /\ pc = [s \in Sockets |-> "closed"]
  /\ line = [s \in Sockets |-> NoLine]
  /\ reply = [s \in Sockets |-> "none"]
  /\ acked = {}
  /\ lost = {}
  /\ crashes = 0

-----------------------------------------------------------------------------
(* Helpers: moving a worker on, and setting the response.                  *)

Goto(s, to) == pc' = [pc EXCEPT ![s] = to]

Answer(s, text) ==
  /\ Goto(s, "reply")
  /\ reply' = [reply EXCEPT ![s] = text]

-----------------------------------------------------------------------------
(* A worker takes over a socket: a new connection, or one on a descriptor  *)
(* that an earlier connection has closed.                                  *)
Connect(s) ==
  /\ pc[s] = "closed"
  /\ Goto(s, "read")
  /\ UNCHANGED <<umVars, line, reply, acked, lost, crashes>>

(* SSL_read returns a command.                                             *)
ReceiveRegister(s) ==
  /\ pc[s] = "read"
  /\ Goto(s, "registerOwn")
  /\ \E l \in Input : line' = [line EXCEPT ![s] = l]
  /\ UNCHANGED <<umVars, reply, acked, lost, crashes>>

ReceiveLogin(s) ==
  /\ pc[s] = "read"
  /\ \E l \in Input :
       /\ line' = [line EXCEPT ![s] = l]
       /\ \/ /\ l.username = LongName
             /\ Answer(s, "nameToolong")
          \/ /\ l.username # LongName
             /\ Goto(s, "loginOwn")
             /\ UNCHANGED reply
  /\ UNCHANGED <<umVars, acked, lost, crashes>>

ReceiveLogout(s) ==
  /\ pc[s] = "read"
  /\ Goto(s, "logoutOwn")
  /\ UNCHANGED <<umVars, line, reply, acked, lost, crashes>>

ReceiveExit(s) ==
  /\ pc[s] = "read"
  /\ Goto(s, "exitOwn")
  /\ UNCHANGED <<umVars, line, reply, acked, lost, crashes>>

(* A word that is no command, missing or surplus arguments: an error       *)
(* message before any account is looked at.                                *)
ReceiveMalformed(s) ==
  /\ pc[s] = "read"
  /\ Answer(s, "usage")
  /\ UNCHANGED <<umVars, line, acked, lost, crashes>>

(* SSL_read <= 0: the peer has closed the connection, or it has failed.    *)
ReadFails(s) ==
  /\ pc[s] = "read"
  /\ Goto(s, "cleanup")
  /\ UNCHANGED <<umVars, line, reply, acked, lost, crashes>>

-----------------------------------------------------------------------------
(* register: isLoggedIn, the length check, registerUser, saveUsers.        *)

(* A register command without the length check.                            *)
RegisterOwn_AnyLength(s) ==
  /\ pc[s] = "registerOwn"
  /\ \/ IsLoggedIn(s) /\ Answer(s, "logoutToRegister")
     \/ ~IsLoggedIn(s) /\ Goto(s, "registerUser") /\ UNCHANGED reply
  /\ UNCHANGED <<umVars, line, acked, lost, crashes>>

RegisterOwn(s) ==
  /\ pc[s] = "registerOwn"
  /\ \/ /\ IsLoggedIn(s)
        /\ Answer(s, "logoutToRegister")
     \/ /\ ~IsLoggedIn(s) /\ line[s].username = LongName
        /\ Answer(s, "nameToolong")
     \/ /\ ~IsLoggedIn(s) /\ line[s].username # LongName
        /\ Goto(s, "registerUser")
        /\ UNCHANGED reply
  /\ UNCHANGED <<umVars, line, acked, lost, crashes>>

(* A registerUser without the scan for an account of the same name.        *)
RegisterCall_NoScan(s) ==
  /\ pc[s] = "registerUser"
  /\ Goto(s, "saveUsers")
  /\ Len(users) < 3
  /\ RegisterUser(line[s])
  /\ UNCHANGED <<line, reply, acked, lost, crashes>>

RegisterCall(s) ==
  /\ pc[s] = "registerUser"
  /\ \/ /\ IsAccountExist(line[s].username)
        /\ Answer(s, "userNameExist")
        /\ UNCHANGED umVars
     \/ /\ ~IsAccountExist(line[s].username)
        /\ Goto(s, "saveUsers")
        /\ RegisterUser(line[s])
        /\ UNCHANGED reply
  /\ UNCHANGED <<line, acked, lost, crashes>>

(* Answering before the account is in the file.                            *)
Save_Skipped(s) ==
  /\ pc[s] = "saveUsers"
  /\ Answer(s, "Registration successful")
  /\ UNCHANGED <<umVars, line, acked, lost, crashes>>

(* saveUsers returns without a trace when the file cannot be opened; the   *)
(* response was chosen before the call.                                    *)
Save(s) ==
  /\ pc[s] = "saveUsers"
  /\ Answer(s, "Registration successful")
  /\ \/ /\ SaveUsers(line[s])
        /\ lost' = lost \ {line[s]}
     \/ /\ DiskMayFail
        /\ lost' = lost \cup {line[s]}
        /\ UNCHANGED umVars
  /\ UNCHANGED <<line, acked, crashes>>

-----------------------------------------------------------------------------
(* login: isLoggedIn, isAccountExist, isAccountAvailable, loginUser.       *)

LoginOwn(s) ==
  /\ pc[s] = "loginOwn"
  /\ \/ /\ IsLoggedIn(s)
        /\ Answer(s, "alreadyLogin")
     \/ /\ ~IsLoggedIn(s)
        /\ Goto(s, "loginExist")
        /\ UNCHANGED reply
  /\ UNCHANGED <<umVars, line, acked, lost, crashes>>

LoginExist(s) ==
  /\ pc[s] = "loginExist"
  /\ \/ /\ ~IsAccountExist(line[s].username)
        /\ Answer(s, "accNotFound")
     \/ /\ IsAccountExist(line[s].username)
        /\ Goto(s, "loginAvailable")
        /\ UNCHANGED reply
  /\ UNCHANGED <<umVars, line, acked, lost, crashes>>

LoginAvailable(s) ==
  /\ pc[s] = "loginAvailable"
  /\ \/ /\ ~IsAccountAvailable(line[s].username)
        /\ Answer(s, "accountNotAvailable")
     \/ /\ IsAccountAvailable(line[s].username)
        /\ Goto(s, "loginUser")
        /\ UNCHANGED reply
  /\ UNCHANGED <<umVars, line, acked, lost, crashes>>

(* A loginUser that trusts the earlier isAccountAvailable.                 *)
LoginCall_NoRecheck(s) ==
  LET l == line[s] IN
  /\ pc[s] = "loginUser"
  /\ Goto(s, "reply")
  /\ IF IsAccountExist(l.username) /\ users[Entry(l.username)].password = l.password
       THEN LoginUser(s, l.username) /\ reply' = [reply EXCEPT ![s] = "Login successful"]
       ELSE UNCHANGED umVars /\ reply' = [reply EXCEPT ![s] = "incorrectPwd"]
  /\ UNCHANGED <<line, acked, lost, crashes>>

LoginCall(s) ==
  LET l == line[s] IN
  /\ pc[s] = "loginUser"
  /\ \/ /\ LoginAccepted(l.username, l.password)
        /\ Answer(s, "Login successful")
        /\ LoginUser(s, l.username)
     \/ /\ ~LoginAccepted(l.username, l.password)
        /\ Answer(s, "incorrectPwd")
        /\ UNCHANGED umVars
  /\ UNCHANGED <<line, acked, lost, crashes>>

-----------------------------------------------------------------------------
(* logout and exit.                                                        *)

LogoutOwn(s) ==
  /\ pc[s] = "logoutOwn"
  /\ \/ /\ IsLoggedIn(s)
        /\ Goto(s, "logoutUser")
        /\ UNCHANGED reply
     \/ /\ ~IsLoggedIn(s)
        /\ Answer(s, "notLogin")
  /\ UNCHANGED <<umVars, line, acked, lost, crashes>>

LogoutCall(s) ==
  /\ pc[s] = "logoutUser"
  /\ Answer(s, "logoutMsg")
  /\ LogoutUser(s)
  /\ UNCHANGED <<line, acked, lost, crashes>>

ExitOwn(s) ==
  /\ pc[s] = "exitOwn"
  /\ Answer(s, IF IsLoggedIn(s) THEN "logoutFirst" ELSE "goodByeMsg")
  /\ UNCHANGED <<umVars, line, acked, lost, crashes>>

-----------------------------------------------------------------------------
(* SSL_write of the response; after goodByeMsg the loop is left.           *)
Reply(s) ==
  /\ pc[s] = "reply"
  /\ Goto(s, IF reply[s] = "goodByeMsg" THEN "cleanup" ELSE "read")
  /\ acked' = IF reply[s] = "Registration successful" THEN acked \cup {line[s]} ELSE acked
  /\ reply' = [reply EXCEPT ![s] = "none"]
  /\ line' = [line EXCEPT ![s] = NoLine]
  /\ UNCHANGED <<umVars, lost, crashes>>

(* SSL_write <= 0: break, so to the clean-up too.                          *)
ReplyFails(s) ==
  /\ pc[s] = "reply"
  /\ Goto(s, "cleanup")
  /\ reply' = [reply EXCEPT ![s] = "none"]
  /\ line' = [line EXCEPT ![s] = NoLine]
  /\ UNCHANGED <<umVars, acked, lost, crashes>>

(* A clean-up that closes the socket and forgets the login.                *)
Cleanup_NoLogout(s) ==
  /\ pc[s] = "cleanup"
  /\ Goto(s, "closed")
  /\ UNCHANGED <<umVars, line, reply, acked, lost, crashes>>

(* The clean-up after the loop: if (isLoggedIn) logoutUser; close.         *)
Cleanup(s) ==
  /\ pc[s] = "cleanup"
  /\ Goto(s, IF IsLoggedIn(s) THEN "cleanupLogout" ELSE "closed")
  /\ UNCHANGED <<umVars, line, reply, acked, lost, crashes>>

CleanupLogout(s) ==
  /\ pc[s] = "cleanupLogout"
  /\ Goto(s, "closed")
  /\ LogoutUser(s)
  /\ UNCHANGED <<line, reply, acked, lost, crashes>>

(* The process ends (SIGINT, a signal on a broken connection) and is       *)
(* started again: the constructor of UserManager runs on the same file.    *)
Restart ==
  /\ crashes < MaxCrashes
  /\ crashes' = crashes + 1
  /\ UMRestart
  /\ pc' = [s \in Sockets |-> "closed"]
  /\ line' = [s \in Sockets |-> NoLine]
  /\ reply' = [s \in Sockets |-> "none"]
  /\ UNCHANGED <<acked, lost>>

Worker(s) ==
  \/ Connect(s)
  \/ ReceiveRegister(s) \/ ReceiveLogin(s) \/ ReceiveLogout(s)
  \/ ReceiveExit(s) \/ ReceiveMalformed(s) \/ ReadFails(s)
  \/ RegisterOwn(s) \/ RegisterCall(s) \/ Save(s)
  \/ LoginOwn(s) \/ LoginExist(s) \/ LoginAvailable(s) \/ LoginCall(s)
  \/ LogoutOwn(s) \/ LogoutCall(s) \/ ExitOwn(s)
  \/ Reply(s) \/ ReplyFails(s) \/ Cleanup(s) \/ CleanupLogout(s)

Next == Restart \/ \E s \in Sockets : Worker(s)

Spec == Init /\ [][Next]_vars

-----------------------------------------------------------------------------
(* Type invariant.                                                         *)
TypeOK ==
  /\ UMTypeOK
  /\ pc \in [Sockets -> PCs]
  /\ line \in [Sockets -> Input \cup {NoLine}]
  /\ reply \in [Sockets -> Replies]
  /\ acked \in SUBSET Line
  /\ lost \in SUBSET Line
  /\ crashes \in 0..MaxCrashes

(* registerUser scans and appends in one critical section: no two accounts *)
(* share a name, in memory or - although saveUsers runs outside it - in    *)
(* the file, so that the "first match" scans find the only match.          *)
UniqueNames ==
  /\ \A i, j \in DOMAIN users : users[i].username = users[j].username => i = j
  /\ \A i, j \in DOMAIN userFile : userFile[i].username = userFile[j].username => i = j

(* The isLoggedIn flag of an account and clientStatus tell the same story: *)
(* a flag is set exactly when one socket, and only one, maps to the name.  *)
SessionAgreement ==
  /\ \A i \in DOMAIN users :
       users[i].isLoggedIn <=> \E s \in Sockets : clientStatus[s] = users[i].username
  /\ \A s \in Sockets : IsLoggedIn(s) =>
       \E i \in DOMAIN users : users[i].username = clientStatus[s]
  /\ \A s, t \in Sockets : IsLoggedIn(s) /\ clientStatus[s] = clientStatus[t] => s = t

(* A connection starts without a session: whatever the previous connection *)
(* on the same descriptor did, its login is gone when the socket closes.   *)
NoInheritedLogin == \A s \in Sockets : pc[s] = "closed" => ~IsLoggedIn(s)

(* An account that a client was told is created is in users.txt when its   *)
(* saveUsers could write there, so that it is still there after any crash: *)
(* the append comes before the answer, and nothing shortens the file.      *)
AckedDurable ==
  \A l \in acked \ lost : \E i \in DOMAIN userFile : userFile[i] = l

-----------------------------------------------------------------------------
(* Two clients, one account and one map: the whole of it implements the    *)
(* abstract account service, with owner read off clientStatus alone.       *)
NoSocket == NoUser

OwnerOf(n) ==
  IF \E s \in Sockets : clientStatus[s] = n
    THEN CHOOSE s \in Sockets : clientStatus[s] = n
    ELSE NoSocket

Abstract == INSTANCE Accounts WITH
  registered <- {users[i].username : i \in DOMAIN users},
  durable    <- {userFile[i].username : i \in DOMAIN userFile},
  owner      <- [n \in Names |-> OwnerOf(n)]

(* Every step of the workers is a step of the account service or hidden.   *)
ImplementsAccounts == Abstract!Spec
=============================================================================
