---------------------------- MODULE UserManager ----------------------------
(***************************************************************************)
(* The account table of the server (UserManager.cpp, class UserManager).   *)
(*                                                                         *)
(* users is the vector of accounts, clientStatus the map from a client     *)
(* socket to the account logged in on it, userFile the lines of users.txt. *)
(* Every method takes the mutex on entry and releases it on every return,  *)
(* so a method is one action here; saveUsers alone runs without the mutex. *)
(*                                                                         *)
(* std::map::find() = end() is the value NoUser.                           *)
(***************************************************************************)
EXTENDS Naturals, Sequences

CONSTANTS
  Sockets,     \* file descriptors the server hands to its workers
  Names,       \* user names of at most MAX_USERNAME_LENGTH characters
  Passwords,   \* passwords of at most MAX_PASSWORD_LENGTH characters
  NoUser,      \* "this socket has no entry in clientStatus"
  InitialFile  \* the lines of users.txt when the server is first started

VARIABLES users, clientStatus, userFile

umVars == <<users, clientStatus, userFile>>

Line == [username : Names, password : Passwords]
User == [username : Names, password : Passwords, isLoggedIn : BOOLEAN]

(* The file is only ever written by saveUsers, whose names are unique.     *)
ASSUME NoUserAssumption == NoUser \notin Names
ASSUME InitialFileAssumption ==
  /\ InitialFile \in Seq(Line)
  /\ \A i, j \in DOMAIN InitialFile :
       InitialFile[i].username = InitialFile[j].username => i = j

-----------------------------------------------------------------------------
(* Queries: the scans of the vector and of the map.                        *)

Entries(n) == {i \in DOMAIN users : users[i].username = n}

(* for (auto& user : users) stops at the first entry with that name.       *)
Entry(n) == CHOOSE i \in Entries(n) : \A j \in Entries(n) : i <= j

IsLoggedIn(s) == clientStatus[s] # NoUser

IsAccountExist(n) == Entries(n) # {}

IsAccountAvailable(n) == \E i \in Entries(n) : ~users[i].isLoggedIn

(* The condition under which loginUser returns true.                       *)
LoginAccepted(n, p) ==
  /\ IsAccountExist(n)
  /\ ~users[Entry(n)].isLoggedIn
  /\ users[Entry(n)].password = p

-----------------------------------------------------------------------------
(* Updates.                                                                *)

NewUser(line) ==
  [username |-> line.username, password |-> line.password, isLoggedIn |-> FALSE]

(* loadUsers, run by the constructor: one account per line of the file.    *)
LoadUsers(file) == [i \in DOMAIN file |-> NewUser(file[i])]

(* registerUser once the scan has found no account of that name.           *)
RegisterUser(line) ==
  /\ users' = Append(users, NewUser(line))
  /\ UNCHANGED <<clientStatus, userFile>>

(* saveUsers with the file open: one line appended.                        *)
SaveUsers(line) ==
  /\ userFile' = Append(userFile, line)
  /\ UNCHANGED <<users, clientStatus>>

(* loginUser once the name, the status and the password have been checked. *)
LoginUser(s, n) ==
  /\ users' = [users EXCEPT ![Entry(n)].isLoggedIn = TRUE]
  /\ clientStatus' = [clientStatus EXCEPT ![s] = n]
  /\ UNCHANGED userFile

(* A logoutUser that forgets to clear the flag in the vector.              *)
LogoutUser_FlagKept(s) ==
  /\ clientStatus' = [clientStatus EXCEPT ![s] = NoUser]
  /\ UNCHANGED <<users, userFile>>

(* logoutUser: nothing happens for a socket that is not in the map.        *)
LogoutUser(s) ==
  LET n == clientStatus[s] IN
  /\ users' = IF IsLoggedIn(s) /\ IsAccountExist(n)
                THEN [users EXCEPT ![Entry(n)].isLoggedIn = FALSE]
                ELSE users
  /\ clientStatus' = [clientStatus EXCEPT ![s] = NoUser]
  /\ UNCHANGED userFile

(* The constructor: an empty map and the accounts of the file.             *)
UMInit ==
  /\ userFile = InitialFile
  /\ users = LoadUsers(InitialFile)
  /\ clientStatus = [s \in Sockets |-> NoUser]

(* A new server process: memory is rebuilt, the file is what it was.       *)
UMRestart ==
  /\ users' = LoadUsers(userFile)
  /\ clientStatus' = [s \in Sockets |-> NoUser]
  /\ UNCHANGED userFile

UMTypeOK ==
  /\ users \in Seq(User)
  /\ clientStatus \in [Sockets -> Names \cup {NoUser}]
  /\ userFile \in Seq(Line)
=============================================================================
