--------------------------- MODULE SessionsProofs ---------------------------
(***************************************************************************)
(* Theorems about Sessions: for any sockets, names and passwords, any      *)
(* initial file, any number of restarts and any number of workers.         *)
(***************************************************************************)
EXTENDS Sessions, SequenceTheorems, TLAPS

-----------------------------------------------------------------------------
(* The account table, whoever uses it.                                     *)

(* Setting the flag of one entry.                                          *)
LEMMA SetFlag ==
  ASSUME users \in Seq(User), NEW k \in DOMAIN users, NEW v \in BOOLEAN,
         users' = [users EXCEPT ![k].isLoggedIn = v]
  PROVE  /\ users' \in Seq(User)
         /\ DOMAIN users' = DOMAIN users
         /\ \A i \in DOMAIN users :
              /\ users'[i].username = users[i].username
              /\ users'[i].password = users[i].password
              /\ users'[i].isLoggedIn = IF i = k THEN v ELSE users[i].isLoggedIn
<1> DEFINE u == [users[k] EXCEPT !.isLoggedIn = v]
<1>1. users[k] \in User
  BY ElementOfSeq
<1>2. u \in User
  BY <1>1 DEF User
<1>3. users' = [users EXCEPT ![k] = u]
  OBVIOUS
<1>4. users' \in Seq(User)
  BY <1>2, <1>3, ExceptSeq
<1>5. \A i \in DOMAIN users : users'[i] = IF i = k THEN u ELSE users[i]
  BY <1>3
<1> QED
  BY <1>1, <1>3, <1>4, <1>5 DEF User

(* loadUsers: nobody is logged in when the server has just started.        *)
LEMMA LoadedAgreement ==
  ASSUME NEW file \in Seq(Line),
         \A i, j \in DOMAIN file : file[i].username = file[j].username => i = j
  PROVE  /\ LoadUsers(file) \in Seq(User)
         /\ DOMAIN LoadUsers(file) = DOMAIN file
         /\ \A i \in DOMAIN file :
              /\ LoadUsers(file)[i].username = file[i].username
              /\ LoadUsers(file)[i].isLoggedIn = FALSE
<1>1. DOMAIN file = 1..Len(file) /\ Len(file) \in Nat
  BY LenProperties
<1>2. \A i \in 1..Len(file) : file[i] \in Line
  BY ElementOfSeq
<1>3. \A i \in 1..Len(file) : NewUser(file[i]) \in User
  BY <1>2 DEF NewUser, User, Line
<1>4. LoadUsers(file) \in [1..Len(file) -> User]
  BY <1>1, <1>3 DEF LoadUsers
<1>5. LoadUsers(file) \in Seq(User)
  BY <1>1, <1>4, SeqDef
<1> QED
  BY <1>1, <1>5 DEF LoadUsers, NewUser

-----------------------------------------------------------------------------
(* The inductive invariant, in named parts.                                *)

(* The strings a worker holds have passed the checks before its place.     *)
LineOK ==
  \A s \in Sockets :
    /\ pc[s] = "registerOwn" => line[s] \in Input
    /\ pc[s] \in {"registerUser", "saveUsers", "loginOwn", "loginExist",
                  "loginAvailable", "loginUser"} => line[s] \in Line
    /\ reply[s] = "Registration successful" => pc[s] = "reply" /\ line[s] \in Line

UniqueUsers ==
  \A i, j \in DOMAIN users : users[i].username = users[j].username => i = j

(* A worker that is about to log its client in, or that is not serving     *)
(* one, has no session: isLoggedIn was false and only it could change it.  *)
LoggedOut ==
  \A s \in Sockets :
    pc[s] \in {"closed", "loginExist", "loginAvailable", "loginUser"} => ~IsLoggedIn(s)

Base == TypeOK /\ LineOK /\ UniqueUsers /\ LoggedOut /\ SessionAgreement

(* The file and the accounts that are on their way to it.                  *)
FileOK ==
  /\ \A i, j \in DOMAIN userFile : userFile[i].username = userFile[j].username => i = j
  /\ \A i \in DOMAIN userFile : \E k \in DOMAIN users : users[k].username = userFile[i].username
  /\ \A s \in Sockets : pc[s] = "saveUsers" =>
       /\ \A i \in DOMAIN userFile : userFile[i].username # line[s].username
       /\ \E k \in DOMAIN users : users[k].username = line[s].username
  /\ \A s, t \in Sockets :
       pc[s] = "saveUsers" /\ pc[t] = "saveUsers" /\ line[s].username = line[t].username
         => s = t

InFile(l) == \E i \in DOMAIN userFile : userFile[i] = l

(* The reply is chosen when the append is done, or has failed.             *)
Settled(l) == l \in lost \/ InFile(l)

AckOK ==
  /\ \A l \in acked : Settled(l)
  /\ \A s \in Sockets : reply[s] = "Registration successful" => Settled(line[s])
-----------------------------------------------------------------------------
(* Lemmas about the account table.                                         *)

(* Where names are unique, the first entry of a name is the only one.      *)
LEMMA EntryIsTheEntry ==
  ASSUME users \in Seq(User), UniqueUsers, NEW n, IsAccountExist(n)
  PROVE  /\ Entry(n) \in DOMAIN users
         /\ users[Entry(n)].username = n
         /\ \A i \in DOMAIN users : users[i].username = n => i = Entry(n)
<1>1. PICK i \in Entries(n) : TRUE
  BY DEF IsAccountExist
<1>2. \A j \in Entries(n) : j = i
  BY <1>1 DEF Entries, UniqueUsers
<1>3. Entry(n) \in Entries(n)
  <2>1. i \in Entries(n) /\ \A j \in Entries(n) : i <= j
    BY <1>1, <1>2 DEF Entries
  <2> QED
    BY <2>1 DEF Entry
<1> QED
  BY <1>2, <1>3 DEF Entries

(* loginUser keeps the flags and the map in agreement, if its client was   *)
(* not logged in - which loginUser itself does not look at.                *)
LEMMA LoginKeepsAgreement ==
  ASSUME UMTypeOK, UniqueUsers, SessionAgreement,
         NEW s \in Sockets, ~IsLoggedIn(s), NEW n \in Names, NEW p,
         LoginAccepted(n, p), LoginUser(s, n)
  PROVE  UMTypeOK' /\ UniqueUsers' /\ SessionAgreement'
<1> DEFINE k == Entry(n)
<1>1. /\ k \in DOMAIN users
      /\ users[k].username = n
      /\ \A i \in DOMAIN users : users[i].username = n => i = k
  BY EntryIsTheEntry DEF LoginAccepted, UMTypeOK
<1>2. ~users[k].isLoggedIn
  BY DEF LoginAccepted
<1>3. /\ users' \in Seq(User)
      /\ DOMAIN users' = DOMAIN users
      /\ \A i \in DOMAIN users :
           /\ users'[i].username = users[i].username
           /\ users'[i].isLoggedIn = IF i = k THEN TRUE ELSE users[i].isLoggedIn
  <2> HIDE DEF k
  <2>1. users' = [users EXCEPT ![k].isLoggedIn = TRUE]
    BY DEF LoginUser, k
  <2> QED
    BY <1>1, <2>1, SetFlag DEF UMTypeOK
<1>4. clientStatus' = [clientStatus EXCEPT ![s] = n] /\ userFile' = userFile
  BY DEF LoginUser
<1>5. UMTypeOK'
  BY <1>3, <1>4 DEF UMTypeOK
<1>6. UniqueUsers'
  BY <1>3 DEF UniqueUsers
<1>7. \A t \in Sockets : clientStatus[t] # n
  BY <1>1, <1>2 DEF SessionAgreement
<1> HIDE DEF k
<1>8. \A t \in Sockets : clientStatus'[t] = IF t = s THEN n ELSE clientStatus[t]
  BY <1>4 DEF UMTypeOK
<1>9. n # NoUser
  BY NoUserAssumption
<1>10. \A i \in DOMAIN users' :
         users'[i].isLoggedIn <=> \E t \in Sockets : clientStatus'[t] = users'[i].username
  <2> SUFFICES ASSUME NEW i \in DOMAIN users
               PROVE  users'[i].isLoggedIn <=>
                        \E t \in Sockets : clientStatus'[t] = users[i].username
    BY <1>3
  <2>1. CASE i = k
    BY <2>1, <1>1, <1>3, <1>8
  <2>2. CASE i # k
    <3>1. users[i].username # n
      BY <2>2, <1>1
    <3>2. users[i].isLoggedIn <=> \E t \in Sockets : clientStatus[t] = users[i].username
      BY DEF SessionAgreement
    <3>3. clientStatus[s] = NoUser /\ users[i].username # NoUser
      <4>1. users[i] \in User
        BY ElementOfSeq DEF UMTypeOK
      <4> QED
        BY <4>1, NoUserAssumption DEF User, IsLoggedIn
    <3>4. (\E t \in Sockets : clientStatus'[t] = users[i].username)
            <=> \E t \in Sockets : clientStatus[t] = users[i].username
      BY <1>8, <3>1, <3>3
    <3> QED
      BY <1>3, <2>2, <3>2, <3>4
  <2> QED
    BY <2>1, <2>2
<1>11. \A t \in Sockets : clientStatus'[t] # NoUser =>
         \E i \in DOMAIN users' : users'[i].username = clientStatus'[t]
  <2> SUFFICES ASSUME NEW t \in Sockets, clientStatus'[t] # NoUser
               PROVE  \E i \in DOMAIN users : users[i].username = clientStatus'[t]
    BY <1>3
  <2>1. CASE t = s
    BY <2>1, <1>1, <1>8
  <2>2. CASE t # s
    BY <2>2, <1>8 DEF SessionAgreement, IsLoggedIn
  <2> QED
    BY <2>1, <2>2
<1>12. \A t, r \in Sockets :
         clientStatus'[t] # NoUser /\ clientStatus'[t] = clientStatus'[r] => t = r
  BY <1>7, <1>8 DEF SessionAgreement, IsLoggedIn
<1> QED
  BY <1>5, <1>6, <1>10, <1>11, <1>12 DEF SessionAgreement, IsLoggedIn

LEMMA LogoutKeepsAgreement ==
  ASSUME UMTypeOK, UniqueUsers, SessionAgreement, NEW s \in Sockets, LogoutUser(s)
  PROVE  /\ UMTypeOK' /\ UniqueUsers' /\ SessionAgreement'
         /\ \A t \in Sockets :
              clientStatus'[t] = IF t = s THEN NoUser ELSE clientStatus[t]
         /\ DOMAIN users' = DOMAIN users
         /\ \A i \in DOMAIN users : users'[i].username = users[i].username
<1>1. /\ clientStatus' = [clientStatus EXCEPT ![s] = NoUser]
      /\ userFile' = userFile
  BY DEF LogoutUser
<1>2. \A t \in Sockets : clientStatus'[t] = IF t = s THEN NoUser ELSE clientStatus[t]
  BY <1>1 DEF UMTypeOK
<1>3. CASE ~IsLoggedIn(s)
  <2>1. users' = users
    BY <1>3 DEF LogoutUser
  <2>2. clientStatus' = clientStatus
    BY <1>1, <1>3 DEF UMTypeOK, IsLoggedIn
  <2> QED
    BY <1>1, <1>2, <2>1, <2>2 DEF UMTypeOK, UniqueUsers, SessionAgreement, IsLoggedIn
<1>4. CASE IsLoggedIn(s)
  <2> DEFINE n == clientStatus[s]
             k == Entry(n)
  <2>1. IsAccountExist(n)
    BY <1>4 DEF SessionAgreement, IsAccountExist, Entries
  <2>2. /\ k \in DOMAIN users
        /\ users[k].username = n
        /\ \A i \in DOMAIN users : users[i].username = n => i = k
    BY <2>1, EntryIsTheEntry DEF UMTypeOK
  <2>3. users' = [users EXCEPT ![k].isLoggedIn = FALSE]
    BY <1>4, <2>1 DEF LogoutUser
  <2> HIDE DEF k
  <2>4. /\ users' \in Seq(User)
        /\ DOMAIN users' = DOMAIN users
        /\ \A i \in DOMAIN users :
             /\ users'[i].username = users[i].username
             /\ users'[i].isLoggedIn = IF i = k THEN FALSE ELSE users[i].isLoggedIn
    BY <2>2, <2>3, SetFlag DEF UMTypeOK
  <2>5. UMTypeOK'
    BY <1>1, <2>4 DEF UMTypeOK
  <2>6. UniqueUsers'
    BY <2>4 DEF UniqueUsers
  <2>7. n # NoUser /\ \A t \in Sockets : clientStatus[t] = n => t = s
    BY <1>4 DEF SessionAgreement, IsLoggedIn
  <2> HIDE DEF n
  <2>8. \A i \in DOMAIN users :
          users'[i].isLoggedIn <=> \E t \in Sockets : clientStatus'[t] = users'[i].username
    <3> SUFFICES ASSUME NEW i \in DOMAIN users
                 PROVE  users'[i].isLoggedIn <=>
                          \E t \in Sockets : clientStatus'[t] = users[i].username
      BY <2>4
    <3>1. users[i].username # NoUser
      <4>1. users[i] \in User
        BY ElementOfSeq DEF UMTypeOK
      <4> QED
        BY <4>1, NoUserAssumption DEF User
    <3>2. users[i].isLoggedIn <=> \E t \in Sockets : clientStatus[t] = users[i].username
      BY DEF SessionAgreement
    <3>3. CASE i = k
      <4>1. \A t \in Sockets : clientStatus'[t] # users[i].username
        BY <3>3, <3>1, <1>2, <2>2, <2>7
      <4> QED
        BY <4>1, <3>3, <2>4
    <3>4. CASE i # k
      <4>1. users[i].username # clientStatus[s]
        BY <3>4, <2>2 DEF n
      <4>2. (\E t \in Sockets : clientStatus'[t] = users[i].username)
              <=> \E t \in Sockets : clientStatus[t] = users[i].username
        BY <1>2, <3>1, <4>1
      <4> QED
        BY <2>4, <3>2, <3>4, <4>2
    <3> QED
      BY <3>3, <3>4
  <2>9. \A t \in Sockets : clientStatus'[t] # NoUser =>
          \E i \in DOMAIN users' : users'[i].username = clientStatus'[t]
    <3> SUFFICES ASSUME NEW t \in Sockets, clientStatus'[t] # NoUser
                 PROVE  \E i \in DOMAIN users : users[i].username = clientStatus'[t]
      BY <2>4
    <3>1. clientStatus'[t] = clientStatus[t]
      BY <1>2
    <3> QED
      BY <3>1 DEF SessionAgreement, IsLoggedIn
  <2>10. \A t, r \in Sockets :
          clientStatus'[t] # NoUser /\ clientStatus'[t] = clientStatus'[r] => t = r
    BY <1>2 DEF SessionAgreement, IsLoggedIn
  <2>11. SessionAgreement'
    BY <2>4, <2>8, <2>9, <2>10 DEF SessionAgreement, IsLoggedIn
  <2> QED
    BY <1>2, <2>4, <2>5, <2>6, <2>11
<1> QED
  BY <1>3, <1>4

(* An account that is added is not logged in anywhere.                     *)
LEMMA RegisterKeepsAgreement ==
  ASSUME UMTypeOK, UniqueUsers, SessionAgreement,
         NEW l \in Line, ~IsAccountExist(l.username), RegisterUser(l)
  PROVE  /\ UMTypeOK' /\ UniqueUsers' /\ SessionAgreement'
         /\ \E k \in DOMAIN users' : users'[k].username = l.username
         /\ \A i \in DOMAIN users : i \in DOMAIN users' /\ users'[i] = users[i]
<1> DEFINE u == NewUser(l)
           m == Len(users) + 1
<1>1. u \in User /\ u.username = l.username /\ u.isLoggedIn = FALSE
  BY DEF NewUser, User, Line
<1>2. /\ users' \in Seq(User)
      /\ Len(users') = m
      /\ \A i \in 1..Len(users) : users'[i] = users[i]
      /\ users'[m] = u
  BY <1>1, AppendProperties DEF RegisterUser, UMTypeOK
<1>3. /\ DOMAIN users = 1..Len(users)
      /\ DOMAIN users' = 1..m
      /\ Len(users) \in Nat
  BY <1>2, LenProperties DEF UMTypeOK
<1>4. clientStatus' = clientStatus /\ userFile' = userFile
  BY DEF RegisterUser
<1>5. \A i \in DOMAIN users : users[i].username # l.username
  BY DEF IsAccountExist, Entries
<1> HIDE DEF u
<1>6. UMTypeOK'
  BY <1>2, <1>4 DEF UMTypeOK
<1>7. \A i \in DOMAIN users' : i = m \/ i \in DOMAIN users
  BY <1>3
<1>8. UniqueUsers'
  BY <1>1, <1>2, <1>3, <1>5, <1>7 DEF UniqueUsers
<1>9. \A i \in DOMAIN users' :
        users'[i].isLoggedIn <=> \E t \in Sockets : clientStatus'[t] = users'[i].username
  <2> SUFFICES ASSUME NEW i \in DOMAIN users'
               PROVE  users'[i].isLoggedIn <=>
                        \E t \in Sockets : clientStatus[t] = users'[i].username
    BY <1>4
  <2>1. CASE i \in DOMAIN users
    BY <2>1, <1>2, <1>3 DEF SessionAgreement
  <2>2. CASE i = m
    <3>1. l.username # NoUser
      BY NoUserAssumption DEF Line
    <3>2. \A t \in Sockets : clientStatus[t] # l.username
      BY <3>1, <1>5 DEF SessionAgreement, IsLoggedIn
    <3> QED
      BY <2>2, <3>2, <1>1, <1>2
  <2> QED
    BY <2>1, <2>2, <1>7
<1>10. \A t \in Sockets : clientStatus'[t] # NoUser =>
         \E i \in DOMAIN users' : users'[i].username = clientStatus'[t]
  BY <1>2, <1>3, <1>4 DEF SessionAgreement, IsLoggedIn
<1>11. SessionAgreement'
  BY <1>4, <1>9, <1>10 DEF SessionAgreement, IsLoggedIn
<1>12. \E k \in DOMAIN users' : users'[k].username = l.username
  BY <1>1, <1>2, <1>3
<1>13. \A i \in DOMAIN users : i \in DOMAIN users' /\ users'[i] = users[i]
  BY <1>2, <1>3
<1> QED
  BY <1>6, <1>8, <1>11, <1>12, <1>13

-----------------------------------------------------------------------------
(* Base is inductive.                                                      *)

WorkerTypeOK ==
  /\ pc \in [Sockets -> PCs]
  /\ line \in [Sockets -> Input \cup {NoLine}]
  /\ reply \in [Sockets -> Replies]
  /\ acked \in SUBSET Line
  /\ lost \in SUBSET Line
  /\ crashes \in 0..MaxCrashes

LEMMA InitBase == Init => Base
<1> SUFFICES ASSUME Init PROVE Base
  OBVIOUS
<1>1. /\ InitialFile \in Seq(Line)
      /\ \A i, j \in DOMAIN InitialFile :
           InitialFile[i].username = InitialFile[j].username => i = j
  BY InitialFileAssumption
<1>2. /\ users \in Seq(User)
      /\ DOMAIN users = DOMAIN InitialFile
      /\ \A i \in DOMAIN InitialFile :
           users[i].username = InitialFile[i].username /\ users[i].isLoggedIn = FALSE
  BY <1>1, LoadedAgreement DEF Init, UMInit
<1>3. \A s \in Sockets : ~IsLoggedIn(s)
  BY DEF Init, UMInit, IsLoggedIn
<1>4. UMTypeOK
  BY <1>1, <1>2 DEF Init, UMInit, UMTypeOK
<1>5. WorkerTypeOK
  BY SessionsAssumption DEF Init, WorkerTypeOK, PCs, Replies
<1>6. UniqueUsers
  BY <1>1, <1>2 DEF UniqueUsers
<1>7. SessionAgreement
  <2>1. \A i \in DOMAIN users : users[i].username # NoUser
    <3> SUFFICES ASSUME NEW i \in DOMAIN users PROVE users[i].username # NoUser
      OBVIOUS
    <3>1. users[i] \in User
      BY <1>2, ElementOfSeq
    <3> QED
      BY <3>1, NoUserAssumption DEF User
  <2> QED
    BY <1>2, <1>3, <2>1 DEF SessionAgreement, IsLoggedIn
<1>8. LineOK /\ LoggedOut
  BY <1>3 DEF Init, LineOK, LoggedOut
<1> QED
  BY <1>4, <1>5, <1>6, <1>7, <1>8 DEF Base, TypeOK, WorkerTypeOK

(* A step that leaves the account table alone keeps what Base says of it.  *)
LEMMA AccountsUntouched ==
  ASSUME Base, UNCHANGED umVars
  PROVE  /\ UMTypeOK' /\ UniqueUsers' /\ SessionAgreement'
         /\ \A s \in Sockets : IsLoggedIn(s)' <=> IsLoggedIn(s)
BY DEF Base, TypeOK, umVars, UMTypeOK, UniqueUsers, SessionAgreement, IsLoggedIn

(* The steps that call no method of UserManager that changes an account.    *)
Quiet(s) ==
  \/ Connect(s)
  \/ ReceiveRegister(s)
  \/ ReceiveLogin(s)
  \/ ReceiveLogout(s)
  \/ ReceiveExit(s)
  \/ ReceiveMalformed(s)
  \/ ReadFails(s)
  \/ RegisterOwn(s)
  \/ LoginOwn(s)
  \/ LoginExist(s)
  \/ LoginAvailable(s)
  \/ LogoutOwn(s)
  \/ ExitOwn(s)
  \/ Reply(s)
  \/ ReplyFails(s)
  \/ Cleanup(s)

(* Each worker holds only strings that have passed the checks so far, and  *)
(* no step takes it to a login with its client logged in.                  *)
LEMMA QuietKeepsBase ==
  ASSUME Base, NEW s \in Sockets, Quiet(s)
  PROVE  Base' /\ UNCHANGED umVars
<1> USE DEF Goto, Answer
<1>1. WorkerTypeOK /\ LineOK /\ LoggedOut
  BY DEF Base, TypeOK, WorkerTypeOK
<1>2. /\ Line \subseteq Input
      /\ \A l \in Input : l.username # LongName => l \in Line
  BY DEF Line, Input
<1>3. UNCHANGED umVars
  BY DEF Quiet, Connect, ReceiveRegister, ReceiveLogin, ReceiveLogout, ReceiveExit,
       ReceiveMalformed, ReadFails, RegisterOwn, LoginOwn, LoginExist, LoginAvailable,
       LogoutOwn, ExitOwn, Reply, ReplyFails, Cleanup
<1>4. /\ UMTypeOK' /\ UniqueUsers' /\ SessionAgreement'
      /\ \A t \in Sockets : IsLoggedIn(t)' <=> IsLoggedIn(t)
  BY <1>3, AccountsUntouched
<1>5. SUFFICES WorkerTypeOK' /\ LineOK' /\ LoggedOut'
  BY <1>3, <1>4 DEF Base, TypeOK, WorkerTypeOK
<1>6. CASE Connect(s)
  <2>1. WorkerTypeOK'
    BY <1>1, <1>2, <1>6 DEF Connect, WorkerTypeOK, LineOK, PCs, Replies
  <2>2. LineOK'
    BY <1>1, <1>2, <1>6 DEF Connect, WorkerTypeOK, LineOK
  <2>3. LoggedOut'
    BY <1>1, <1>4, <1>6 DEF Connect, WorkerTypeOK, LoggedOut
  <2> QED
    BY <2>1, <2>2, <2>3
<1>7. CASE ReceiveRegister(s)
  <2>1. WorkerTypeOK'
    BY <1>1, <1>2, <1>7 DEF ReceiveRegister, WorkerTypeOK, LineOK, PCs, Replies
  <2>2. LineOK'
    BY <1>1, <1>2, <1>7 DEF ReceiveRegister, WorkerTypeOK, LineOK
  <2>3. LoggedOut'
    BY <1>1, <1>4, <1>7 DEF ReceiveRegister, WorkerTypeOK, LoggedOut
  <2> QED
    BY <2>1, <2>2, <2>3
<1>8. CASE ReceiveLogin(s)
  <2>1. WorkerTypeOK'
    BY <1>1, <1>2, <1>8 DEF ReceiveLogin, WorkerTypeOK, LineOK, PCs, Replies
  <2>2. LineOK'
    BY <1>1, <1>2, <1>8 DEF ReceiveLogin, WorkerTypeOK, LineOK
  <2>3. LoggedOut'
    BY <1>1, <1>4, <1>8 DEF ReceiveLogin, WorkerTypeOK, LoggedOut
  <2> QED
    BY <2>1, <2>2, <2>3
<1>9. CASE ReceiveLogout(s)
  <2>1. WorkerTypeOK'
    BY <1>1, <1>2, <1>9 DEF ReceiveLogout, WorkerTypeOK, LineOK, PCs, Replies
  <2>2. LineOK'
    BY <1>1, <1>2, <1>9 DEF ReceiveLogout, WorkerTypeOK, LineOK
  <2>3. LoggedOut'
    BY <1>1, <1>4, <1>9 DEF ReceiveLogout, WorkerTypeOK, LoggedOut
  <2> QED
    BY <2>1, <2>2, <2>3
<1>10. CASE ReceiveExit(s)
  <2>1. WorkerTypeOK'
    BY <1>1, <1>2, <1>10 DEF ReceiveExit, WorkerTypeOK, LineOK, PCs, Replies
  <2>2. LineOK'
    BY <1>1, <1>2, <1>10 DEF ReceiveExit, WorkerTypeOK, LineOK
  <2>3. LoggedOut'
    BY <1>1, <1>4, <1>10 DEF ReceiveExit, WorkerTypeOK, LoggedOut
  <2> QED
    BY <2>1, <2>2, <2>3
<1>11. CASE ReceiveMalformed(s)
  <2>1. WorkerTypeOK'
    BY <1>1, <1>2, <1>11 DEF ReceiveMalformed, WorkerTypeOK, LineOK, PCs, Replies
  <2>2. LineOK'
    BY <1>1, <1>2, <1>11 DEF ReceiveMalformed, WorkerTypeOK, LineOK
  <2>3. LoggedOut'
    BY <1>1, <1>4, <1>11 DEF ReceiveMalformed, WorkerTypeOK, LoggedOut
  <2> QED
    BY <2>1, <2>2, <2>3
<1>12. CASE ReadFails(s)
  <2>1. WorkerTypeOK'
    BY <1>1, <1>2, <1>12 DEF ReadFails, WorkerTypeOK, LineOK, PCs, Replies
  <2>2. LineOK'
    BY <1>1, <1>2, <1>12 DEF ReadFails, WorkerTypeOK, LineOK
  <2>3. LoggedOut'
    BY <1>1, <1>4, <1>12 DEF ReadFails, WorkerTypeOK, LoggedOut
  <2> QED
    BY <2>1, <2>2, <2>3
<1>13. CASE RegisterOwn(s)
  <2>1. WorkerTypeOK'
    BY <1>1, <1>2, <1>13 DEF RegisterOwn, WorkerTypeOK, LineOK, PCs, Replies
  <2>2. LineOK'
    BY <1>1, <1>2, <1>13 DEF RegisterOwn, WorkerTypeOK, LineOK
  <2>3. LoggedOut'
    BY <1>1, <1>4, <1>13 DEF RegisterOwn, WorkerTypeOK, LoggedOut
  <2> QED
    BY <2>1, <2>2, <2>3
<1>14. CASE LoginOwn(s)
  <2>1. WorkerTypeOK'
    BY <1>1, <1>2, <1>14 DEF LoginOwn, WorkerTypeOK, LineOK, PCs, Replies
  <2>2. LineOK'
    BY <1>1, <1>2, <1>14 DEF LoginOwn, WorkerTypeOK, LineOK
  <2>3. LoggedOut'
    BY <1>1, <1>4, <1>14 DEF LoginOwn, WorkerTypeOK, LoggedOut
  <2> QED
    BY <2>1, <2>2, <2>3
<1>15. CASE LoginExist(s)
  <2>1. WorkerTypeOK'
    BY <1>1, <1>2, <1>15 DEF LoginExist, WorkerTypeOK, LineOK, PCs, Replies
  <2>2. LineOK'
    BY <1>1, <1>2, <1>15 DEF LoginExist, WorkerTypeOK, LineOK
  <2>3. LoggedOut'
    BY <1>1, <1>4, <1>15 DEF LoginExist, WorkerTypeOK, LoggedOut
  <2> QED
    BY <2>1, <2>2, <2>3
<1>16. CASE LoginAvailable(s)
  <2>1. WorkerTypeOK'
    BY <1>1, <1>2, <1>16 DEF LoginAvailable, WorkerTypeOK, LineOK, PCs, Replies
  <2>2. LineOK'
    BY <1>1, <1>2, <1>16 DEF LoginAvailable, WorkerTypeOK, LineOK
  <2>3. LoggedOut'
    BY <1>1, <1>4, <1>16 DEF LoginAvailable, WorkerTypeOK, LoggedOut
  <2> QED
    BY <2>1, <2>2, <2>3
<1>17. CASE LogoutOwn(s)
  <2>1. WorkerTypeOK'
    BY <1>1, <1>2, <1>17 DEF LogoutOwn, WorkerTypeOK, LineOK, PCs, Replies
  <2>2. LineOK'
    BY <1>1, <1>2, <1>17 DEF LogoutOwn, WorkerTypeOK, LineOK
  <2>3. LoggedOut'
    BY <1>1, <1>4, <1>17 DEF LogoutOwn, WorkerTypeOK, LoggedOut
  <2> QED
    BY <2>1, <2>2, <2>3
<1>18. CASE ExitOwn(s)
  <2>1. WorkerTypeOK'
    BY <1>1, <1>2, <1>18 DEF ExitOwn, WorkerTypeOK, LineOK, PCs, Replies
  <2>2. LineOK'
    BY <1>1, <1>2, <1>18 DEF ExitOwn, WorkerTypeOK, LineOK
  <2>3. LoggedOut'
    BY <1>1, <1>4, <1>18 DEF ExitOwn, WorkerTypeOK, LoggedOut
  <2> QED
    BY <2>1, <2>2, <2>3
<1>19. CASE Reply(s)
  <2>1. WorkerTypeOK'
    BY <1>1, <1>2, <1>19 DEF Reply, WorkerTypeOK, LineOK, PCs, Replies
  <2>2. LineOK'
    BY <1>1, <1>2, <1>19 DEF Reply, WorkerTypeOK, LineOK
  <2>3. LoggedOut'
    BY <1>1, <1>4, <1>19 DEF Reply, WorkerTypeOK, LoggedOut
  <2> QED
    BY <2>1, <2>2, <2>3
<1>20. CASE ReplyFails(s)
  <2>1. WorkerTypeOK'
    BY <1>1, <1>2, <1>20 DEF ReplyFails, WorkerTypeOK, LineOK, PCs, Replies
  <2>2. LineOK'
    BY <1>1, <1>2, <1>20 DEF ReplyFails, WorkerTypeOK, LineOK
  <2>3. LoggedOut'
    BY <1>1, <1>4, <1>20 DEF ReplyFails, WorkerTypeOK, LoggedOut
  <2> QED
    BY <2>1, <2>2, <2>3
<1>21. CASE Cleanup(s)
  <2>1. WorkerTypeOK'
    BY <1>1, <1>2, <1>21 DEF Cleanup, WorkerTypeOK, LineOK, PCs, Replies
  <2>2. LineOK'
    BY <1>1, <1>2, <1>21 DEF Cleanup, WorkerTypeOK, LineOK
  <2>3. LoggedOut'
    BY <1>1, <1>4, <1>21 DEF Cleanup, WorkerTypeOK, LoggedOut
  <2> QED
    BY <2>1, <2>2, <2>3
<1> QED
  BY <1>6, <1>7, <1>8, <1>9, <1>10, <1>11, <1>12, <1>13, <1>14, <1>15, <1>16,
     <1>17, <1>18, <1>19, <1>20, <1>21 DEF Quiet

(* registerUser, loginUser and logoutUser are each one critical section.   *)
Calls(s) == RegisterCall(s) \/ Save(s) \/ LoginCall(s) \/ LogoutCall(s) \/ CleanupLogout(s)

LEMMA CallKeepsBase ==
  ASSUME Base, NEW s \in Sockets, Calls(s)
  PROVE  Base'
<1> USE DEF Goto, Answer
<1>1. /\ WorkerTypeOK /\ LineOK /\ LoggedOut
      /\ UMTypeOK /\ UniqueUsers /\ SessionAgreement
  BY DEF Base, TypeOK, WorkerTypeOK
<1>2. WorkerTypeOK' /\ LineOK'
  <2>1. WorkerTypeOK'
    <3>1. CASE Save(s)
      <4>1. line[s] \in Line
        BY <1>1, <3>1 DEF Save, LineOK
      <4>2. lost' \in SUBSET Line
        BY <1>1, <3>1, <4>1 DEF Save, WorkerTypeOK
      <4> QED
        BY <1>1, <3>1, <4>2 DEF Save, WorkerTypeOK, PCs, Replies
    <3>2. CASE RegisterCall(s) \/ LoginCall(s) \/ LogoutCall(s) \/ CleanupLogout(s)
      BY <1>1, <3>2 DEF RegisterCall, LoginCall, LogoutCall, CleanupLogout,
           WorkerTypeOK, PCs, Replies
    <3> QED
      BY <3>1, <3>2 DEF Calls
  <2>2. LineOK'
    BY <1>1 DEF Calls, RegisterCall, Save, LoginCall, LogoutCall, CleanupLogout,
         WorkerTypeOK, LineOK
  <2> QED
    BY <2>1, <2>2
<1>3. SUFFICES LoggedOut' /\ UMTypeOK' /\ UniqueUsers' /\ SessionAgreement'
  BY <1>2 DEF Base, TypeOK, WorkerTypeOK
<1>4. CASE RegisterCall(s)
  <2>1. line[s] \in Line
    BY <1>1, <1>4 DEF RegisterCall, LineOK
  <2>2. CASE UNCHANGED umVars
    BY <1>1, <1>4, <2>2, AccountsUntouched DEF RegisterCall, LoggedOut, WorkerTypeOK
  <2>3. CASE ~IsAccountExist(line[s].username) /\ RegisterUser(line[s])
    <3>1. UMTypeOK' /\ UniqueUsers' /\ SessionAgreement'
      BY <1>1, <2>1, <2>3, RegisterKeepsAgreement
    <3>2. LoggedOut'
      BY <1>1, <1>4, <2>3 DEF RegisterCall, RegisterUser, LoggedOut, IsLoggedIn, WorkerTypeOK
    <3> QED
      BY <3>1, <3>2
  <2> QED
    BY <1>4, <2>2, <2>3 DEF RegisterCall
<1>5. CASE Save(s)
  <2>1. line[s] \in Line
    BY <1>1, <1>5 DEF Save, LineOK
  <2>2. users' = users /\ clientStatus' = clientStatus
    BY <1>5 DEF Save, SaveUsers, umVars
  <2>3. userFile' \in Seq(Line)
    <3>1. userFile \in Seq(Line)
      BY <1>1 DEF UMTypeOK
    <3>2. CASE userFile' = userFile
      BY <3>1, <3>2
    <3>3. CASE userFile' = Append(userFile, line[s])
      <4>1. Append(userFile, line[s]) \in Seq(Line)
        BY <2>1, <3>1, AppendProperties
      <4> QED
        BY <3>3, <4>1
    <3> QED
      BY <1>5, <3>2, <3>3 DEF Save, SaveUsers, umVars
  <2>4. UMTypeOK' /\ UniqueUsers' /\ SessionAgreement'
    BY <1>1, <2>2, <2>3 DEF UMTypeOK, UniqueUsers, SessionAgreement, IsLoggedIn
  <2>5. LoggedOut'
    BY <1>1, <1>5, <2>2 DEF Save, LoggedOut, IsLoggedIn, WorkerTypeOK
  <2> QED
    BY <2>4, <2>5
<1>6. CASE LoginCall(s)
  <2>1. line[s] \in Line /\ ~IsLoggedIn(s)
    BY <1>1, <1>6 DEF LoginCall, LineOK, LoggedOut
  <2>2. CASE UNCHANGED umVars
    BY <1>1, <1>6, <2>2, AccountsUntouched DEF LoginCall, LoggedOut, WorkerTypeOK
  <2>3. CASE /\ LoginAccepted(line[s].username, line[s].password)
             /\ LoginUser(s, line[s].username)
    <3>1. line[s].username \in Names
      BY <2>1 DEF Line
    <3>2. UMTypeOK' /\ UniqueUsers' /\ SessionAgreement'
      BY <1>1, <2>1, <2>3, <3>1, LoginKeepsAgreement
    <3>3. LoggedOut'
      BY <1>1, <1>6, <2>3 DEF LoginCall, LoginUser, LoggedOut, IsLoggedIn, WorkerTypeOK, UMTypeOK
    <3> QED
      BY <3>2, <3>3
  <2> QED
    BY <1>6, <2>2, <2>3 DEF LoginCall
<1>7. CASE LogoutCall(s) \/ CleanupLogout(s)
  <2>1. LogoutUser(s)
    BY <1>7 DEF LogoutCall, CleanupLogout
  <2>2. /\ UMTypeOK' /\ UniqueUsers' /\ SessionAgreement'
        /\ \A t \in Sockets :
             clientStatus'[t] = IF t = s THEN NoUser ELSE clientStatus[t]
    BY <1>1, <2>1, LogoutKeepsAgreement
  <2>3. LoggedOut'
    BY <1>1, <1>7, <2>2 DEF LogoutCall, CleanupLogout, LoggedOut, IsLoggedIn, WorkerTypeOK
  <2> QED
    BY <2>2, <2>3
<1> QED
  BY <1>4, <1>5, <1>6, <1>7 DEF Calls

-----------------------------------------------------------------------------
(* The file.                                                               *)

(* Steps after which no name is missing from the accounts and no worker is *)
(* newly about to append.                                                  *)
LEMMA FileFrame ==
  ASSUME FileOK, userFile' = userFile,
         \A k \in DOMAIN users : \E j \in DOMAIN users' : users'[j].username = users[k].username,
         \A t \in Sockets : pc'[t] = "saveUsers" => pc[t] = "saveUsers" /\ line'[t] = line[t]
  PROVE  FileOK'
<1>1. \A i \in DOMAIN userFile' :
        \E k \in DOMAIN users' : users'[k].username = userFile'[i].username
  BY DEF FileOK
<1>2. \A s \in Sockets : pc'[s] = "saveUsers" =>
        /\ \A i \in DOMAIN userFile' : userFile'[i].username # line'[s].username
        /\ \E k \in DOMAIN users' : users'[k].username = line'[s].username
  BY DEF FileOK
<1>3. \A s, t \in Sockets :
        pc'[s] = "saveUsers" /\ pc'[t] = "saveUsers" /\ line'[s].username = line'[t].username
          => s = t
  BY DEF FileOK
<1> QED
  BY <1>1, <1>2, <1>3 DEF FileOK

(* Steps that promise nothing new.                                         *)
LEMMA AckFrame ==
  ASSUME AckOK, userFile' = userFile, acked' = acked, lost' = lost,
         \A t \in Sockets : reply'[t] = "Registration successful"
                             => reply[t] = "Registration successful" /\ line'[t] = line[t]
  PROVE  AckOK'
BY DEF AckOK, Settled, InFile

LEMMA RegisterKeepsFile ==
  ASSUME Base, FileOK, NEW s \in Sockets, RegisterCall(s)
  PROVE  FileOK'
<1> USE DEF Goto, Answer
<1>1. UMTypeOK /\ UniqueUsers /\ SessionAgreement /\ line[s] \in Line /\ WorkerTypeOK
  BY DEF Base, TypeOK, WorkerTypeOK, LineOK, RegisterCall
<1>2. CASE UNCHANGED umVars /\ pc' = [pc EXCEPT ![s] = "reply"]
  BY <1>1, <1>2, FileFrame DEF RegisterCall, umVars, WorkerTypeOK
<1>3. CASE /\ ~IsAccountExist(line[s].username) /\ RegisterUser(line[s])
           /\ pc' = [pc EXCEPT ![s] = "saveUsers"]
  <2>1. /\ \E k \in DOMAIN users' : users'[k].username = line[s].username
        /\ \A i \in DOMAIN users : i \in DOMAIN users' /\ users'[i] = users[i]
    BY <1>1, <1>3, RegisterKeepsAgreement
  <2>2. \A i \in DOMAIN users : users[i].username # line[s].username
    BY <1>3 DEF IsAccountExist, Entries
  <2>3. line' = line /\ userFile' = userFile
    BY <1>3 DEF RegisterCall, RegisterUser
  <2>4. \A t \in Sockets : pc'[t] = IF t = s THEN "saveUsers" ELSE pc[t]
    BY <1>1, <1>3 DEF WorkerTypeOK
  <2>5. \A i \in DOMAIN userFile :
          /\ \E k \in DOMAIN users' : users'[k].username = userFile[i].username
          /\ userFile[i].username # line[s].username
    BY <2>1, <2>2 DEF FileOK
  <2>6. \A t \in Sockets : t # s /\ pc'[t] = "saveUsers" =>
          /\ pc[t] = "saveUsers"
          /\ line[t].username # line[s].username
          /\ \E k \in DOMAIN users' : users'[k].username = line[t].username
    BY <2>1, <2>2, <2>4 DEF FileOK
  <2> QED
    BY <2>1, <2>3, <2>4, <2>5, <2>6 DEF FileOK
<1> QED
  BY <1>2, <1>3 DEF RegisterCall

LEMMA SaveKeepsFile ==
  ASSUME Base, FileOK, NEW s \in Sockets, Save(s)
  PROVE  FileOK' /\ Settled(line[s])' /\ \A l : Settled(l) => Settled(l)'
<1> USE DEF Goto, Answer
<1>1. userFile \in Seq(Line) /\ line[s] \in Line /\ WorkerTypeOK
  BY DEF Base, TypeOK, UMTypeOK, WorkerTypeOK, LineOK, Save
<1>2. /\ line' = line /\ users' = users /\ pc[s] = "saveUsers"
      /\ \A t \in Sockets : pc'[t] = IF t = s THEN "reply" ELSE pc[t]
  BY <1>1 DEF Save, SaveUsers, umVars, WorkerTypeOK
<1>3. CASE UNCHANGED umVars /\ lost' = lost \cup {line[s]}
  <2>1. FileOK'
    BY <1>2, <1>3, FileFrame DEF umVars
  <2> QED
    BY <1>2, <1>3, <2>1 DEF umVars, Settled, InFile
<1>4. CASE userFile' = Append(userFile, line[s]) /\ lost' = lost \ {line[s]}
  <2> DEFINE m == Len(userFile) + 1
  <2>1. /\ DOMAIN userFile = 1..Len(userFile) /\ Len(userFile) \in Nat
        /\ DOMAIN userFile' = 1..m
        /\ \A i \in DOMAIN userFile : userFile'[i] = userFile[i]
        /\ userFile'[m] = line[s]
    BY <1>1, <1>4, AppendProperties, LenProperties
  <2>2. m \in DOMAIN userFile' /\ \A i \in DOMAIN userFile' : i \in DOMAIN userFile \/ i = m
    BY <2>1
  <2>3. \A i \in DOMAIN userFile : i \in DOMAIN userFile'
    BY <2>1
  <2> HIDE DEF m
  <2>4. \A i, j \in DOMAIN userFile' : userFile'[i].username = userFile'[j].username => i = j
    BY <1>2, <2>1, <2>2 DEF FileOK
  <2>5. \A i \in DOMAIN userFile' :
          \E k \in DOMAIN users' : users'[k].username = userFile'[i].username
    BY <1>2, <2>1, <2>2 DEF FileOK
  <2>6. \A t \in Sockets : pc'[t] = "saveUsers" =>
          /\ \A i \in DOMAIN userFile' : userFile'[i].username # line'[t].username
          /\ \E k \in DOMAIN users' : users'[k].username = line'[t].username
    BY <1>2, <2>1, <2>2 DEF FileOK
  <2>7. FileOK'
    BY <1>2, <2>4, <2>5, <2>6 DEF FileOK
  <2>8. InFile(line[s])'
    BY <1>2, <2>1, <2>2 DEF InFile
  <2>9. \A l : InFile(l) => InFile(l)'
    BY <2>1, <2>3 DEF InFile
  <2>10. \A l : Settled(l) => Settled(l)'
    BY <1>2, <1>4, <2>8, <2>9 DEF Settled
  <2> QED
    BY <2>7, <2>8, <2>10 DEF Settled
<1> QED
  BY <1>3, <1>4 DEF Save, SaveUsers

LEMMA QuietKeepsFile ==
  ASSUME Base, FileOK, AckOK, NEW s \in Sockets, Quiet(s)
  PROVE  FileOK' /\ AckOK'
<1> USE DEF Goto, Answer
<1>1. WorkerTypeOK /\ LineOK
  BY DEF Base, TypeOK, WorkerTypeOK
<1>2. users' = users /\ userFile' = userFile
  BY QuietKeepsBase DEF umVars
<1>3. \A t \in Sockets : pc'[t] = "saveUsers" => pc[t] = "saveUsers" /\ line'[t] = line[t]
  BY <1>1 DEF Quiet, Connect, ReceiveRegister, ReceiveLogin, ReceiveLogout,
       ReceiveExit, ReceiveMalformed, ReadFails, RegisterOwn, LoginOwn, LoginExist,
       LoginAvailable, LogoutOwn, ExitOwn, Reply, ReplyFails, Cleanup, WorkerTypeOK
<1>4. FileOK'
  BY <1>2, <1>3, FileFrame
<1>5. \A t \in Sockets : reply'[t] = "Registration successful"
                         => reply[t] = "Registration successful" /\ line'[t] = line[t]
  BY <1>1 DEF Quiet, Connect, ReceiveRegister, ReceiveLogin, ReceiveLogout,
       ReceiveExit, ReceiveMalformed, ReadFails, RegisterOwn, LoginOwn, LoginExist,
       LoginAvailable, LogoutOwn, ExitOwn, Reply, ReplyFails, Cleanup, WorkerTypeOK, LineOK
<1>6. CASE acked' = acked /\ lost' = lost
  BY <1>2, <1>5, <1>6, <1>4, AckFrame
<1>7. CASE /\ acked' = acked \cup {line[s]} /\ lost' = lost
           /\ reply[s] = "Registration successful"
  BY <1>2, <1>4, <1>5, <1>7 DEF AckOK, Settled, InFile
<1> QED
  BY <1>6, <1>7 DEF Quiet, Connect, ReceiveRegister, ReceiveLogin, ReceiveLogout,
       ReceiveExit, ReceiveMalformed, ReadFails, RegisterOwn, LoginOwn, LoginExist,
       LoginAvailable, LogoutOwn, ExitOwn, Reply, ReplyFails, Cleanup

LEMMA CallKeepsFile ==
  ASSUME Base, FileOK, AckOK, NEW s \in Sockets, Calls(s)
  PROVE  FileOK' /\ AckOK'
<1> USE DEF Goto, Answer
<1>1. WorkerTypeOK /\ LineOK /\ UMTypeOK /\ UniqueUsers /\ SessionAgreement
  BY DEF Base, TypeOK, WorkerTypeOK
<1>2. CASE RegisterCall(s)
  <2>1. FileOK'
    BY <1>2, RegisterKeepsFile
  <2>2. AckOK'
    BY <1>1, <1>2, AckFrame DEF RegisterCall, RegisterUser, umVars, WorkerTypeOK
  <2> QED
    BY <2>1, <2>2
<1>3. CASE Save(s)
  <2>1. FileOK' /\ Settled(line[s])' /\ \A l : Settled(l) => Settled(l)'
    BY <1>3, SaveKeepsFile
  <2>2. /\ acked' = acked /\ line' = line
        /\ \A t \in Sockets : reply'[t] = IF t = s THEN "Registration successful" ELSE reply[t]
    BY <1>1, <1>3 DEF Save, WorkerTypeOK
  <2>3. \A l \in acked' : Settled(l)'
    BY <2>1, <2>2 DEF AckOK
  <2>4. ASSUME NEW t \in Sockets, reply'[t] = "Registration successful"
        PROVE  Settled(line[t])'
    BY <2>1, <2>2, <2>4 DEF AckOK, Settled, InFile
  <2> QED
    BY <2>1, <2>3, <2>4 DEF AckOK, Settled, InFile
<1>4. CASE LoginCall(s)
  <2>1. userFile' = userFile
    BY <1>4 DEF LoginCall, LoginUser, umVars
  <2>2. \A k \in DOMAIN users :
          k \in DOMAIN users' /\ users'[k].username = users[k].username
    <3>1. CASE UNCHANGED umVars
      BY <3>1 DEF umVars
    <3>2. CASE /\ LoginAccepted(line[s].username, line[s].password)
               /\ LoginUser(s, line[s].username)
      <4> DEFINE e == Entry(line[s].username)
      <4>1. e \in DOMAIN users
        BY <1>1, <3>2, EntryIsTheEntry DEF LoginAccepted, UMTypeOK
      <4>2. users' = [users EXCEPT ![e].isLoggedIn = TRUE]
        BY <3>2 DEF LoginUser
      <4> HIDE DEF e
      <4> QED
        BY <1>1, <4>1, <4>2, SetFlag DEF UMTypeOK
    <3> QED
      BY <1>4, <3>1, <3>2 DEF LoginCall
  <2>3. FileOK'
    BY <1>1, <1>4, <2>1, <2>2, FileFrame DEF LoginCall, WorkerTypeOK
  <2>4. AckOK'
    BY <1>1, <1>4, <2>1, AckFrame DEF LoginCall, WorkerTypeOK
  <2> QED
    BY <2>3, <2>4
<1>5. CASE LogoutCall(s) \/ CleanupLogout(s)
  <2>1. LogoutUser(s)
    BY <1>5 DEF LogoutCall, CleanupLogout
  <2>2. \A k \in DOMAIN users :
          k \in DOMAIN users' /\ users'[k].username = users[k].username
    BY <1>1, <2>1, LogoutKeepsAgreement
  <2>3. userFile' = userFile
    BY <2>1 DEF LogoutUser
  <2>4. FileOK'
    BY <1>1, <1>5, <2>2, <2>3, FileFrame DEF LogoutCall, CleanupLogout, WorkerTypeOK
  <2>5. AckOK'
    BY <1>1, <1>5, <2>3, AckFrame DEF LogoutCall, CleanupLogout, WorkerTypeOK
  <2> QED
    BY <2>4, <2>5
<1> QED
  BY <1>2, <1>3, <1>4, <1>5 DEF Calls

-----------------------------------------------------------------------------
(* The inductive invariant.                                                *)
IInv == Base /\ FileOK /\ AckOK

LEMMA InitIInv == Init => IInv
<1> SUFFICES ASSUME Init PROVE FileOK /\ AckOK
  BY InitBase DEF IInv
<1>1. /\ DOMAIN users = DOMAIN InitialFile
      /\ \A i \in DOMAIN InitialFile : users[i].username = InitialFile[i].username
  BY InitialFileAssumption, LoadedAgreement DEF Init, UMInit
<1>2. userFile = InitialFile /\ \A s \in Sockets : pc[s] = "closed" /\ reply[s] = "none"
  BY DEF Init, UMInit
<1>3. FileOK
  BY <1>1, <1>2, InitialFileAssumption DEF FileOK
<1>4. AckOK
  BY <1>2 DEF Init, AckOK
<1> QED
  BY <1>3, <1>4

(* loadUsers on the file the process has left behind.                      *)
LEMMA RestartKeepsIInv == IInv /\ Restart => IInv'
<1> SUFFICES ASSUME IInv, Restart PROVE IInv'
  OBVIOUS
<1>1. /\ userFile \in Seq(Line)
      /\ \A i, j \in DOMAIN userFile : userFile[i].username = userFile[j].username => i = j
  BY DEF IInv, Base, TypeOK, UMTypeOK, FileOK
<1>2. /\ users' \in Seq(User)
      /\ DOMAIN users' = DOMAIN userFile
      /\ \A i \in DOMAIN userFile :
           users'[i].username = userFile[i].username /\ users'[i].isLoggedIn = FALSE
  BY <1>1, LoadedAgreement DEF Restart, UMRestart
<1>3. /\ userFile' = userFile /\ acked' = acked /\ lost' = lost
      /\ clientStatus' = [s \in Sockets |-> NoUser]
      /\ pc' = [s \in Sockets |-> "closed"]
      /\ line' = [s \in Sockets |-> NoLine]
      /\ reply' = [s \in Sockets |-> "none"]
  BY DEF Restart, UMRestart
<1>4. UMTypeOK'
  BY <1>1, <1>2, <1>3 DEF UMTypeOK
<1>5. WorkerTypeOK'
  <2>1. crashes' \in 0..MaxCrashes
    BY SessionsAssumption DEF IInv, Base, TypeOK, Restart
  <2>2. acked' \in SUBSET Line /\ lost' \in SUBSET Line
    BY <1>3 DEF IInv, Base, TypeOK
  <2> QED
    BY <1>3, <2>1, <2>2 DEF WorkerTypeOK, PCs, Replies
<1>6. UniqueUsers'
  BY <1>1, <1>2 DEF UniqueUsers
<1>7. SessionAgreement'
  <2>1. \A i \in DOMAIN users' : users'[i].username # NoUser
    <3> SUFFICES ASSUME NEW i \in DOMAIN users' PROVE users'[i].username # NoUser
      OBVIOUS
    <3>1. users'[i] \in User
      BY <1>2, ElementOfSeq
    <3> QED
      BY <3>1, NoUserAssumption DEF User
  <2> QED
    BY <1>2, <1>3, <2>1 DEF SessionAgreement, IsLoggedIn
<1>8. LineOK' /\ LoggedOut'
  BY <1>3 DEF LineOK, LoggedOut, IsLoggedIn
<1>9. FileOK'
  BY <1>1, <1>2, <1>3 DEF FileOK
<1>10. AckOK'
  BY <1>3 DEF IInv, AckOK, Settled, InFile
<1> QED
  BY <1>4, <1>5, <1>6, <1>7, <1>8, <1>9, <1>10 DEF IInv, Base, TypeOK, WorkerTypeOK

LEMMA NextIInv == IInv /\ [Next]_vars => IInv'
<1> SUFFICES ASSUME IInv, [Next]_vars PROVE IInv'
  OBVIOUS
<1>1. CASE Restart
  BY <1>1, RestartKeepsIInv
<1>2. ASSUME NEW s \in Sockets, Worker(s) PROVE IInv'
  <2>1. CASE Quiet(s)
    BY <2>1, QuietKeepsBase, QuietKeepsFile DEF IInv
  <2>2. CASE Calls(s)
    BY <2>2, CallKeepsBase, CallKeepsFile DEF IInv
  <2> QED
    BY <1>2, <2>1, <2>2 DEF Worker, Quiet, Calls
<1>3. CASE UNCHANGED vars
  <2>1. UNCHANGED <<users, clientStatus, userFile, pc, line, reply, acked, lost, crashes>>
    BY <1>3 DEF vars, umVars, workerVars
  <2>2. Base'
    BY <2>1 DEF IInv, Base, TypeOK, UMTypeOK, LineOK, UniqueUsers, LoggedOut,
         SessionAgreement, IsLoggedIn
  <2>3. FileOK'
    BY <2>1 DEF IInv, FileOK
  <2>4. AckOK'
    BY <2>1 DEF IInv, AckOK, Settled, InFile
  <2> QED
    BY <2>2, <2>3, <2>4 DEF IInv
<1> QED
  BY <1>1, <1>2, <1>3 DEF Next

LEMMA SpecIInv == Spec => []IInv
BY InitIInv, NextIInv, PTL DEF Spec

-----------------------------------------------------------------------------
(* The theorems.                                                           *)

(* The variables keep their types: every reply is one of the messages and  *)
(* no name or password over the limit reaches the table or the file.       *)
THEOREM SessionsTypeOK == Spec => []TypeOK
<1>1. IInv => TypeOK
  BY DEF IInv, Base
<1> QED
  BY <1>1, SpecIInv, PTL

(* registerUser under its mutex and saveUsers outside it: no two accounts  *)
(* of one name, in memory or in users.txt, whatever the interleaving.      *)
THEOREM SessionsUniqueNames == Spec => []UniqueNames
<1>1. IInv => UniqueNames
  BY DEF IInv, Base, UniqueUsers, FileOK, UniqueNames
<1> QED
  BY <1>1, SpecIInv, PTL

(* handleClient checks isLoggedIn several steps before it calls loginUser: *)
(* the flags and the map still never disagree, and no account is in use    *)
(* on two connections.                                                     *)
THEOREM SessionsAgree == Spec => []SessionAgreement
<1>1. IInv => SessionAgreement
  BY DEF IInv, Base
<1> QED
  BY <1>1, SpecIInv, PTL

(* However a connection ends, the next one on its descriptor starts with   *)
(* no session.                                                             *)
THEOREM SessionsStartFresh == Spec => []NoInheritedLogin
<1>1. IInv => NoInheritedLogin
  BY DEF IInv, Base, LoggedOut, NoInheritedLogin
<1> QED
  BY <1>1, SpecIInv, PTL

(* An account that was announced, and whose line saveUsers could append,   *)
(* is in users.txt, across any number of restarts.                         *)
THEOREM SessionsDurable == Spec => []AckedDurable
<1>1. IInv => AckedDurable
  BY DEF IInv, AckOK, Settled, InFile, AckedDurable
<1> QED
  BY <1>1, SpecIInv, PTL

-----------------------------------------------------------------------------
(* The account service implements Accounts.                                *)

Registered == {users[i].username : i \in DOMAIN users}
Durable    == {userFile[i].username : i \in DOMAIN userFile}
Owner      == [n \in Names |-> OwnerOf(n)]

(* At most one socket maps to a name, so the choice in OwnerOf is none.    *)
LEMMA OwnerIs ==
  ASSUME SessionAgreement, NEW n \in Names
  PROVE  /\ \A s \in Sockets : clientStatus[s] = n => OwnerOf(n) = s
         /\ (\A s \in Sockets : clientStatus[s] # n) => OwnerOf(n) = NoSocket
<1>1. n # NoUser
  BY NoUserAssumption
<1> QED
  BY <1>1 DEF SessionAgreement, IsLoggedIn, OwnerOf

LEMMA OwnerIsNext ==
  ASSUME SessionAgreement', NEW n \in Names
  PROVE  /\ \A s \in Sockets : clientStatus'[s] = n => OwnerOf(n)' = s
         /\ (\A s \in Sockets : clientStatus'[s] # n) => OwnerOf(n)' = NoSocket
<1>1. n # NoUser
  BY NoUserAssumption
<1> QED
  BY <1>1 DEF SessionAgreement, IsLoggedIn, OwnerOf

LEMMA OwnerUntouched ==
  ASSUME SessionAgreement, SessionAgreement', clientStatus' = clientStatus
  PROVE  Owner' = Owner
<1>1. ASSUME NEW n \in Names PROVE OwnerOf(n)' = OwnerOf(n)
  <2>1. CASE \E s \in Sockets : clientStatus[s] = n
    BY <2>1, OwnerIs, OwnerIsNext
  <2>2. CASE \A s \in Sockets : clientStatus[s] # n
    BY <2>2, OwnerIs, OwnerIsNext
  <2> QED
    BY <2>1, <2>2
<1> QED
  BY <1>1 DEF Owner

LEMMA RegisterImplements ==
  ASSUME Base, SessionAgreement', NEW s \in Sockets, RegisterCall(s)
  PROVE  \/ UNCHANGED <<Registered, Durable, Owner>>
         \/ /\ line[s].username \in Names \ Registered
            /\ Registered' = Registered \cup {line[s].username}
            /\ UNCHANGED <<Durable, Owner>>
<1>1. UMTypeOK /\ UniqueUsers /\ SessionAgreement /\ line[s] \in Line
  BY DEF Base, TypeOK, LineOK, RegisterCall
<1>2. clientStatus' = clientStatus /\ userFile' = userFile
  BY DEF RegisterCall, RegisterUser, umVars
<1>3. UNCHANGED <<Durable, Owner>>
  BY <1>1, <1>2, OwnerUntouched DEF Durable
<1>4. CASE users' = users
  BY <1>3, <1>4 DEF Registered
<1>5. CASE ~IsAccountExist(line[s].username) /\ RegisterUser(line[s])
  <2>1. line[s].username \in Names \ Registered
    BY <1>1, <1>5 DEF Line, Registered, IsAccountExist, Entries
  <2> DEFINE m == Len(users) + 1
  <2>2. users \in Seq(User) /\ NewUser(line[s]) \in User
    BY <1>1 DEF UMTypeOK, NewUser, User, Line
  <2>3. users' = Append(users, NewUser(line[s]))
    BY <1>5 DEF RegisterUser
  <2>4. /\ DOMAIN users = 1..Len(users) /\ Len(users) \in Nat
        /\ DOMAIN users' = 1..m
        /\ \A i \in DOMAIN users : users'[i] = users[i]
        /\ users'[m] = NewUser(line[s])
    BY <2>2, <2>3, AppendProperties, LenProperties
  <2>5. DOMAIN users' = DOMAIN users \cup {m}
    BY <2>4
  <2>6. users'[m].username = line[s].username
    BY <2>4 DEF NewUser
  <2> HIDE DEF m
  <2>7. \A i \in DOMAIN users : users'[i].username = users[i].username
    BY <2>4
  <2>8. Registered' = Registered \cup {line[s].username}
    <3>1. \A x : x \in Registered' <=> \E i \in DOMAIN users' : users'[i].username = x
      BY DEF Registered
    <3>2. \A x : x \in Registered <=> \E i \in DOMAIN users : users[i].username = x
      BY DEF Registered
    <3> QED
      BY <3>1, <3>2, <2>5, <2>6, <2>7
  <2> QED
    BY <1>3, <2>1, <2>8
<1> QED
  BY <1>4, <1>5 DEF RegisterCall, umVars

LEMMA SaveImplements ==
  ASSUME IInv, SessionAgreement', NEW s \in Sockets, Save(s)
  PROVE  \/ UNCHANGED <<Registered, Durable, Owner>>
         \/ /\ line[s].username \in Names \cap Registered
            /\ Durable' = Durable \cup {line[s].username}
            /\ UNCHANGED <<Registered, Owner>>
<1>1. UMTypeOK /\ SessionAgreement /\ line[s] \in Line /\ FileOK
  BY DEF IInv, Base, TypeOK, LineOK, Save
<1>2. clientStatus' = clientStatus /\ users' = users
  BY DEF Save, SaveUsers, umVars
<1>3. UNCHANGED <<Registered, Owner>>
  BY <1>1, <1>2, OwnerUntouched DEF Registered
<1>4. CASE userFile' = userFile
  BY <1>3, <1>4 DEF Durable
<1>5. CASE userFile' = Append(userFile, line[s])
  <2>1. line[s].username \in Names \cap Registered
    BY <1>1 DEF FileOK, Registered, Line, Save
  <2> DEFINE m == Len(userFile) + 1
  <2>2. /\ DOMAIN userFile = 1..Len(userFile) /\ Len(userFile) \in Nat
        /\ DOMAIN userFile' = 1..m
        /\ \A i \in DOMAIN userFile : userFile'[i] = userFile[i]
        /\ userFile'[m] = line[s]
    BY <1>1, <1>5, AppendProperties, LenProperties DEF UMTypeOK
  <2>3. DOMAIN userFile' = DOMAIN userFile \cup {m}
    BY <2>2
  <2> HIDE DEF m
  <2>4. Durable' = Durable \cup {line[s].username}
    <3>1. Durable' = {userFile'[i].username : i \in DOMAIN userFile \cup {m}}
      BY <2>3 DEF Durable
    <3>2. \A i \in DOMAIN userFile : userFile'[i].username = userFile[i].username
      BY <2>2
    <3>3. userFile'[m].username = line[s].username
      BY <2>2
    <3>4. Durable' = {userFile'[i].username : i \in DOMAIN userFile} \cup {userFile'[m].username}
      BY <3>1
    <3>5. {userFile'[i].username : i \in DOMAIN userFile} = Durable
      BY <3>2 DEF Durable
    <3> QED
      BY <3>3, <3>4, <3>5
  <2> QED
    BY <1>3, <2>1, <2>4
<1> QED
  BY <1>4, <1>5 DEF Save, SaveUsers, umVars

LEMMA LoginImplements ==
  ASSUME Base, SessionAgreement', NEW s \in Sockets, LoginCall(s)
  PROVE  \/ UNCHANGED <<Registered, Durable, Owner>>
         \/ \E n \in Names :
              /\ n \in Registered
              /\ Owner[n] = NoSocket
              /\ \A m \in Names : Owner[m] # s
              /\ Owner' = [Owner EXCEPT ![n] = s]
              /\ UNCHANGED <<Registered, Durable>>
<1>1. /\ UMTypeOK /\ UniqueUsers /\ SessionAgreement
      /\ line[s] \in Line /\ ~IsLoggedIn(s)
  BY DEF Base, TypeOK, LineOK, LoggedOut, LoginCall
<1>2. userFile' = userFile
  BY DEF LoginCall, LoginUser, umVars
<1>3. CASE UNCHANGED umVars
  BY <1>1, <1>3, OwnerUntouched DEF Registered, Durable, umVars
<1>4. CASE /\ LoginAccepted(line[s].username, line[s].password)
           /\ LoginUser(s, line[s].username)
  <2> DEFINE n == line[s].username
             k == Entry(n)
  <2>1. /\ k \in DOMAIN users
        /\ users[k].username = n
        /\ ~users[k].isLoggedIn
    BY <1>1, <1>4, EntryIsTheEntry DEF LoginAccepted, UMTypeOK
  <2>2. n \in Names /\ n # NoUser
    BY <1>1, NoUserAssumption DEF Line
  <2>3. users' = [users EXCEPT ![k].isLoggedIn = TRUE]
    BY <1>4 DEF LoginUser
  <2>4. \A t \in Sockets : clientStatus'[t] = IF t = s THEN n ELSE clientStatus[t]
    BY <1>1, <1>4 DEF LoginUser, UMTypeOK
  <2> HIDE DEF n, k
  <2>5. /\ DOMAIN users' = DOMAIN users
        /\ \A i \in DOMAIN users : users'[i].username = users[i].username
    BY <1>1, <2>1, <2>3, SetFlag DEF UMTypeOK
  <2>6. UNCHANGED <<Registered, Durable>>
    BY <1>2, <2>5 DEF Registered, Durable
  <2>7. \A t \in Sockets : clientStatus[t] # n
    BY <1>1, <2>1 DEF SessionAgreement
  <2>8. Owner[n] = NoSocket
    BY <1>1, <2>2, <2>7, OwnerIs DEF Owner
  <2>9. ASSUME NEW m \in Names PROVE OwnerOf(m) # s
    <3>1. clientStatus[s] # m
      BY <1>1, NoUserAssumption DEF IsLoggedIn
    <3>2. CASE \E t \in Sockets : clientStatus[t] = m
      BY <1>1, <3>1, <3>2, OwnerIs
    <3>3. CASE \A t \in Sockets : clientStatus[t] # m
      BY <1>1, <3>3, OwnerIs, SocketsAssumption DEF NoSocket
    <3> QED
      BY <3>2, <3>3
  <2>10. ASSUME NEW m \in Names
         PROVE  OwnerOf(m)' = IF m = n THEN s ELSE OwnerOf(m)
    <3>1. CASE m = n
      BY <2>4, <3>1, OwnerIsNext
    <3>2. CASE m # n
      <4>1. clientStatus[s] # m
        BY <1>1, NoUserAssumption DEF IsLoggedIn
      <4>2. \A t \in Sockets : clientStatus'[t] = m <=> clientStatus[t] = m
        BY <2>4, <3>2, <4>1
      <4>3. CASE \E t \in Sockets : clientStatus[t] = m
        BY <1>1, <3>2, <4>2, <4>3, OwnerIs, OwnerIsNext
      <4>4. CASE \A t \in Sockets : clientStatus[t] # m
        BY <1>1, <3>2, <4>2, <4>4, OwnerIs, OwnerIsNext
      <4> QED
        BY <4>3, <4>4
    <3> QED
      BY <3>1, <3>2
  <2>11. Owner' = [Owner EXCEPT ![n] = s]
    BY <2>2, <2>10 DEF Owner
  <2>12. n \in Registered
    BY <2>1 DEF Registered
  <2> QED
    BY <2>2, <2>6, <2>8, <2>9, <2>11, <2>12 DEF Owner
<1> QED
  BY <1>3, <1>4 DEF LoginCall

LEMMA LogoutImplements ==
  ASSUME Base, SessionAgreement', NEW s \in Sockets, LogoutUser(s)
  PROVE  \/ UNCHANGED <<Registered, Durable, Owner>>
         \/ \E n \in Names :
              /\ Owner' = [Owner EXCEPT ![n] = NoSocket]
              /\ UNCHANGED <<Registered, Durable>>
<1>1. UMTypeOK /\ UniqueUsers /\ SessionAgreement
  BY DEF Base, TypeOK
<1>2. /\ \A t \in Sockets :
           clientStatus'[t] = IF t = s THEN NoUser ELSE clientStatus[t]
      /\ DOMAIN users' = DOMAIN users
      /\ \A i \in DOMAIN users : users'[i].username = users[i].username
  BY <1>1, LogoutKeepsAgreement
<1>3. UNCHANGED <<Registered, Durable>>
  BY <1>2 DEF LogoutUser, Registered, Durable
<1>4. CASE ~IsLoggedIn(s)
  <2>1. clientStatus' = clientStatus
    BY <1>1, <1>4 DEF LogoutUser, UMTypeOK, IsLoggedIn
  <2> QED
    BY <1>1, <1>3, <2>1, OwnerUntouched
<1>5. CASE IsLoggedIn(s)
  <2> DEFINE n == clientStatus[s]
  <2>1. n \in Names
    BY <1>1, <1>5 DEF UMTypeOK, IsLoggedIn
  <2>2. \A t \in Sockets : clientStatus[t] = n => t = s
    BY <1>1, <1>5 DEF SessionAgreement
  <2> HIDE DEF n
  <2>3. ASSUME NEW m \in Names
        PROVE  OwnerOf(m)' = IF m = n THEN NoSocket ELSE OwnerOf(m)
    <3>0. m # NoUser
      BY NoUserAssumption
    <3>1. CASE m = n
      <4>1. \A t \in Sockets : clientStatus'[t] # m
        BY <1>2, <2>2, <3>0, <3>1
      <4> QED
        BY <3>1, <4>1, OwnerIsNext
    <3>2. CASE m # n
      <4>1. \A t \in Sockets : clientStatus'[t] = m <=> clientStatus[t] = m
        BY <1>2, <3>0, <3>2 DEF n
      <4>2. CASE \E t \in Sockets : clientStatus[t] = m
        BY <1>1, <3>2, <4>1, <4>2, OwnerIs, OwnerIsNext
      <4>3. CASE \A t \in Sockets : clientStatus[t] # m
        BY <1>1, <3>2, <4>1, <4>3, OwnerIs, OwnerIsNext
      <4> QED
        BY <4>2, <4>3
    <3> QED
      BY <3>1, <3>2
  <2>4. Owner' = [Owner EXCEPT ![n] = NoSocket]
    BY <2>1, <2>3 DEF Owner
  <2> QED
    BY <1>3, <2>1, <2>4
<1> QED
  BY <1>4, <1>5

LEMMA RestartImplements ==
  ASSUME IInv, SessionAgreement', Restart
  PROVE  /\ Registered' = Durable
         /\ Owner' = [n \in Names |-> NoSocket]
         /\ Durable' = Durable
<1>1. userFile' = userFile /\ userFile \in Seq(Line)
  BY DEF Restart, UMRestart, IInv, Base, TypeOK, UMTypeOK
<1>2. /\ DOMAIN users' = DOMAIN userFile
      /\ \A i \in DOMAIN userFile : users'[i].username = userFile[i].username
  BY <1>1, LoadedAgreement DEF Restart, UMRestart, IInv, FileOK
<1>3. \A n \in Names, s \in Sockets : clientStatus'[s] # n
  BY NoUserAssumption DEF Restart, UMRestart
<1>4. \A n \in Names : OwnerOf(n)' = NoSocket
  BY <1>3, OwnerIsNext
<1> QED
  BY <1>1, <1>2, <1>4 DEF Registered, Durable, Owner

LEMMA InitImplements == Init => Abstract!Init
<1> SUFFICES ASSUME Init PROVE Abstract!Init
  OBVIOUS
<1>1. /\ userFile = InitialFile
      /\ DOMAIN users = DOMAIN InitialFile
      /\ \A i \in DOMAIN InitialFile : users[i].username = InitialFile[i].username
  BY InitialFileAssumption, LoadedAgreement DEF Init, UMInit
<1>2. Durable = Registered
  BY <1>1 DEF Durable, Registered
<1>3. UMTypeOK /\ SessionAgreement
  BY InitBase DEF Base, TypeOK
<1>4. Registered \subseteq Names
  <2> SUFFICES ASSUME NEW i \in DOMAIN users PROVE users[i].username \in Names
    BY DEF Registered
  <2>1. users[i] \in User
    BY <1>3, ElementOfSeq DEF UMTypeOK
  <2> QED
    BY <2>1 DEF User
<1>5. \A n \in Names, s \in Sockets : clientStatus[s] # n
  BY NoUserAssumption DEF Init, UMInit
<1>6. Owner = [n \in Names |-> NoSocket]
  BY <1>3, <1>5, OwnerIs DEF Owner
<1> QED
  BY <1>2, <1>4, <1>6 DEF Abstract!Init, Registered, Durable, Owner

LEMMA NextImplements == IInv /\ IInv' /\ [Next]_vars => [Abstract!Next]_(Abstract!vars)
<1> SUFFICES ASSUME IInv, IInv', [Next]_vars
             PROVE  [Abstract!Next]_(Abstract!vars)
  OBVIOUS
<1>1. Base /\ SessionAgreement /\ SessionAgreement'
  BY DEF IInv, Base
<1>2. ASSUME UNCHANGED <<Registered, Durable, Owner>> PROVE UNCHANGED Abstract!vars
  BY <1>2 DEF Abstract!vars, Registered, Durable, Owner
<1>3. CASE umVars' = umVars
  BY <1>1, <1>2, <1>3, OwnerUntouched DEF umVars, Registered, Durable
<1>4. CASE Restart
  <2>1. Abstract!Restart
    BY <1>1, <1>4, RestartImplements DEF Abstract!Restart, Registered, Durable, Owner
  <2> QED
    BY <2>1 DEF Abstract!Next
<1>5. ASSUME NEW s \in Sockets, Worker(s) PROVE [Abstract!Next]_(Abstract!vars)
  <2>1. CASE Quiet(s)
    BY <1>1, <1>3, <2>1, QuietKeepsBase
  <2>2. CASE RegisterCall(s)
    <3>1. CASE /\ line[s].username \in Names \ Registered
               /\ Registered' = Registered \cup {line[s].username}
               /\ UNCHANGED <<Durable, Owner>>
      <4>1. PICK n \in Names : n = line[s].username
        BY <3>1
      <4>2. Abstract!Register(n)
        BY <3>1, <4>1 DEF Abstract!Register, Registered, Durable, Owner
      <4> QED
        BY <4>2 DEF Abstract!Next
    <3> QED
      BY <1>1, <1>2, <2>2, <3>1, RegisterImplements
  <2>3. CASE Save(s)
    <3>1. CASE /\ line[s].username \in Names \cap Registered
               /\ Durable' = Durable \cup {line[s].username}
               /\ UNCHANGED <<Registered, Owner>>
      <4>1. PICK n \in Names : n = line[s].username
        BY <3>1
      <4>2. Abstract!Persist(n)
        BY <3>1, <4>1 DEF Abstract!Persist, Registered, Durable, Owner
      <4> QED
        BY <4>2 DEF Abstract!Next
    <3> QED
      BY <1>1, <1>2, <2>3, <3>1, SaveImplements
  <2>4. CASE LoginCall(s)
    <3>1. ASSUME NEW n \in Names, n \in Registered, Owner[n] = NoSocket,
                 \A m \in Names : Owner[m] # s, Owner' = [Owner EXCEPT ![n] = s],
                 UNCHANGED <<Registered, Durable>>
          PROVE  Abstract!Login(n, s)
      BY <3>1 DEF Abstract!Login, Registered, Durable, Owner
    <3> QED
      BY <1>1, <1>2, <2>4, <3>1, LoginImplements DEF Abstract!Next
  <2>5. CASE LogoutCall(s) \/ CleanupLogout(s)
    <3>1. LogoutUser(s)
      BY <2>5 DEF LogoutCall, CleanupLogout
    <3>2. ASSUME NEW n \in Names, Owner' = [Owner EXCEPT ![n] = NoSocket],
                 UNCHANGED <<Registered, Durable>>
          PROVE  Abstract!Logout(n)
      BY <3>2 DEF Abstract!Logout, Registered, Durable, Owner
    <3> QED
      BY <1>1, <1>2, <3>1, <3>2, LogoutImplements DEF Abstract!Next
  <2> QED
    BY <1>5, <2>1, <2>2, <2>3, <2>4, <2>5 DEF Worker, Quiet
<1> QED
  BY <1>3, <1>4, <1>5 DEF Next, vars

(* Every behaviour of the workers, the table and the file is a behaviour   *)
(* of the account service: registering twice, two owners of one account,   *)
(* one client with two accounts and a session that survives a restart are  *)
(* all excluded at once.                                                   *)
THEOREM SessionsImplementAccounts == Spec => ImplementsAccounts
<1>1. Init => Abstract!Init
  BY InitImplements
<1>2. IInv /\ IInv' /\ [Next]_vars => [Abstract!Next]_(Abstract!vars)
  BY NextImplements
<1> QED
  BY <1>1, <1>2, SpecIInv, PTL DEF Spec, ImplementsAccounts, Abstract!Spec
=============================================================================
