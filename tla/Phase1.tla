------------------------------- MODULE Phase1 -------------------------------
(***************************************************************************)
(* The first version of the program (phase_1): a server that serves one    *)
(* client at a time, until it leaves, with one global login state; clients *)
(* that send a text and wait for the reply; the file userInfo.txt; and a   *)
(* server that may be stopped and started again.                           *)
(*                                                                         *)
(* Texts that client and server treat alike are one member of Texts:       *)
(*   "exit", "send"      shorter than five characters                      *)
(*   "logout", "LOGOUT"  the client knows only the first                   *)
(*   "send hi", "send "  a message, and one without contents               *)
(*   "other"             anything the server does not know                 *)
(*   "wide"              a message whose echo is longer than a buffer      *)
(*   "long"              a text longer than a buffer: it arrives as two    *)
(* and the records of "register" and "login".                              *)
(***************************************************************************)
EXTENDS Naturals, Sequences, FiniteSets

CONSTANTS
  Clients, Names, Passwords,
  Texts,         \* what may be typed: see Commands and Words
  LoginWords,    \* the names and passwords in which the letters LOGIN occur
  InitialFile,   \* userInfo.txt: a sequence of lines <<name, password>>
  NoClient,
  MaxTexts,      \* bound: how many texts each client sends
  MaxRestarts    \* bound

Commands == [cmd : {"register", "login"}, name : Names, pwd : Passwords]

Words == {"exit", "send", "logout", "LOGOUT", "send hi", "send ", "other", "wide", "long"}

Plain(word) == [cmd |-> word]

(* Do the letters LOGIN occur in the name or in the password?              *)
WithLOGIN(t) == t.name \in LoginWords \/ t.pwd \in LoginWords

Known == Commands \cup {Plain(w) : w \in Words}

ASSUME Phase1Assumption ==
  /\ LoginWords \subseteq Names \cup Passwords /\ NoClient \notin Clients
  /\ InitialFile \in Seq(Names \X Passwords)
  /\ \A i, j \in DOMAIN InitialFile : InitialFile[i][1] = InitialFile[j][1] => i = j
  /\ Texts \subseteq Known
  /\ MaxTexts \in [Clients -> Nat] /\ MaxRestarts \in Nat

VARIABLES
  users,        \* userList.users: a set of <<name, password>>, one for a name
  curUser,      \* userList.curUser
  isCurLoggedIn,  \* userList.is_cur_logged_in
  file,         \* the lines of userInfo.txt
  place,        \* of the server: "accept", "status", "save", "confirm", "client"
  conn,         \* the client it serves
  pending,      \* the line it is about to save
  backlog,      \* connections not yet accepted
  state,        \* of a client: "out", "connected", "waiting", "gone"
  flag,         \* is_cur_logged_in in the client
  toServer, toClient,
  sent, restarts,     \* bounded counters
  asked,        \* history: the text a client waits for the reply to
  loginBy,      \* history: who last logged in, with the right password
  told, failed, \* history: names confirmed as registered; names not written
  large, odd    \* history: who has sent "wide" or "long"; who something that
                \* client and server take differently

server  == <<users, curUser, isCurLoggedIn, place, conn, pending>>
client  == <<state, flag, sent, asked>>
history == <<loginBy, told, failed>>
strange == <<large, odd>>
vars    == <<server, file, backlog, client, toServer, toClient, restarts, history, strange>>

NoName == "nobody"

Named(table, n) == {u \in table : u[1] = n}

(* loadUserFromFile: the last line of a name counts.                       *)
Load(lines) ==
  {lines[i] : i \in {k \in DOMAIN lines : \A l \in DOMAIN lines : l > k => lines[l][1] # lines[k][1]}}

Init ==
  /\ file = InitialFile /\ users = Load(InitialFile)
  /\ curUser = NoName /\ isCurLoggedIn = FALSE
  /\ place = "accept" /\ conn = NoClient /\ pending = <<>>
  /\ backlog = <<>>
  /\ state = [c \in Clients |-> "out"] /\ flag = [c \in Clients |-> FALSE]
  /\ toServer = [c \in Clients |-> <<>>] /\ toClient = [c \in Clients |-> <<>>]
  /\ sent = [c \in Clients |-> 0] /\ restarts = 0
  /\ asked = [c \in Clients |-> Plain("other")]
  /\ loginBy = <<NoClient, NoName>> /\ told = {} /\ failed = {}
  /\ large = {} /\ odd = {}

-----------------------------------------------------------------------------
(* The client program.                                                     *)

Connect(c) ==
  /\ state[c] = "out"
  /\ state' = [state EXCEPT ![c] = "connected"]
  /\ backlog' = Append(backlog, c)
  /\ UNCHANGED <<server, file, flag, sent, asked, toServer, toClient, restarts, history, strange>>

Type(c, t) ==
  /\ state[c] = "connected" /\ sent[c] < MaxTexts[c]
  /\ state' = [state EXCEPT ![c] = "waiting"]
  /\ sent' = [sent EXCEPT ![c] = @ + 1]
  /\ asked' = [asked EXCEPT ![c] = t]
  /\ flag' = [flag EXCEPT ![c] = @ /\ t # Plain("logout")]
  /\ toServer' = [toServer EXCEPT ![c] =
       IF t = Plain("long") THEN @ \o <<t, Plain("other")>> ELSE Append(@, t)]
  /\ large' = IF t.cmd \in {"wide", "long"} THEN large \cup {c} ELSE large
  /\ odd' = IF t.cmd = "LOGOUT" \/ (t.cmd = "register" /\ WithLOGIN(t))
            THEN odd \cup {c} ELSE odd
  /\ UNCHANGED <<server, file, backlog, toClient, restarts, history>>

(* A client that takes a message of a logout for its own one only.         *)
GetReply_KeepsFlag(c) ==
  /\ state[c] = "waiting" /\ toClient[c] # <<>>
  /\ LET r == Head(toClient[c])
     IN  /\ toClient' = [toClient EXCEPT ![c] = Tail(@)]
         /\ state' = [state EXCEPT ![c] = IF r.is = "goodbye" THEN "gone" ELSE "connected"]
         /\ UNCHANGED flag
  /\ asked' = [asked EXCEPT ![c] = Plain("other")]
  /\ UNCHANGED <<server, file, backlog, sent, toServer, restarts, history, strange>>

(* The letters LOGIN in a reply mean that the client is logged in; the     *)
(* reply to a registration repeats the name and the password.              *)
GetReply(c) ==
  /\ state[c] = "waiting" /\ toClient[c] # <<>>
  /\ LET r == Head(toClient[c])
     IN  /\ toClient' = [toClient EXCEPT ![c] = Tail(@)]
         /\ state' = [state EXCEPT ![c] = IF r.is = "goodbye" THEN "gone" ELSE "connected"]
         /\ flag' = [flag EXCEPT ![c] =
              IF r.is = "goodbye" THEN FALSE
              ELSE @ \/ r.is = "loggedIn" \/ (r.is = "registered" /\ WithLOGIN(r.to))]
  /\ asked' = [asked EXCEPT ![c] = Plain("other")]
  /\ UNCHANGED <<server, file, backlog, sent, toServer, restarts, history, strange>>

(* End of the input, or the program is killed.                             *)
Quit(c) ==
  /\ state[c] \in {"connected", "waiting"}
  /\ state' = [state EXCEPT ![c] = "gone"]
  /\ toClient' = [toClient EXCEPT ![c] = <<>>]
  /\ UNCHANGED <<server, file, backlog, flag, sent, asked, toServer, restarts, history, strange>>

-----------------------------------------------------------------------------
(* The server.                                                             *)

(* A server that does not reset the login state.                           *)
Accept_KeepsLogin ==
  /\ place = "accept" /\ backlog # <<>>
  /\ conn' = Head(backlog) /\ backlog' = Tail(backlog)
  /\ place' = "status"
  /\ UNCHANGED <<users, curUser, isCurLoggedIn, pending, file, client, toServer, toClient, restarts,
                 history, strange>>

Accept ==
  /\ place = "accept" /\ backlog # <<>>
  /\ conn' = Head(backlog) /\ backlog' = Tail(backlog)
  /\ place' = "status"
  /\ isCurLoggedIn' = FALSE   \* handleUserStatus is entered
  /\ UNCHANGED <<users, curUser, pending, file, client, toServer, toClient, restarts, history, strange>>

Receives(at, t) ==
  /\ place = at /\ toServer[conn] # <<>> /\ t = Head(toServer[conn])
  /\ toServer' = [toServer EXCEPT ![conn] = Tail(@)]
  /\ UNCHANGED <<file, backlog, client, restarts, conn, strange>>

(* What is written to a client that is gone is dropped.                    *)
Writes(t, kinds) ==
  toClient' = [toClient EXCEPT ![conn] =
    IF state[conn] = "gone" THEN @
    ELSE @ \o [i \in 1 .. Len(kinds) |-> [to |-> t, is |-> kinds[i]]]]

Replies(t, kind) == Writes(t, <<kind>>)

(* handleUserStatus.                                                       *)
Register(t) ==
  /\ Receives("status", t) /\ t.cmd = "register"
  /\ IF Named(users, t.name) # {}
     THEN Replies(t, "nameExists") /\ UNCHANGED <<users, pending, place>>
     ELSE /\ users' = users \cup {<<t.name, t.pwd>>}
          /\ pending' = <<t.name, t.pwd>>
          /\ place' = "save"
          /\ UNCHANGED toClient
  /\ UNCHANGED <<curUser, isCurLoggedIn, history>>

(* The file may not open, which nobody is told of.                         *)
SaveUserToFile ==
  /\ place = "save"
  /\ \/ file' = Append(file, pending) /\ UNCHANGED failed
     \/ failed' = failed \cup {pending[1]} /\ UNCHANGED file
  /\ place' = "confirm"
  /\ UNCHANGED <<users, curUser, isCurLoggedIn, conn, pending, backlog, client, toServer, toClient,
                 restarts, loginBy, told, strange>>

Confirm ==
  /\ place = "confirm"
  /\ Replies([cmd |-> "register", name |-> pending[1], pwd |-> pending[2]], "registered")
  /\ told' = told \cup {pending[1]}
  /\ place' = IF isCurLoggedIn THEN "client" ELSE "status"
  /\ UNCHANGED <<users, curUser, isCurLoggedIn, conn, pending, file, backlog, client, toServer,
                 restarts, loginBy, failed, strange>>

(* A server that takes an account it does not find for one without a       *)
(* password.                                                               *)
Login_Unfound(t) ==
  /\ Receives("status", t) /\ t.cmd = "login"
  /\ IF <<t.name, t.pwd>> \in users \/ Named(users, t.name) = {}
     THEN /\ isCurLoggedIn' = TRUE /\ curUser' = t.name
          /\ loginBy' = <<conn, t.name>>
          /\ Replies(t, "loggedIn") /\ place' = "client"
     ELSE /\ Replies(t, "wrongPassword")
          /\ UNCHANGED <<isCurLoggedIn, curUser, loginBy, place>>
  /\ UNCHANGED <<users, pending, told, failed>>

Login(t) ==
  /\ Receives("status", t) /\ t.cmd = "login"
  /\ IF <<t.name, t.pwd>> \in users
     THEN /\ isCurLoggedIn' = TRUE /\ curUser' = t.name
          /\ loginBy' = <<conn, t.name>>
          /\ Replies(t, "loggedIn") /\ place' = "client"
     ELSE /\ Replies(t, IF Named(users, t.name) = {} THEN "notFound" ELSE "wrongPassword")
          /\ UNCHANGED <<isCurLoggedIn, curUser, loginBy, place>>
  /\ UNCHANGED <<users, pending, told, failed>>

Close ==
  /\ place' = "accept" /\ conn' = NoClient
  /\ toServer' = [toServer EXCEPT ![conn] = <<>>]
  /\ UNCHANGED <<users, curUser, isCurLoggedIn, pending, file, restarts, history, strange>>

ExitOut ==
  /\ place = "status" /\ toServer[conn] # <<>> /\ Head(toServer[conn]) = Plain("exit")
  /\ Replies(Plain("exit"), "goodbye")
  /\ Close
  /\ UNCHANGED <<backlog, client>>

(* A text that is too long, or no command here.                            *)
RefuseStatus(t) ==
  /\ Receives("status", t)
  /\ t.cmd \notin {"register", "login", "exit"}
  /\ Replies(t, IF t.cmd = "long" THEN "tooLong" ELSE "invalid")
  /\ UNCHANGED <<users, curUser, isCurLoggedIn, place, pending, history>>

(* A lost connection ends both loops; the login state stays behind.        *)
Lost ==
  /\ place \in {"status", "client"} /\ state[conn] = "gone" /\ toServer[conn] = <<>>
  /\ Close
  /\ UNCHANGED <<backlog, client, toClient>>

(* handleClient.                                                           *)
LogoutIn(t) ==
  /\ Receives("client", t) /\ t.cmd \in {"logout", "LOGOUT"}
  /\ isCurLoggedIn' = FALSE /\ curUser' = NoName
  /\ Replies(t, "loggedOut")
  /\ place' = "status"
  /\ UNCHANGED <<users, pending, history>>

(* strlen - 5 is unsigned: what is shorter than five characters, exit      *)
(* among it, is too long; of a buffer without a terminator it may go       *)
(* either way.                                                             *)
RepliesIn(t) ==
  CASE t.cmd \in {"exit", "send"} -> {"tooLong"}
    [] t.cmd = "long"             -> {"tooLong", "yourMessage"}
    [] t.cmd \in {"send hi", "wide"} -> {"yourMessage"}
    [] t.cmd = "send "            -> {"empty"}
    [] OTHER                      -> {"invalid"}

(* A server that goes on when it has answered that a text is too long.     *)
AnswerIn_Twice(t) ==
  /\ Receives("client", t) /\ t.cmd \notin {"logout", "LOGOUT"}
  /\ \E kind \in RepliesIn(t) :
       Writes(t, IF t.cmd \in {"exit", "send"} THEN <<kind, "invalid">> ELSE <<kind>>)
  /\ UNCHANGED <<users, curUser, isCurLoggedIn, place, pending, history>>

AnswerIn(t) ==
  /\ Receives("client", t) /\ t.cmd \notin {"logout", "LOGOUT"}
  /\ \E kind \in RepliesIn(t) :
       Writes(t, IF kind = "yourMessage" /\ t.cmd \in {"wide", "long"} THEN <<kind, "rest">> ELSE <<kind>>)
  /\ UNCHANGED <<users, curUser, isCurLoggedIn, place, pending, history>>

(* SIGINT, and a new start on the same file: every client is cut off.      *)
Restart ==
  /\ restarts < MaxRestarts
  /\ restarts' = restarts + 1
  /\ users' = Load(file) /\ curUser' = NoName /\ isCurLoggedIn' = FALSE
  /\ place' = "accept" /\ conn' = NoClient /\ pending' = <<>> /\ backlog' = <<>>
  /\ state' = [c \in Clients |-> IF state[c] = "out" THEN "out" ELSE "gone"]
  /\ toServer' = [c \in Clients |-> <<>>] /\ toClient' = [c \in Clients |-> <<>>]
  /\ UNCHANGED <<file, flag, sent, asked, history, strange>>

Handle(t) == Register(t) \/ Login(t) \/ RefuseStatus(t) \/ LogoutIn(t) \/ AnswerIn(t)

Server ==
  \/ Accept \/ SaveUserToFile \/ Confirm \/ ExitOut \/ Lost
  \/ \E t \in Known : Handle(t)

Next ==
  \/ \E c \in Clients : Connect(c) \/ GetReply(c) \/ Quit(c) \/ \E t \in Texts : Type(c, t)
  \/ Server \/ Restart

Spec == Init /\ [][Next]_vars

-----------------------------------------------------------------------------
(* Properties.                                                             *)

Kinds == {"nameExists", "registered", "loggedIn", "notFound", "wrongPassword", "goodbye", "tooLong",
          "invalid", "loggedOut", "yourMessage", "empty", "rest"}

(* The tables, the place of the server and what is on the way.             *)
TypeOK ==
  /\ users \subseteq Names \X Passwords
  /\ curUser \in Names \cup {NoName} /\ isCurLoggedIn \in BOOLEAN
  /\ file \in Seq(Names \X Passwords)
  /\ place \in {"accept", "status", "save", "confirm", "client"}
  /\ conn \in Clients \cup {NoClient} /\ (conn = NoClient <=> place = "accept")
  /\ place \in {"save", "confirm"} => pending \in Names \X Passwords
  /\ backlog \in Seq(Clients)
  /\ state \in [Clients -> {"out", "connected", "waiting", "gone"}]
  /\ flag \in [Clients -> BOOLEAN]
  /\ asked \in [Clients -> Known]
  /\ toServer \in [Clients -> Seq(Known)]
  /\ toClient \in [Clients -> Seq([to : Known, is : Kinds])]

InSession == place = "client"

(* Whom the server takes for logged in has logged in itself, with the      *)
(* account of the session, on this connection: what a lost client leaves   *)
(* in the global userList does not pass to the next one.                   *)
NoInheritedLogin == InSession => isCurLoggedIn /\ loginBy = <<conn, curUser>>

(* The reply a client reads is the one to the text it has last sent, also  *)
(* when the text is refused; unless it has sent one that does not fit.     *)
RepliesInStep ==
  \A c \in Clients \ large :
    state[c] = "waiting" /\ toClient[c] # <<>> =>
      Len(toClient[c]) = 1 /\ Head(toClient[c]).to = asked[c]

(* A client that has read all replies shows the menu of a logged-in user   *)
(* if and only if it is one for the server; unless it wrote logout in      *)
(* capitals or registered with LOGIN in the name or in the password.       *)
MenuFitsSession ==
  \A c \in Clients \ (large \cup odd) :
    state[c] = "connected" => (flag[c] <=> InSession /\ conn = c)

(* A registration that was confirmed is in userInfo.txt, and remains there *)
(* when the server is restarted, unless the file could not be opened.      *)
AckedDurable == \A n \in told : n \in failed \/ \E i \in DOMAIN file : file[i][1] = n

(* The one-client server keeps the promises of the later one, with         *)
(* registering and saving as two steps between which it may be stopped.    *)
Accounts_ == INSTANCE Accounts WITH
  Sockets <- Clients, NoSocket <- NoClient,
  registered <- {u[1] : u \in users},
  durable <- {file[i][1] : i \in DOMAIN file},
  owner <- [n \in Names |-> IF InSession /\ curUser = n THEN conn ELSE NoClient]

ImplementsAccounts == Accounts_!Spec

=============================================================================
