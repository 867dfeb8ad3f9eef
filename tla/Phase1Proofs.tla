---------------------------- MODULE Phase1Proofs ----------------------------
(***************************************************************************)
(* Theorems about Phase1: for any clients, names, passwords and texts, any *)
(* file without a name twice, and any number of texts and restarts.        *)
(***************************************************************************)
EXTENDS Phase1, SequenceTheorems, TLAPS

Message == [to : Known, is : Kinds]

-----------------------------------------------------------------------------
(* The inductive invariant, in named parts.                                *)

(* The login state is only kept while a session lasts.                     *)
SessionOK ==
  /\ InSession => isCurLoggedIn /\ loginBy = <<conn, curUser>> /\ curUser \in Names
  /\ place \in {"status", "save", "confirm"} => ~isCurLoggedIn

Written(n) == n \in failed \/ \E i \in DOMAIN file : file[i][1] = n

(* A name has one line, every line has its account, and the account that   *)
(* is about to be saved has no line yet.                                   *)
FileOK ==
  /\ \A i, j \in DOMAIN file : file[i][1] = file[j][1] => i = j
  /\ \A i \in DOMAIN file : file[i] \in users
  /\ place \in {"save", "confirm"} => pending \in users
  /\ place = "save" => \A i \in DOMAIN file : file[i][1] # pending[1]
  /\ place = "confirm" => Written(pending[1])
  /\ AckedDurable

Base == TypeOK /\ SessionOK /\ FileOK

-----------------------------------------------------------------------------
(* Lemmas about loading and replying.                                      *)

(* Of a file in which no name is twice, every line is loaded.              *)
LEMMA LoadAll ==
  ASSUME NEW lines \in Seq(Names \X Passwords),
         \A i, j \in DOMAIN lines : lines[i][1] = lines[j][1] => i = j
  PROVE  /\ Load(lines) = {lines[i] : i \in DOMAIN lines}
         /\ Load(lines) \subseteq Names \X Passwords
<1>1. ASSUME NEW k \in DOMAIN lines, NEW l \in DOMAIN lines, l > k
      PROVE  lines[l][1] # lines[k][1]
  <2>1. l # k
    BY <1>1, LenProperties
  <2> QED
    BY <2>1
<1>2. DOMAIN lines = {k \in DOMAIN lines : \A l \in DOMAIN lines : l > k => lines[l][1] # lines[k][1]}
  BY <1>1
<1>3. \A i \in DOMAIN lines : lines[i] \in Names \X Passwords
  BY LenProperties, ElementOfSeq
<1> QED
  BY <1>2, <1>3 DEF Load

(* What is not the record of register or login is one word.                *)
LEMMA KnownTexts ==
  /\ \A w \in Words : Plain(w) \in Known /\ Plain(w).cmd = w
  /\ \A t \in Known : t.cmd \in {"register", "login"} => t \in Commands
  /\ \A t \in Commands : t \in Known /\ t.cmd \in {"register", "login"}
  /\ \A t \in Known : t \in Commands \/ t = Plain(t.cmd)
<1>1. \A w \in Words : Plain(w).cmd = w /\ w \notin {"register", "login"}
  BY DEF Words, Plain
<1>2. \A w \in Words : Plain(w) \in Known
  BY DEF Known
<1>3. ASSUME NEW t \in Known, t \notin Commands
      PROVE  t = Plain(t.cmd) /\ t.cmd \notin {"register", "login"}
  <2>1. PICK w \in Words : t = Plain(w)
    BY <1>3 DEF Known
  <2> QED
    BY <1>1, <2>1
<1>4. \A t \in Commands : t \in Known /\ t.cmd \in {"register", "login"}
  BY DEF Commands, Known
<1> QED
  BY <1>1, <1>2, <1>3, <1>4

(* What a reply does to what is on the way to the clients.                 *)
LEMMA ReplyEffect ==
  ASSUME TypeOK, conn \in Clients, NEW t \in Known, NEW kinds \in Seq(Kinds), Writes(t, kinds)
  PROVE  /\ toClient' \in [Clients -> Seq(Message)]
         /\ \A c \in Clients : c # conn \/ state[c] = "gone" => toClient'[c] = toClient[c]
         /\ state[conn] # "gone" /\ toClient[conn] = <<>> /\ Len(kinds) = 1 =>
              Len(toClient'[conn]) = 1 /\ Head(toClient'[conn]).to = t /\ Head(toClient'[conn]).is = kinds[1]
<1> DEFINE new == [i \in 1 .. Len(kinds) |-> [to |-> t, is |-> kinds[i]]]
<1>1. new \in Seq(Message) /\ Len(new) = Len(kinds)
  <2>1. Len(kinds) \in Nat /\ \A i \in 1 .. Len(kinds) : kinds[i] \in Kinds
    BY LenProperties, ElementOfSeq
  <2>2. \A i \in 1 .. Len(kinds) : [to |-> t, is |-> kinds[i]] \in Message
    BY <2>1 DEF Message
  <2>3. new \in Seq(Message)
    BY <2>1, <2>2, IsASeq
  <2> QED
    BY <2>1, <2>3, LenProperties
<1>2. toClient \in [Clients -> Seq(Message)]
  BY DEF TypeOK, Message
<1>3. toClient[conn] \o new \in Seq(Message)
  BY <1>1, <1>2, ConcatProperties
<1>4. toClient' = [toClient EXCEPT ![conn] = IF state[conn] = "gone" THEN @ ELSE @ \o new]
  BY DEF Writes
<1>5. toClient' \in [Clients -> Seq(Message)]
  BY <1>2, <1>3, <1>4
<1>6. \A c \in Clients : c # conn \/ state[c] = "gone" => toClient'[c] = toClient[c]
  BY <1>2, <1>4
<1>7. ASSUME state[conn] # "gone", toClient[conn] = <<>>, Len(kinds) = 1
      PROVE  /\ Len(toClient'[conn]) = 1
             /\ Head(toClient'[conn]).to = t /\ Head(toClient'[conn]).is = kinds[1]
  <2>1. toClient'[conn] = <<>> \o new
    BY <1>2, <1>4, <1>7
  <2>2. <<>> \o new = new
    BY <1>1, ConcatEmptySeq
  <2>3. Len(new) = 1 /\ new[1] = [to |-> t, is |-> kinds[1]]
    BY <1>1, <1>7
  <2>4. Head(new) = new[1]
    BY <1>1, <2>3
  <2> QED
    BY <2>1, <2>2, <2>3, <2>4
<1> QED
  BY <1>5, <1>6, <1>7

(* The text that is received is taken from those of the client served.     *)
LEMMA ReceiveEffect ==
  ASSUME TypeOK, NEW t \in Known, NEW at \in {"status", "client"}, Receives(at, t)
  PROVE  /\ conn \in Clients
         /\ toServer' \in [Clients -> Seq(Known)]
         /\ toServer'[conn] = Tail(toServer[conn])
         /\ \A c \in Clients : c # conn => toServer'[c] = toServer[c]
<1>1. conn \in Clients /\ toServer[conn] \in Seq(Known) /\ toServer[conn] # <<>>
  BY DEF TypeOK, Receives
<1>2. Tail(toServer[conn]) \in Seq(Known)
  BY <1>1, HeadTailProperties
<1> QED
  BY <1>1, <1>2 DEF TypeOK, Receives

-----------------------------------------------------------------------------
(* Type correctness.                                                       *)

LEMMA InitType ==
  ASSUME Init
  PROVE  TypeOK
<1>1. Load(InitialFile) \subseteq Names \X Passwords
  BY Phase1Assumption, LoadAll
<1>2. Plain("other") \in Known
  BY DEF Known, Words
<1>3. toServer \in [Clients -> Seq(Known)] /\ toClient \in [Clients -> Seq([to : Known, is : Kinds])]
  BY EmptySeq DEF Init
<1>4. backlog \in Seq(Clients)
  BY EmptySeq DEF Init
<1> QED
  BY <1>1, <1>2, <1>3, <1>4, Phase1Assumption DEF Init, TypeOK

LEMMA HandleType ==
  ASSUME TypeOK, NEW t \in Known, Handle(t)
  PROVE  TypeOK'
<1>1. CASE Register(t)
  <2>1. Receives("status", t) /\ t.cmd = "register" /\ t \in Commands
    BY <1>1, KnownTexts DEF Register
  <2>2. conn \in Clients /\ toServer' \in [Clients -> Seq(Known)]
    BY <2>1, ReceiveEffect
  <2>3. toClient' \in [Clients -> Seq(Message)]
    <3>1. CASE Named(users, t.name) # {}
      <4>1. Writes(t, <<"nameExists">>)
        BY <1>1, <3>1 DEF Register, Replies
      <4>2. <<"nameExists">> \in Seq(Kinds)
        BY DEF Kinds
      <4> QED
        BY <2>2, <4>1, <4>2, ReplyEffect
    <3>2. CASE Named(users, t.name) = {}
      BY <1>1, <3>2 DEF Register, TypeOK, Message
    <3> QED
      BY <3>1, <3>2
  <2>4. users' \subseteq Names \X Passwords /\ place' \in {"status", "save"}
        /\ (place' = "save" => pending' \in Names \X Passwords)
    BY <1>1, <2>1 DEF Register, TypeOK, Commands, Receives
  <2> QED
    BY <1>1, <2>1, <2>2, <2>3, <2>4 DEF Register, Receives, TypeOK, client, Message
<1>2. CASE Login(t)
  <2>1. Receives("status", t) /\ t.cmd = "login" /\ t \in Commands
    BY <1>2, KnownTexts DEF Login
  <2>2. conn \in Clients /\ toServer' \in [Clients -> Seq(Known)]
    BY <2>1, ReceiveEffect
  <2>3. PICK kind \in Kinds : Writes(t, <<kind>>)
    BY <1>2 DEF Login, Replies, Kinds
  <2>4. toClient' \in [Clients -> Seq(Message)]
    <3>1. <<kind>> \in Seq(Kinds)
      OBVIOUS
    <3> QED
      BY <2>2, <2>3, <3>1, ReplyEffect
  <2>5. curUser' \in Names \cup {NoName} /\ isCurLoggedIn' \in BOOLEAN /\ place' \in {"status", "client"}
    BY <1>2, <2>1 DEF Login, Receives, TypeOK, Commands
  <2> QED
    BY <1>2, <2>1, <2>2, <2>4, <2>5 DEF Login, Receives, TypeOK, client, Message
<1>3. CASE RefuseStatus(t)
  <2>1. Receives("status", t)
    BY <1>3 DEF RefuseStatus
  <2>2. conn \in Clients /\ toServer' \in [Clients -> Seq(Known)]
    BY <2>1, ReceiveEffect
  <2>3. PICK kind \in Kinds : Writes(t, <<kind>>)
    BY <1>3 DEF RefuseStatus, Replies, Kinds
  <2>4. toClient' \in [Clients -> Seq(Message)]
    <3>1. <<kind>> \in Seq(Kinds)
      OBVIOUS
    <3> QED
      BY <2>2, <2>3, <3>1, ReplyEffect
  <2> QED
    BY <1>3, <2>1, <2>2, <2>4 DEF RefuseStatus, Receives, TypeOK, client, Message
<1>4. CASE LogoutIn(t)
  <2>1. Receives("client", t)
    BY <1>4 DEF LogoutIn
  <2>2. conn \in Clients /\ toServer' \in [Clients -> Seq(Known)]
    BY <2>1, ReceiveEffect
  <2>3. PICK kind \in Kinds : Writes(t, <<kind>>)
    BY <1>4 DEF LogoutIn, Replies, Kinds
  <2>4. toClient' \in [Clients -> Seq(Message)]
    <3>1. <<kind>> \in Seq(Kinds)
      OBVIOUS
    <3> QED
      BY <2>2, <2>3, <3>1, ReplyEffect
  <2> QED
    BY <1>4, <2>1, <2>2, <2>4 DEF LogoutIn, Receives, TypeOK, client, Message
<1>5. CASE AnswerIn(t)
  <2>1. Receives("client", t)
    BY <1>5 DEF AnswerIn
  <2>2. conn \in Clients /\ toServer' \in [Clients -> Seq(Known)]
    BY <2>1, ReceiveEffect
  <2>3. PICK kinds \in Seq(Kinds) : Writes(t, kinds)
    <3>1. RepliesIn(t) \subseteq Kinds
      BY DEF RepliesIn, Kinds
    <3>2. \A kind \in Kinds : <<kind, "rest">> \in Seq(Kinds) /\ <<kind>> \in Seq(Kinds)
      BY DEF Kinds
    <3> QED
      BY <1>5, <3>1, <3>2 DEF AnswerIn
  <2>4. toClient' \in [Clients -> Seq(Message)]
    BY <2>2, <2>3, ReplyEffect
  <2> QED
    BY <1>5, <2>1, <2>2, <2>4 DEF AnswerIn, Receives, TypeOK, client, Message
<1> QED
  BY <1>1, <1>2, <1>3, <1>4, <1>5 DEF Handle

LEMMA CloseType ==
  ASSUME TypeOK, conn \in Clients, Close, UNCHANGED <<backlog, client>>,
         toClient' \in [Clients -> Seq(Message)]
  PROVE  TypeOK'
<1>1. toServer' \in [Clients -> Seq(Known)]
  BY EmptySeq DEF Close, TypeOK
<1> QED
  BY <1>1 DEF Close, TypeOK, client, Message

LEMMA TypeStep ==
  ASSUME TypeOK, [Next]_vars
  PROVE  TypeOK'
<1>1. ASSUME NEW c \in Clients, Connect(c)
      PROVE  TypeOK'
  <2>1. backlog' \in Seq(Clients)
    BY <1>1, AppendProperties DEF Connect, TypeOK
  <2> QED
    BY <1>1, <2>1 DEF Connect, TypeOK, server, history, strange
<1>2. ASSUME NEW c \in Clients, NEW t \in Texts, Type(c, t)
      PROVE  TypeOK'
  <2>1. t \in Known /\ Plain("other") \in Known
    BY Phase1Assumption DEF Known, Words
  <2>2. toServer[c] \in Seq(Known)
    BY DEF TypeOK
  <2>3. Append(toServer[c], t) \in Seq(Known)
    BY <2>1, <2>2, AppendProperties
  <2>4. toServer[c] \o <<t, Plain("other")>> \in Seq(Known)
    <3>1. <<t, Plain("other")>> \in Seq(Known)
      BY <2>1
    <3> QED
      BY <2>2, <3>1, ConcatProperties
  <2>5. toServer' \in [Clients -> Seq(Known)]
    BY <1>2, <2>3, <2>4 DEF Type, TypeOK
  <2>6. asked' \in [Clients -> Known]
    BY <1>2, <2>1 DEF Type, TypeOK
  <2>7. flag' \in [Clients -> BOOLEAN] /\ state' \in [Clients -> {"out", "connected", "waiting", "gone"}]
    BY <1>2 DEF Type, TypeOK
  <2> QED
    BY <1>2, <2>5, <2>6, <2>7 DEF Type, TypeOK, server, history
<1>3. ASSUME NEW c \in Clients, GetReply(c)
      PROVE  TypeOK'
  <2>1. toClient[c] \in Seq(Message) /\ toClient[c] # <<>>
    BY <1>3 DEF GetReply, TypeOK, Message
  <2>2. Tail(toClient[c]) \in Seq(Message)
    BY <2>1, HeadTailProperties
  <2>3. toClient' \in [Clients -> Seq(Message)]
    BY <1>3, <2>2 DEF GetReply, TypeOK, Message
  <2>4. state' \in [Clients -> {"out", "connected", "waiting", "gone"}]
    BY <1>3 DEF GetReply, TypeOK
  <2>5. flag' \in [Clients -> BOOLEAN]
    BY <1>3 DEF GetReply, TypeOK
  <2>6. asked' \in [Clients -> Known]
    BY <1>3 DEF GetReply, TypeOK, Known, Words
  <2> QED
    BY <1>3, <2>3, <2>4, <2>5, <2>6 DEF GetReply, TypeOK, Message, server, history, strange
<1>4. ASSUME NEW c \in Clients, Quit(c)
      PROVE  TypeOK'
  <2>1. toClient' \in [Clients -> Seq(Message)]
    BY <1>4, EmptySeq DEF Quit, TypeOK, Message
  <2> QED
    BY <1>4, <2>1 DEF Quit, TypeOK, Message, server, history, strange
<1>5. ASSUME Accept
      PROVE  TypeOK'
  <2>1. Head(backlog) \in Clients /\ Tail(backlog) \in Seq(Clients)
    BY <1>5, HeadTailProperties DEF Accept, TypeOK
  <2> QED
    BY <1>5, <2>1, Phase1Assumption DEF Accept, TypeOK, client, history, strange
<1>6. ASSUME SaveUserToFile
      PROVE  TypeOK'
  <2>1. pending \in Names \X Passwords /\ file \in Seq(Names \X Passwords)
    BY <1>6 DEF SaveUserToFile, TypeOK
  <2>2. Append(file, pending) \in Seq(Names \X Passwords)
    BY <2>1, AppendProperties
  <2>3. file' \in Seq(Names \X Passwords)
    BY <1>6, <2>1, <2>2 DEF SaveUserToFile
  <2> QED
    BY <1>6, <2>3 DEF SaveUserToFile, TypeOK, client, strange
<1>7. ASSUME Confirm
      PROVE  TypeOK'
  <2> DEFINE t == [cmd |-> "register", name |-> pending[1], pwd |-> pending[2]]
  <2>1. conn \in Clients /\ t \in Known /\ <<"registered">> \in Seq(Kinds)
    BY <1>7 DEF Confirm, TypeOK, Known, Commands, Kinds
  <2>2. Writes(t, <<"registered">>)
    BY <1>7 DEF Confirm, Replies
  <2>3. toClient' \in [Clients -> Seq(Message)]
    BY <2>1, <2>2, ReplyEffect
  <2> QED
    BY <1>7, <2>1, <2>3 DEF Confirm, TypeOK, Message, client, strange
<1>8. ASSUME ExitOut
      PROVE  TypeOK'
  <2>1. conn \in Clients /\ Plain("exit") \in Known /\ <<"goodbye">> \in Seq(Kinds)
    <3>1. conn \in Clients
      BY <1>8 DEF ExitOut, TypeOK
    <3>2. Plain("exit") \in Known
      BY KnownTexts DEF Words
    <3>3. <<"goodbye">> \in Seq(Kinds)
      BY DEF Kinds
    <3> QED
      BY <3>1, <3>2, <3>3
  <2>2. toClient' \in [Clients -> Seq(Message)]
    BY <1>8, <2>1, ReplyEffect DEF ExitOut, Replies
  <2> QED
    BY <1>8, <2>1, <2>2, CloseType DEF ExitOut
<1>9. ASSUME Lost
      PROVE  TypeOK'
  <2>1. conn \in Clients /\ toClient' \in [Clients -> Seq(Message)]
    BY <1>9 DEF Lost, TypeOK, Message
  <2> QED
    BY <1>9, <2>1, CloseType DEF Lost
<1>10. ASSUME Restart
       PROVE  TypeOK'
  <2>1. Load(file) \subseteq Names \X Passwords
    <3>1. \A i \in DOMAIN file : file[i] \in Names \X Passwords
      BY LenProperties, ElementOfSeq DEF TypeOK
    <3> QED
      BY <3>1 DEF Load
  <2>2. toServer' \in [Clients -> Seq(Known)] /\ toClient' \in [Clients -> Seq([to : Known, is : Kinds])]
    BY <1>10, EmptySeq DEF Restart
  <2>3. backlog' \in Seq(Clients)
    BY <1>10, EmptySeq DEF Restart
  <2>4. state' \in [Clients -> {"out", "connected", "waiting", "gone"}]
    BY <1>10 DEF Restart, TypeOK
  <2> QED
    BY <1>10, <2>1, <2>2, <2>3, <2>4, Phase1Assumption DEF Restart, TypeOK, history, strange
<1>11. CASE UNCHANGED vars
  BY <1>11 DEF vars, server, client, history, strange, TypeOK
<1> QED
  BY <1>1, <1>2, <1>3, <1>4, <1>5, <1>6, <1>7, <1>8, <1>9, <1>10, <1>11, HandleType DEF Next, Server

(* The tables, the server's place and the messages on the way keep their   *)
(* shape, whatever clients type and whenever the server is stopped.        *)
THEOREM Phase1TypeOK == Spec => []TypeOK
  BY InitType, TypeStep, PTL DEF Spec

-----------------------------------------------------------------------------
(* The session, the accounts and the file.                                 *)

LEMMA InitBase ==
  ASSUME Init
  PROVE  Base
<1>1. TypeOK
  BY InitType
<1>2. SessionOK
  BY DEF Init, SessionOK, InSession
<1>3. users = {file[i] : i \in DOMAIN file}
  BY Phase1Assumption, LoadAll DEF Init
<1>4. FileOK
  BY <1>3, Phase1Assumption DEF Init, FileOK, AckedDurable
<1> QED
  BY <1>1, <1>2, <1>4 DEF Base

(* What the clients do touches none of it, nor does a reply.               *)
SameBase ==
  UNCHANGED <<users, curUser, isCurLoggedIn, file, place, conn, pending, loginBy, told, failed>>

LEMMA ClientKeepsBase ==
  ASSUME [Next]_vars, ~Server, ~Restart
  PROVE  SameBase
<1>1. ASSUME NEW c \in Clients, Connect(c) \/ GetReply(c) \/ Quit(c)
      PROVE  SameBase
  BY <1>1 DEF Connect, GetReply, Quit, SameBase, server, history
<1>2. ASSUME NEW c \in Clients, NEW t \in Texts, Type(c, t)
      PROVE  SameBase
  BY <1>2 DEF Type, SameBase, server, history
<1>3. CASE UNCHANGED vars
  BY <1>3 DEF vars, SameBase, server, history
<1> QED
  BY <1>1, <1>2, <1>3 DEF Next

LEMMA SessionStep ==
  ASSUME Base, [Next]_vars
  PROVE  SessionOK'
<1> USE DEF Base, SessionOK, InSession
<1>1. CASE Accept
  BY <1>1 DEF Accept
<1>2. CASE SaveUserToFile
  BY <1>2 DEF SaveUserToFile
<1>3. CASE Confirm
  BY <1>3 DEF Confirm
<1>4. CASE ExitOut \/ Lost
  BY <1>4 DEF ExitOut, Lost, Close
<1>5. ASSUME NEW t \in Known, Register(t)
      PROVE  SessionOK'
  BY <1>5 DEF Register, Receives
<1>6. ASSUME NEW t \in Known, Login(t)
      PROVE  SessionOK'
  <2>1. t.name \in Names
    BY <1>6, KnownTexts DEF Login, Commands
  <2> QED
    BY <1>6, <2>1 DEF Login, Receives
<1>7. ASSUME NEW t \in Known, RefuseStatus(t)
      PROVE  SessionOK'
  BY <1>7 DEF RefuseStatus, Receives, history
<1>8. ASSUME NEW t \in Known, LogoutIn(t)
      PROVE  SessionOK'
  BY <1>8 DEF LogoutIn, Receives, history
<1>9. ASSUME NEW t \in Known, AnswerIn(t)
      PROVE  SessionOK'
  BY <1>9 DEF AnswerIn, Receives, history
<1>10. CASE Restart
  BY <1>10 DEF Restart
<1>11. CASE ~Server /\ ~Restart
  BY <1>11, ClientKeepsBase DEF SameBase
<1> QED
  BY <1>1, <1>2, <1>3, <1>4, <1>5, <1>6, <1>7, <1>8, <1>9, <1>10, <1>11 DEF Server, Handle

(* The line that is appended is the only one of its name.                  *)
LEMMA SaveFile ==
  ASSUME Base, SaveUserToFile
  PROVE  FileOK'
<1>1. /\ file \in Seq(Names \X Passwords) /\ pending \in Names \X Passwords /\ pending \in users
      /\ \A i \in DOMAIN file : file[i][1] # pending[1]
      /\ place = "save" /\ place' = "confirm" /\ pending' = pending /\ users' = users /\ told' = told
  BY DEF Base, TypeOK, FileOK, SaveUserToFile
<1>2. CASE file' = Append(file, pending) /\ failed' = failed
  <2>1. /\ DOMAIN file = 1 .. Len(file) /\ Len(file) \in Nat
        /\ DOMAIN file' = 1 .. Len(file) + 1
        /\ \A i \in 1 .. Len(file) : file'[i] = file[i]
        /\ file'[Len(file) + 1] = pending
    <3>1. file' \in Seq(Names \X Passwords) /\ Len(file') = Len(file) + 1
      BY <1>1, <1>2, AppendProperties
    <3>2. DOMAIN file' = 1 .. Len(file')
      BY <3>1, LenProperties
    <3> QED
      BY <1>1, <1>2, <3>1, <3>2, AppendProperties, LenProperties
  <2>2. \A i \in DOMAIN file' : i \in DOMAIN file \/ i = Len(file) + 1
    BY <2>1
  <2>3. Len(file) + 1 \in DOMAIN file' /\ \A i \in DOMAIN file : i \in DOMAIN file'
    BY <2>1
  <2>4. \A i, j \in DOMAIN file' : file'[i][1] = file'[j][1] => i = j
    BY <1>1, <2>1, <2>2 DEF Base, FileOK
  <2>5. \A i \in DOMAIN file' : file'[i] \in users'
    BY <1>1, <2>1, <2>2 DEF Base, FileOK
  <2>6. Written(pending[1])'
    BY <1>1, <2>1, <2>3 DEF Written
  <2>7. \A n : Written(n) => Written(n)'
    BY <1>2, <2>1, <2>3 DEF Written
  <2>8. AckedDurable'
    BY <1>1, <2>7 DEF Base, FileOK, AckedDurable, Written
  <2> QED
    BY <1>1, <2>4, <2>5, <2>6, <2>8 DEF FileOK
<1>3. CASE failed' = failed \cup {pending[1]} /\ file' = file
  BY <1>1, <1>3 DEF Base, FileOK, AckedDurable, Written
<1> QED
  BY <1>2, <1>3 DEF SaveUserToFile

LEMMA FileStep ==
  ASSUME Base, [Next]_vars
  PROVE  FileOK'
<1>1. CASE Accept
  BY <1>1 DEF Base, FileOK, AckedDurable, Accept, history
<1>2. CASE SaveUserToFile
  BY <1>2, SaveFile
<1>3. CASE Confirm
  BY <1>3 DEF Base, SessionOK, FileOK, AckedDurable, Written, Confirm
<1>4. CASE ExitOut \/ Lost
  BY <1>4 DEF Base, FileOK, AckedDurable, ExitOut, Lost, Close, history
<1>5. ASSUME NEW t \in Known, Register(t)
      PROVE  FileOK'
  <2>1. place = "status" /\ UNCHANGED <<file, told, failed>>
    BY <1>5 DEF Register, Receives, history
  <2>2. CASE Named(users, t.name) # {}
    BY <1>5, <2>1, <2>2 DEF Base, FileOK, AckedDurable, Register
  <2>3. CASE Named(users, t.name) = {}
    <3>1. users' = users \cup {pending'} /\ place' = "save" /\ pending'[1] = t.name
      BY <1>5, <2>3 DEF Register
    <3>2. \A i \in DOMAIN file : file[i][1] # t.name
      BY <2>3 DEF Base, FileOK, Named
    <3> QED
      BY <2>1, <3>1, <3>2 DEF Base, FileOK, AckedDurable
  <2> QED
    BY <2>2, <2>3
<1>6. ASSUME NEW t \in Known, Login(t) \/ RefuseStatus(t) \/ LogoutIn(t) \/ AnswerIn(t)
      PROVE  FileOK'
  <2>1. UNCHANGED <<users, file, pending, told, failed>> /\ place' \in {"status", "client"}
    BY <1>6 DEF Login, RefuseStatus, LogoutIn, AnswerIn, Receives, history
  <2> QED
    BY <2>1 DEF Base, FileOK, AckedDurable
<1>7. CASE Restart
  <2>1. /\ file \in Seq(Names \X Passwords) /\ file' = file /\ users' = Load(file)
        /\ place' = "accept" /\ UNCHANGED <<told, failed>>
    BY <1>7 DEF Base, TypeOK, Restart, history
  <2>2. users' = {file[i] : i \in DOMAIN file}
    BY <2>1, LoadAll DEF Base, FileOK
  <2> QED
    BY <2>1, <2>2 DEF Base, FileOK, AckedDurable
<1>8. CASE ~Server /\ ~Restart
  <2>1. SameBase
    BY <1>8, ClientKeepsBase
  <2> QED
    BY <2>1 DEF Base, FileOK, AckedDurable, Written, SameBase
<1> QED
  BY <1>1, <1>2, <1>3, <1>4, <1>5, <1>6, <1>7, <1>8 DEF Server, Handle

LEMMA Phase1Base == Spec => []Base
<1>1. Base /\ [Next]_vars => Base'
  BY TypeStep, SessionStep, FileStep DEF Base
<1> QED
  BY InitBase, <1>1, PTL DEF Spec

(* The login state that a lost client leaves behind is never taken for     *)
(* that of the next one.                                                   *)
THEOREM Phase1NoInheritedLogin == Spec => []NoInheritedLogin
<1>1. Base => NoInheritedLogin
  BY DEF Base, SessionOK, NoInheritedLogin
<1> QED
  BY Phase1Base, <1>1, PTL

(* A confirmed registration is in the file, through any number of          *)
(* restarts, unless the file could not be opened.                          *)
THEOREM Phase1AckedDurable == Spec => []AckedDurable
<1>1. Base => AckedDurable
  BY DEF Base, FileOK
<1> QED
  BY Phase1Base, <1>1, PTL

-----------------------------------------------------------------------------
(* The refinement of Accounts.                                             *)

Registered == {u[1] : u \in users}
Durable == {file[i][1] : i \in DOMAIN file}
Owner == [n \in Names |-> IF InSession /\ curUser = n THEN conn ELSE NoClient]

(* Where no session begins or ends, no account changes hands.              *)
LEMMA OwnerSame ==
  ASSUME ~InSession, ~InSession'
  PROVE  Owner' = Owner
BY DEF Owner

(* A session that ends gives its one account back.                         *)
LEMMA OwnerEnds ==
  ASSUME InSession, ~InSession'
  PROVE  Owner' = [Owner EXCEPT ![curUser] = NoClient]
<1>1. \A n \in Names : Owner'[n] = NoClient
  BY DEF Owner
<1>2. \A n \in Names : n # curUser => Owner[n] = NoClient
  BY DEF Owner
<1> QED
  BY <1>1, <1>2 DEF Owner

LEMMA HandleRefines ==
  ASSUME Base, NEW t \in Known, Handle(t)
  PROVE  [Accounts_!Next]_(Accounts_!vars)
<1>1. UNCHANGED Durable
  BY DEF Handle, Register, Login, RefuseStatus, LogoutIn, AnswerIn, Receives, Durable
<1>2. CASE Register(t)
  <2>1. UNCHANGED Owner
    BY <1>2, OwnerSame DEF Register, Receives, InSession
  <2>2. CASE Named(users, t.name) # {}
    <3>1. UNCHANGED Registered
      BY <1>2, <2>2 DEF Register, Registered
    <3> QED
      BY <1>1, <2>1, <3>1 DEF Accounts_!vars, Registered, Durable, Owner
  <2>3. CASE Named(users, t.name) = {}
    <3>1. t.name \in Names
      BY <1>2, KnownTexts DEF Register, Commands
    <3>2. t.name \notin Registered
      BY <2>3 DEF Named, Registered
    <3>3. Registered' = Registered \cup {t.name}
      <4>1. users' = users \cup {<<t.name, t.pwd>>}
        BY <1>2, <2>3 DEF Register
      <4>2. \A u : u \in users' <=> u \in users \/ u = <<t.name, t.pwd>>
        BY <4>1
      <4>3. <<t.name, t.pwd>>[1] = t.name
        OBVIOUS
      <4> QED
        BY <4>2, <4>3 DEF Registered
    <3>4. Accounts_!Register(t.name)
      BY <1>1, <2>1, <3>2, <3>3 DEF Accounts_!Register, Registered, Durable, Owner
    <3> QED
      BY <3>1, <3>4 DEF Accounts_!Next
  <2> QED
    BY <2>2, <2>3
<1>3. CASE Login(t)
  <2>1. UNCHANGED Registered /\ ~InSession
    BY <1>3 DEF Login, Receives, Registered, InSession
  <2>2. CASE <<t.name, t.pwd>> \in users
    <3>1. t.name \in Names /\ t.name \in Registered /\ conn \in Clients
      BY <1>3, <2>2 DEF Base, TypeOK, Login, Receives, Registered
    <3>2. InSession' /\ curUser' = t.name /\ conn' = conn
      BY <1>3, <2>2 DEF Login, Receives, InSession
    <3>3. \A n \in Names : Owner[n] = NoClient
      BY <2>1 DEF Owner
    <3>4. Owner' = [Owner EXCEPT ![t.name] = conn]
      BY <3>1, <3>2, <3>3 DEF Owner
    <3>5. conn # NoClient
      BY <3>1, Phase1Assumption
    <3>6. PICK s \in Clients : s = conn
      BY <3>1
    <3>7. Accounts_!Login(t.name, s)
      BY <1>1, <2>1, <3>1, <3>3, <3>4, <3>5, <3>6 DEF Accounts_!Login, Registered, Durable, Owner
    <3> QED
      BY <3>1, <3>7 DEF Accounts_!Next
  <2>3. CASE <<t.name, t.pwd>> \notin users
    <3>1. UNCHANGED Owner
      BY <1>3, <2>1, <2>3, OwnerSame DEF Login, InSession
    <3> QED
      BY <1>1, <2>1, <3>1 DEF Accounts_!vars, Registered, Durable, Owner
  <2> QED
    BY <2>2, <2>3
<1>4. CASE LogoutIn(t)
  <2>1. UNCHANGED Registered /\ InSession /\ ~InSession'
    BY <1>4 DEF LogoutIn, Receives, Registered, InSession
  <2>2. PICK n \in Names : n = curUser
    BY <2>1 DEF Base, SessionOK
  <2>3. Accounts_!Logout(n)
    BY <1>1, <2>1, <2>2, OwnerEnds DEF Accounts_!Logout, Registered, Durable, Owner
  <2> QED
    BY <2>2, <2>3 DEF Accounts_!Next
<1>5. CASE RefuseStatus(t) \/ AnswerIn(t)
  <2>1. UNCHANGED Registered /\ UNCHANGED Owner
    BY <1>5 DEF RefuseStatus, AnswerIn, Receives, Registered, Owner, InSession
  <2> QED
    BY <1>1, <2>1 DEF Accounts_!vars, Registered, Durable, Owner
<1> QED
  BY <1>2, <1>3, <1>4, <1>5 DEF Handle

LEMMA StepRefines ==
  ASSUME Base, [Next]_vars
  PROVE  [Accounts_!Next]_(Accounts_!vars)
<1>1. CASE Accept \/ Confirm
  <2>1. UNCHANGED <<users, file>> /\ ~InSession /\ ~InSession'
    BY <1>1 DEF Base, SessionOK, Accept, Confirm, InSession
  <2> QED
    BY <2>1, OwnerSame DEF Accounts_!vars, Owner
<1>2. CASE SaveUserToFile
  <2>1. UNCHANGED Owner /\ UNCHANGED Registered
    BY <1>2, OwnerSame DEF SaveUserToFile, InSession, Registered
  <2>2. CASE file' = Append(file, pending)
    <3>1. /\ file \in Seq(Names \X Passwords) /\ pending \in Names \X Passwords /\ pending \in users
      BY <1>2 DEF Base, TypeOK, FileOK, SaveUserToFile
    <3>2. file' \in Seq(Names \X Passwords) /\ Len(file') = Len(file) + 1
      BY <2>2, <3>1, AppendProperties
    <3>3. DOMAIN file' = 1 .. Len(file) + 1 /\ DOMAIN file = 1 .. Len(file) /\ Len(file) \in Nat
      BY <3>1, <3>2, LenProperties
    <3>4. file'[Len(file) + 1] = pending /\ \A i \in DOMAIN file : file'[i] = file[i]
      BY <2>2, <3>1, <3>3, AppendProperties
    <3>5. DOMAIN file' = DOMAIN file \cup {Len(file) + 1}
      BY <3>3
    <3>6. Durable' = Durable \cup {pending[1]}
      BY <3>4, <3>5 DEF Durable
    <3>7. PICK n \in Names : n = pending[1] /\ n \in Registered
      BY <3>1 DEF Registered
    <3>8. Accounts_!Persist(n)
      BY <2>1, <3>6, <3>7 DEF Accounts_!Persist, Registered, Durable, Owner
    <3> QED
      BY <3>7, <3>8 DEF Accounts_!Next
  <2>3. CASE file' = file
    <3>1. UNCHANGED Durable
      BY <2>3 DEF Durable
    <3> QED
      BY <2>1, <3>1 DEF Accounts_!vars, Registered, Durable, Owner
  <2> QED
    BY <1>2, <2>2, <2>3 DEF SaveUserToFile
<1>3. CASE ExitOut \/ Lost
  <2>1. UNCHANGED <<users, file>> /\ ~InSession'
    BY <1>3 DEF ExitOut, Lost, Close, InSession
  <2>2. CASE InSession
    <3>1. PICK n \in Names : n = curUser
      BY <2>2 DEF Base, SessionOK
    <3>2. Owner' = [Owner EXCEPT ![n] = NoClient]
      BY <2>1, <2>2, <3>1, OwnerEnds
    <3>3. Accounts_!Logout(n)
      BY <2>1, <3>2 DEF Accounts_!Logout, Owner
    <3> QED
      BY <3>1, <3>3 DEF Accounts_!Next
  <2>3. CASE ~InSession
    BY <2>1, <2>3, OwnerSame DEF Accounts_!vars, Owner
  <2> QED
    BY <2>2, <2>3
<1>4. CASE Restart
  <2>1. file \in Seq(Names \X Passwords) /\ file' = file /\ users' = Load(file) /\ ~InSession'
    BY <1>4 DEF Base, TypeOK, Restart, InSession
  <2>2. users' = {file[i] : i \in DOMAIN file}
    BY <2>1, LoadAll DEF Base, FileOK
  <2>3. Registered' = Durable /\ Durable' = Durable
    BY <2>1, <2>2 DEF Registered, Durable
  <2>4. Owner' = [n \in Names |-> NoClient]
    BY <2>1 DEF Owner
  <2>5. Accounts_!Restart
    BY <2>3, <2>4 DEF Accounts_!Restart, Registered, Durable, Owner
  <2> QED
    BY <2>5 DEF Accounts_!Next
<1>5. CASE ~Server /\ ~Restart
  <2>1. SameBase
    BY <1>5, ClientKeepsBase
  <2> QED
    BY <2>1 DEF SameBase, Accounts_!vars, InSession
<1> QED
  BY <1>1, <1>2, <1>3, <1>4, <1>5, HandleRefines DEF Server

(* The first version, too, registers a name once, gives an account to one  *)
(* connection at a time, and starts again with what it had saved.          *)
THEOREM Phase1ImplementsAccounts == Spec => ImplementsAccounts
<1>1. Init => Accounts_!Init
  <2> SUFFICES ASSUME Init PROVE Accounts_!Init
    OBVIOUS
  <2>1. file \in Seq(Names \X Passwords) /\ users = {file[i] : i \in DOMAIN file}
    BY Phase1Assumption, LoadAll DEF Init
  <2>2. Registered = Durable
    BY <2>1 DEF Registered, Durable
  <2>3. \A i \in DOMAIN file : file[i] \in Names \X Passwords
    BY <2>1, LenProperties, ElementOfSeq
  <2>4. Registered \subseteq Names
    BY <2>1, <2>3 DEF Registered
  <2>5. Owner = [n \in Names |-> NoClient]
    BY DEF Owner, Init, InSession
  <2> QED
    BY <2>2, <2>4, <2>5 DEF Accounts_!Init, Registered, Durable, Owner
<1>2. Base /\ [Next]_vars => [Accounts_!Next]_(Accounts_!vars)
  BY StepRefines
<1> QED
  BY Phase1Base, <1>1, <1>2, PTL DEF Spec, ImplementsAccounts, Accounts_!Spec

-----------------------------------------------------------------------------
(* The exchange of texts and replies.                                      *)

(* The server has taken the text of c and not yet answered it.             *)
Handling(c) == conn = c /\ place \in {"save", "confirm"}

PendingText == [cmd |-> "register", name |-> pending[1], pwd |-> pending[2]]

(* Of a client that waits, the text is on its way, or at the server, or    *)
(* its one reply is on the way back.                                       *)
Exchange(c) ==
  /\ state[c] \in {"out", "connected"} =>
       toServer[c] = <<>> /\ toClient[c] = <<>> /\ ~Handling(c)
  /\ state[c] = "waiting" =>
       \/ Len(toServer[c]) = 1 /\ Head(toServer[c]) = asked[c] /\ toClient[c] = <<>> /\ ~Handling(c)
       \/ toServer[c] = <<>> /\ toClient[c] = <<>> /\ Handling(c) /\ asked[c] = PendingText
       \/ /\ toServer[c] = <<>> /\ ~Handling(c)
          /\ Len(toClient[c]) = 1 /\ Head(toClient[c]).to = asked[c]
  /\ state[c] = "waiting" => asked[c].cmd \notin {"wide", "long"}

ExchangeOK == \A c \in Clients \ large : Exchange(c)

(* Of a sequence of one element, nothing is left behind it.                *)
LEMMA OneElement ==
  ASSUME NEW S, NEW s \in Seq(S)
  PROVE  /\ Len(s) = 1 => s # <<>> /\ Tail(s) = <<>>
         /\ \A e \in S : s = <<>> => Len(Append(s, e)) = 1 /\ Head(Append(s, e)) = e
<1>1. ASSUME Len(s) = 1
      PROVE  s # <<>> /\ Tail(s) = <<>>
  <2>1. s # <<>>
    BY <1>1
  <2>2. Tail(s) \in Seq(S) /\ Len(Tail(s)) = 0
    BY <1>1, <2>1, HeadTailProperties
  <2> QED
    BY <2>1, <2>2, EmptySeq
<1>2. ASSUME NEW e \in S, s = <<>>
      PROVE  Len(Append(s, e)) = 1 /\ Head(Append(s, e)) = e
  BY <1>2, AppendProperties, HeadTailAppend
<1> QED
  BY <1>1, <1>2

(* What leaves a client, and its part of the server, alone.                *)
SameExchange(c) ==
  /\ state'[c] = state[c] /\ toServer'[c] = toServer[c] /\ toClient'[c] = toClient[c]
  /\ asked'[c] = asked[c]

LEMMA ExchangeSame ==
  ASSUME NEW c, Exchange(c), SameExchange(c), Handling(c)' <=> Handling(c),
         Handling(c) => PendingText' = PendingText
  PROVE  Exchange(c)'
BY DEF Exchange, SameExchange

LEMMA InitExchange ==
  ASSUME Init
  PROVE  ExchangeOK
BY DEF Init, ExchangeOK, Exchange, Handling

(* A text that is answered with one reply, unless it is one that is wide.  *)
LEMMA AnswerExchange ==
  ASSUME TypeOK, ExchangeOK, NEW t \in Known, NEW at \in {"status", "client"}, NEW kinds \in Seq(Kinds),
         Len(kinds) = 1 \/ t.cmd \in {"wide", "long"},
         Receives(at, t), Writes(t, kinds), place' \in {"status", "client"}
  PROVE  ExchangeOK'
<1>1. /\ conn \in Clients /\ toServer' \in [Clients -> Seq(Known)]
      /\ toServer'[conn] = Tail(toServer[conn])
      /\ \A c \in Clients : c # conn => toServer'[c] = toServer[c]
  BY ReceiveEffect
<1>2. /\ \A c \in Clients : c # conn => toClient'[c] = toClient[c]
      /\ state[conn] # "gone" /\ toClient[conn] = <<>> /\ Len(kinds) = 1 =>
           Len(toClient'[conn]) = 1 /\ Head(toClient'[conn]).to = t
  BY <1>1, ReplyEffect
<1>3. UNCHANGED <<state, asked, large, conn>> /\ place = at /\ toServer[conn] # <<>> /\ t = Head(toServer[conn])
  BY DEF Receives, client, strange
<1>4. ASSUME NEW c \in Clients \ large
      PROVE  Exchange(c)'
  <2>1. ~Handling(c) /\ ~Handling(c)'
    BY <1>3 DEF Handling
  <2>2. CASE c # conn
    <3>1. SameExchange(c)
      BY <1>1, <1>2, <1>3, <2>2 DEF SameExchange
    <3> QED
      BY <2>1, <3>1, ExchangeSame DEF ExchangeOK
  <2>3. CASE c = conn
    <3>1. toServer[c] \in Seq(Known)
      BY DEF TypeOK
    <3>2. CASE state[c] = "waiting"
      <4>1. Len(toServer[c]) = 1 /\ t = asked[c] /\ toClient[c] = <<>> /\ asked[c].cmd \notin {"wide", "long"}
        BY <1>3, <2>1, <2>3, <3>2 DEF ExchangeOK, Exchange
      <4>2. toServer'[c] = <<>>
        BY <1>1, <2>3, <3>1, <4>1, OneElement
      <4>3. Len(toClient'[c]) = 1 /\ Head(toClient'[c]).to = asked[c]
        BY <1>2, <2>3, <3>2, <4>1
      <4> QED
        BY <1>3, <2>1, <3>2, <4>1, <4>2, <4>3 DEF Exchange
    <3>3. CASE state[c] # "waiting"
      BY <1>3, <2>3, <3>3 DEF ExchangeOK, Exchange
    <3> QED
      BY <3>2, <3>3
  <2> QED
    BY <2>2, <2>3
<1> QED
  BY <1>3, <1>4 DEF ExchangeOK

LEMMA HandleExchange ==
  ASSUME TypeOK, ExchangeOK, NEW t \in Known, Handle(t)
  PROVE  ExchangeOK'
<1>1. \A kind \in Kinds : <<kind>> \in Seq(Kinds) /\ Len(<<kind>>) = 1
  OBVIOUS
<1>2. CASE Register(t) /\ Named(users, t.name) = {}
  <2>1. Receives("status", t) /\ t \in Commands /\ t.cmd = "register"
    BY <1>2, KnownTexts DEF Register
  <2>2. /\ conn \in Clients /\ toServer'[conn] = Tail(toServer[conn])
        /\ \A c \in Clients : c # conn => toServer'[c] = toServer[c]
    BY <2>1, ReceiveEffect
  <2>3. /\ UNCHANGED <<state, asked, large, conn, toClient>> /\ place = "status" /\ place' = "save"
        /\ t = Head(toServer[conn]) /\ toServer[conn] # <<>>
    BY <1>2 DEF Register, Receives, client, strange
  <2>4. PendingText' = t
    BY <1>2, <2>1 DEF PendingText, Register, Commands
  <2>5. ASSUME NEW c \in Clients \ large
        PROVE  Exchange(c)'
    <3>1. CASE c # conn
      <4>1. SameExchange(c)
        BY <2>2, <2>3, <3>1 DEF SameExchange
      <4>2. ~Handling(c) /\ ~Handling(c)'
        BY <2>3, <3>1 DEF Handling
      <4> QED
        BY <4>1, <4>2, ExchangeSame DEF ExchangeOK
    <3>2. CASE c = conn /\ state[c] = "waiting"
      <4>1. Len(toServer[c]) = 1 /\ t = asked[c] /\ toClient[c] = <<>> /\ asked[c].cmd \notin {"wide", "long"}
        BY <2>3, <3>2 DEF ExchangeOK, Exchange
      <4>2. toServer[c] \in Seq(Known)
        BY DEF TypeOK
      <4>3. toServer'[c] = <<>>
        BY <2>2, <3>2, <4>1, <4>2, OneElement
      <4>4. Handling(c)'
        BY <2>3, <3>2 DEF Handling
      <4> QED
        BY <2>3, <2>4, <3>2, <4>1, <4>3, <4>4 DEF Exchange
    <3>3. CASE c = conn /\ state[c] # "waiting"
      BY <2>3, <3>3 DEF ExchangeOK, Exchange
    <3> QED
      BY <3>1, <3>2, <3>3
  <2> QED
    BY <2>3, <2>5 DEF ExchangeOK
<1>3. CASE Register(t) /\ Named(users, t.name) # {}
  <2>1. Receives("status", t) /\ Writes(t, <<"nameExists">>) /\ place' = "status"
    BY <1>3 DEF Register, Replies, Receives
  <2>2. "nameExists" \in Kinds
    BY DEF Kinds
  <2> QED
    BY <1>1, <2>1, <2>2, AnswerExchange
<1>4. CASE Login(t) \/ RefuseStatus(t)
  <2>1. PICK kind \in Kinds : Receives("status", t) /\ Writes(t, <<kind>>) /\ place' \in {"status", "client"}
    BY <1>4 DEF Login, RefuseStatus, Replies, Receives, Kinds
  <2> QED
    BY <1>1, <2>1, AnswerExchange
<1>5. CASE LogoutIn(t)
  <2>1. Receives("client", t) /\ Writes(t, <<"loggedOut">>) /\ place' = "status"
    BY <1>5 DEF LogoutIn, Replies
  <2>2. "loggedOut" \in Kinds
    BY DEF Kinds
  <2> QED
    BY <1>1, <2>1, <2>2, AnswerExchange
<1>6. CASE AnswerIn(t)
  <2>1. RepliesIn(t) \subseteq Kinds
    BY DEF RepliesIn, Kinds
  <2>2. \A kind \in Kinds : <<kind, "rest">> \in Seq(Kinds)
    BY DEF Kinds
  <2>3. PICK kinds \in Seq(Kinds) : Writes(t, kinds) /\ (Len(kinds) = 1 \/ t.cmd \in {"wide", "long"})
    BY <1>1, <1>6, <2>1, <2>2 DEF AnswerIn
  <2>4. Receives("client", t) /\ place' = "client"
    BY <1>6 DEF AnswerIn, Receives
  <2> QED
    BY <2>3, <2>4, AnswerExchange
<1> QED
  BY <1>2, <1>3, <1>4, <1>5, <1>6 DEF Handle

LEMMA ExchangeStep ==
  ASSUME Base, ExchangeOK, [Next]_vars
  PROVE  ExchangeOK'
<1> USE DEF Base
<1>1. ASSUME NEW d \in Clients, Connect(d)
      PROVE  ExchangeOK'
  <2>1. /\ UNCHANGED <<toServer, toClient, asked, large, place, conn, pending>>
        /\ state \in [Clients -> {"out", "connected", "waiting", "gone"}]
        /\ state[d] = "out" /\ state' = [state EXCEPT ![d] = "connected"]
    BY <1>1 DEF Connect, TypeOK, server, strange
  <2> QED
    BY <2>1 DEF ExchangeOK, Exchange, Handling, PendingText
<1>2. ASSUME NEW d \in Clients, NEW t \in Texts, Type(d, t)
      PROVE  ExchangeOK'
  <2>1. t \in Known /\ toServer[d] \in Seq(Known)
    BY Phase1Assumption DEF TypeOK
  <2>2. /\ state[d] = "connected" /\ state'[d] = "waiting" /\ asked'[d] = t
        /\ UNCHANGED <<toClient, place, conn, pending>>
        /\ large' = IF t.cmd \in {"wide", "long"} THEN large \cup {d} ELSE large
        /\ \A c \in Clients : c # d =>
             state'[c] = state[c] /\ asked'[c] = asked[c] /\ toServer'[c] = toServer[c]
    BY <1>2 DEF Type, TypeOK, server
  <2>3. t.cmd \notin {"wide", "long"} => toServer'[d] = Append(toServer[d], t)
    BY <1>2, KnownTexts DEF Type, TypeOK, Words
  <2>4. ASSUME NEW c \in Clients \ large', c = d
        PROVE  Exchange(c)'
    <3>1. t.cmd \notin {"wide", "long"} /\ c \in Clients \ large
      BY <2>2, <2>4
    <3>2. toServer[c] = <<>> /\ toClient[c] = <<>> /\ ~Handling(c)
      BY <2>2, <2>4, <3>1 DEF ExchangeOK, Exchange
    <3>3. Len(toServer'[c]) = 1 /\ Head(toServer'[c]) = t
      <4>1. toServer[d] = <<>> /\ toServer'[c] = Append(toServer[d], t)
        BY <2>3, <2>4, <3>1, <3>2
      <4>2. Len(Append(toServer[d], t)) = 1 /\ Head(Append(toServer[d], t)) = t
        BY <2>1, <4>1, OneElement
      <4> QED
        BY <4>1, <4>2
    <3>4. ~Handling(c)'
      BY <2>2, <3>2 DEF Handling
    <3> QED
      BY <2>2, <2>4, <3>1, <3>2, <3>3, <3>4 DEF Exchange
  <2>5. ASSUME NEW c \in Clients \ large', c # d
        PROVE  Exchange(c)'
    <3>1. SameExchange(c) /\ c \in Clients \ large
      BY <2>2, <2>5 DEF SameExchange
    <3>2. (Handling(c)' <=> Handling(c)) /\ PendingText' = PendingText
      BY <2>2 DEF Handling, PendingText
    <3> QED
      BY <3>1, <3>2, ExchangeSame DEF ExchangeOK
  <2> QED
    BY <2>4, <2>5 DEF ExchangeOK
<1>3. ASSUME NEW d \in Clients, GetReply(d)
      PROVE  ExchangeOK'
  <2>1. /\ state[d] = "waiting" /\ toClient[d] # <<>> /\ toClient[d] \in Seq(Message)
        /\ UNCHANGED <<toServer, large, place, conn, pending>>
        /\ toClient'[d] = Tail(toClient[d]) /\ state'[d] \in {"connected", "gone"}
        /\ \A c \in Clients : c # d =>
             state'[c] = state[c] /\ asked'[c] = asked[c] /\ toClient'[c] = toClient[c]
    BY <1>3 DEF GetReply, TypeOK, server, strange, Message
  <2>2. ASSUME NEW c \in Clients \ large, c = d
        PROVE  Exchange(c)'
    <3>1. toServer[c] = <<>> /\ ~Handling(c) /\ Len(toClient[c]) = 1
      BY <2>1, <2>2 DEF ExchangeOK, Exchange
    <3>2. toClient'[c] = <<>>
      BY <2>1, <2>2, <3>1, OneElement
    <3>3. ~Handling(c)'
      BY <2>1, <3>1 DEF Handling
    <3> QED
      BY <2>1, <2>2, <3>1, <3>2, <3>3 DEF Exchange
  <2>3. ASSUME NEW c \in Clients \ large, c # d
        PROVE  Exchange(c)'
    <3>1. SameExchange(c)
      BY <2>1, <2>3 DEF SameExchange
    <3>2. (Handling(c)' <=> Handling(c)) /\ PendingText' = PendingText
      BY <2>1 DEF Handling, PendingText
    <3> QED
      BY <3>1, <3>2, ExchangeSame DEF ExchangeOK
  <2> QED
    BY <2>1, <2>2, <2>3 DEF ExchangeOK
<1>4. ASSUME NEW d \in Clients, Quit(d)
      PROVE  ExchangeOK'
  <2>1. /\ UNCHANGED <<toServer, large, place, conn, pending, asked>> /\ state'[d] = "gone"
        /\ \A c \in Clients : c # d => state'[c] = state[c] /\ toClient'[c] = toClient[c]
    BY <1>4 DEF Quit, TypeOK, server, strange
  <2>2. ASSUME NEW c \in Clients \ large, c # d
        PROVE  Exchange(c)'
    <3>1. SameExchange(c)
      BY <2>1, <2>2 DEF SameExchange
    <3>2. (Handling(c)' <=> Handling(c)) /\ PendingText' = PendingText
      BY <2>1 DEF Handling, PendingText
    <3> QED
      BY <3>1, <3>2, ExchangeSame DEF ExchangeOK
  <2>3. ASSUME NEW c \in Clients \ large, c = d
        PROVE  Exchange(c)'
    BY <2>1, <2>3 DEF Exchange
  <2> QED
    BY <2>1, <2>2, <2>3 DEF ExchangeOK
<1>5. CASE Accept
  <2>1. /\ UNCHANGED <<state, asked, toServer, toClient, large>>
        /\ \A c : ~Handling(c) /\ ~Handling(c)'
    BY <1>5 DEF Accept, client, strange, Handling
  <2> QED
    BY <2>1 DEF ExchangeOK, Exchange
<1>6. CASE SaveUserToFile
  <2>1. /\ UNCHANGED <<state, asked, toServer, toClient, large, pending>>
        /\ \A c : Handling(c)' <=> Handling(c)
    BY <1>6 DEF SaveUserToFile, client, strange, Handling
  <2> QED
    BY <2>1 DEF ExchangeOK, Exchange, PendingText
<1>7. CASE Confirm
  <2>1. conn \in Clients /\ PendingText \in Known /\ <<"registered">> \in Seq(Kinds) /\ Len(<<"registered">>) = 1
    BY <1>7 DEF Confirm, TypeOK, Known, Commands, Kinds, PendingText
  <2>2. Writes(PendingText, <<"registered">>)
    BY <1>7 DEF Confirm, Replies, PendingText
  <2>3. /\ \A c \in Clients : c # conn => toClient'[c] = toClient[c]
        /\ state[conn] # "gone" /\ toClient[conn] = <<>> =>
             Len(toClient'[conn]) = 1 /\ Head(toClient'[conn]).to = PendingText
    <3>1. PICK t \in Known : t = PendingText
      BY <2>1
    <3>2. Writes(t, <<"registered">>)
      BY <1>7, <3>1 DEF Confirm, Replies, PendingText, Writes
    <3> QED
      BY <2>1, <3>1, <3>2, ReplyEffect
  <2>4. /\ UNCHANGED <<state, asked, toServer, large>> /\ conn' = conn
        /\ place = "confirm" /\ \A c : ~Handling(c)'
    BY <1>7 DEF Base, SessionOK, Confirm, client, strange, Handling
  <2>5. ASSUME NEW c \in Clients \ large
        PROVE  Exchange(c)'
    <3>1. CASE c = conn
      <4>1. Handling(c)
        BY <2>4, <3>1 DEF Handling
      <4> QED
        BY <2>3, <2>4, <3>1, <4>1 DEF ExchangeOK, Exchange
    <3>2. CASE c # conn
      <4>1. ~Handling(c)
        BY <3>2 DEF Handling
      <4> QED
        BY <2>3, <2>4, <3>2, <4>1 DEF ExchangeOK, Exchange
    <3> QED
      BY <3>1, <3>2
  <2> QED
    BY <2>4, <2>5 DEF ExchangeOK
<1>8. CASE ExitOut
  <2>1. conn \in Clients /\ Plain("exit") \in Known /\ <<"goodbye">> \in Seq(Kinds) /\ Len(<<"goodbye">>) = 1
    <3>1. conn \in Clients
      BY <1>8 DEF ExitOut, TypeOK
    <3>2. Plain("exit") \in Known
      BY KnownTexts DEF Words
    <3>3. <<"goodbye">> \in Seq(Kinds)
      BY DEF Kinds
    <3> QED
      BY <3>1, <3>2, <3>3
  <2>2. /\ \A c \in Clients : c # conn => toClient'[c] = toClient[c]
        /\ state[conn] # "gone" /\ toClient[conn] = <<>> =>
             Len(toClient'[conn]) = 1 /\ Head(toClient'[conn]).to = Plain("exit")
    BY <1>8, <2>1, ReplyEffect DEF ExitOut, Replies
  <2>3. /\ UNCHANGED <<state, asked, large>> /\ \A c : ~Handling(c) /\ ~Handling(c)'
        /\ toServer[conn] # <<>> /\ Head(toServer[conn]) = Plain("exit") /\ toServer'[conn] = <<>>
        /\ \A c \in Clients : c # conn => toServer'[c] = toServer[c]
    BY <1>8, <2>1 DEF ExitOut, Close, client, strange, Handling, TypeOK
  <2>4. ASSUME NEW c \in Clients \ large
        PROVE  Exchange(c)'
    <3>1. CASE c = conn
      BY <2>2, <2>3, <3>1 DEF ExchangeOK, Exchange
    <3>2. CASE c # conn
      BY <2>2, <2>3, <3>2 DEF ExchangeOK, Exchange
    <3> QED
      BY <3>1, <3>2
  <2> QED
    BY <2>3, <2>4 DEF ExchangeOK
<1>9. CASE Lost
  <2>1. /\ UNCHANGED <<state, asked, large, toClient>> /\ \A c : ~Handling(c) /\ ~Handling(c)'
        /\ state[conn] = "gone" /\ \A c \in Clients : c # conn => toServer'[c] = toServer[c]
    BY <1>9 DEF Lost, Close, client, strange, Handling, TypeOK
  <2> QED
    BY <2>1 DEF ExchangeOK, Exchange
<1>10. CASE Restart
  <2>1. /\ UNCHANGED large /\ \A c : ~Handling(c)'
        /\ \A c \in Clients : state'[c] \in {"out", "gone"} /\ toServer'[c] = <<>> /\ toClient'[c] = <<>>
    BY <1>10 DEF Restart, strange, Handling
  <2> QED
    BY <2>1 DEF ExchangeOK, Exchange
<1>11. CASE UNCHANGED vars
  <2>1. UNCHANGED <<state, asked, toServer, toClient, large, place, conn, pending>>
    BY <1>11 DEF vars, server, client, strange
  <2> QED
    BY <2>1 DEF ExchangeOK, Exchange, Handling, PendingText
<1> QED
  BY <1>1, <1>2, <1>3, <1>4, <1>5, <1>6, <1>7, <1>8, <1>9, <1>10, <1>11, HandleExchange
  DEF Next, Server

(* The reply a client reads is the one to its last text, for any texts of  *)
(* any clients, as long as its own fit the buffers.                        *)
THEOREM Phase1RepliesInStep == Spec => []RepliesInStep
<1>1. Base /\ ExchangeOK /\ [Next]_vars => ExchangeOK'
  BY ExchangeStep
<1>2. ExchangeOK => RepliesInStep
  BY EmptySeq DEF ExchangeOK, Exchange, RepliesInStep
<1> QED
  BY Phase1Base, InitExchange, <1>1, <1>2, PTL DEF Spec

-----------------------------------------------------------------------------
(* The menu of the client and the session of the server.                   *)

Mine(c) == InSession /\ conn = c

(* Who has not connected is not known to the server.                       *)
OutOK ==
  \A c \in Clients : state[c] = "out" =>
    conn # c /\ ~flag[c] /\ \A i \in DOMAIN backlog : backlog[i] # c

Menu(c) ==
  /\ state[c] = "connected" => (flag[c] <=> Mine(c))
  /\ state[c] = "waiting" =>
       /\ asked[c].cmd # "LOGOUT"
       /\ asked[c].cmd = "register" => ~WithLOGIN(asked[c])
       /\ toClient[c] = <<>> =>
            IF asked[c] = Plain("logout") THEN ~flag[c] ELSE flag[c] <=> Mine(c)
       /\ toClient[c] # <<>> =>
            LET r == Head(toClient[c])
            IN  /\ r.is = "registered" => ~WithLOGIN(r.to)
                /\ IF r.is = "loggedIn" THEN Mine(c) ELSE r.is # "goodbye" => (flag[c] <=> Mine(c))

MenuOK == \A c \in Clients \ (large \cup odd) : Menu(c)

SameMenu(c) ==
  /\ state'[c] = state[c] /\ toClient'[c] = toClient[c]
  /\ asked'[c] = asked[c] /\ flag'[c] = flag[c]

LEMMA MenuSame ==
  ASSUME NEW c, Menu(c), SameMenu(c), Mine(c)' <=> Mine(c)
  PROVE  Menu(c)'
BY DEF Menu, SameMenu

LEMMA OutStep ==
  ASSUME TypeOK, OutOK, [Next]_vars
  PROVE  OutOK'
<1>1. ASSUME NEW d \in Clients, Connect(d)
      PROVE  OutOK'
  <2>1. /\ backlog \in Seq(Clients) /\ backlog' = Append(backlog, d) /\ UNCHANGED <<conn, flag>>
        /\ state'[d] = "connected" /\ \A c \in Clients : c # d => state'[c] = state[c]
    BY <1>1 DEF Connect, TypeOK, server
  <2>2. ASSUME NEW c \in Clients, c # d, NEW i \in DOMAIN backlog', \A k \in DOMAIN backlog : backlog[k] # c
        PROVE  backlog'[i] # c
    <3>1. i \in 1 .. Len(backlog) + 1 /\ Len(backlog) \in Nat /\ DOMAIN backlog = 1 .. Len(backlog)
      BY <2>1, AppendProperties, LenProperties
    <3> QED
      BY <2>1, <2>2, <3>1, AppendProperties
  <2> QED
    BY <2>1, <2>2 DEF OutOK
<1>2. ASSUME NEW d \in Clients, GetReply(d) \/ Quit(d) \/ \E t \in Texts : Type(d, t)
      PROVE  OutOK'
  <2>1. /\ UNCHANGED <<conn, backlog>> /\ state[d] # "out" /\ state'[d] # "out"
        /\ \A c \in Clients : c # d => state'[c] = state[c] /\ flag'[c] = flag[c]
    BY <1>2 DEF GetReply, Quit, Type, TypeOK, server
  <2> QED
    BY <2>1 DEF OutOK
<1>3. CASE Accept
  <2>1. /\ backlog \in Seq(Clients) /\ backlog # <<>> /\ conn' = Head(backlog) /\ backlog' = Tail(backlog)
        /\ UNCHANGED <<state, flag>>
    BY <1>3 DEF Accept, TypeOK, client
  <2>2. Len(backlog) \in Nat \ {0} /\ DOMAIN backlog = 1 .. Len(backlog) /\ Head(backlog) = backlog[1]
    BY <2>1, EmptySeq, LenProperties
  <2>3. ASSUME NEW i \in DOMAIN backlog'
        PROVE  \E k \in DOMAIN backlog : backlog'[i] = backlog[k]
    <3>1. Tail(backlog) \in Seq(Clients) /\ Len(Tail(backlog)) = Len(backlog) - 1
      BY <2>1, HeadTailProperties
    <3>2. i \in 1 .. Len(backlog) - 1
      BY <2>1, <2>3, <3>1, LenProperties
    <3>3. backlog'[i] = backlog[i + 1] /\ i + 1 \in DOMAIN backlog
      BY <2>1, <2>2, <3>1, <3>2, HeadTailProperties
    <3> QED
      BY <3>3
  <2> QED
    BY <2>1, <2>2, <2>3 DEF OutOK
<1>4. CASE Restart
  <2>1. backlog' = <<>> /\ conn' = NoClient /\ flag' = flag
        /\ \A c \in Clients : state'[c] = "out" => state[c] = "out"
    BY <1>4 DEF Restart
  <2>2. DOMAIN backlog' = {}
    BY <2>1
  <2> QED
    BY <2>1, <2>2, Phase1Assumption DEF OutOK
<1>5. CASE SaveUserToFile \/ Confirm \/ ExitOut \/ Lost
  <2>1. UNCHANGED <<state, flag, backlog>> /\ conn' \in {conn, NoClient}
    BY <1>5 DEF SaveUserToFile, Confirm, ExitOut, Lost, Close, client
  <2> QED
    BY <2>1, Phase1Assumption DEF OutOK
<1>6. ASSUME NEW t \in Known, Handle(t)
      PROVE  OutOK'
  <2>1. UNCHANGED <<state, flag, backlog, conn>>
    BY <1>6 DEF Handle, Register, Login, RefuseStatus, LogoutIn, AnswerIn, Receives, client
  <2> QED
    BY <2>1 DEF OutOK
<1>7. CASE UNCHANGED vars
  BY <1>7 DEF vars, client, server, OutOK
<1> QED
  BY <1>1, <1>2, <1>3, <1>4, <1>5, <1>6, <1>7 DEF Next, Server

Joint == Base /\ ExchangeOK /\ OutOK /\ MenuOK

(* A reply that says of the session what the server makes of it.           *)
LEMMA AnswerMenu ==
  ASSUME Joint, NEW t \in Known, NEW at \in {"status", "client"}, NEW kinds \in Seq(Kinds),
         Len(kinds) = 1 \/ t.cmd \in {"wide", "long"}, kinds[1] \notin {"registered", "goodbye"},
         Receives(at, t), Writes(t, kinds), place' \in {"status", "client"},
         IF kinds[1] = "loggedIn" THEN place' = "client"
         ELSE place' = "client" <=> at = "client" /\ t.cmd \notin {"logout", "LOGOUT"}
  PROVE  MenuOK'
<1>1. conn \in Clients
  BY ReceiveEffect DEF Joint, Base
<1>2. /\ \A c \in Clients : c # conn => toClient'[c] = toClient[c]
      /\ state[conn] # "gone" /\ toClient[conn] = <<>> /\ Len(kinds) = 1 =>
           /\ Len(toClient'[conn]) = 1
           /\ Head(toClient'[conn]).to = t /\ Head(toClient'[conn]).is = kinds[1]
  BY <1>1, ReplyEffect DEF Joint, Base
<1>3. /\ UNCHANGED <<state, asked, flag, large, odd, conn>> /\ place = at
      /\ toServer[conn] # <<>> /\ t = Head(toServer[conn])
  BY DEF Receives, client, strange
<1>4. ASSUME NEW c \in Clients \ (large \cup odd)
      PROVE  Menu(c)'
  <2>1. Menu(c) /\ Exchange(c) /\ ~Handling(c)
    BY <1>3 DEF Joint, MenuOK, ExchangeOK, Handling
  <2>2. CASE c # conn
    <3>1. SameMenu(c)
      BY <1>2, <1>3, <2>2 DEF SameMenu
    <3>2. ~Mine(c) /\ ~Mine(c)'
      BY <1>3, <2>2 DEF Mine
    <3> QED
      BY <2>1, <3>1, <3>2, MenuSame
  <2>3. CASE c = conn /\ state[c] = "waiting"
    <3>1. t = asked[c] /\ toClient[c] = <<>> /\ t.cmd \notin {"wide", "long"} /\ t.cmd # "LOGOUT"
      BY <1>3, <2>1, <2>3 DEF Exchange, Menu
    <3>2. /\ toClient'[c] # <<>> /\ Head(toClient'[c]).is = kinds[1]
      BY <1>2, <2>3, <3>1
    <3>3. Mine(c) <=> at = "client"
      BY <1>3, <2>3 DEF Mine, InSession
    <3>4. Mine(c)' <=> place' = "client"
      BY <1>3, <2>3 DEF Mine, InSession
    <3>5. t = Plain("logout") <=> t.cmd = "logout"
      BY KnownTexts DEF Words
    <3>6. kinds[1] # "loggedIn" => (flag[c] <=> Mine(c)')
      BY <2>1, <2>3, <3>1, <3>3, <3>4, <3>5 DEF Menu
    <3>7. asked[c].cmd = "register" => ~WithLOGIN(asked[c])
      BY <2>1, <2>3 DEF Menu
    <3> QED
      BY <1>3, <2>3, <3>1, <3>2, <3>4, <3>6, <3>7 DEF Menu
  <2>4. CASE c = conn /\ state[c] # "waiting"
    <3>1. state[c] # "connected"
      BY <1>3, <2>1, <2>4 DEF Exchange
    <3> QED
      BY <1>3, <2>4, <3>1 DEF Menu
  <2> QED
    BY <2>2, <2>3, <2>4
<1> QED
  BY <1>3, <1>4 DEF MenuOK

LEMMA HandleMenu ==
  ASSUME Joint, NEW t \in Known, Handle(t)
  PROVE  MenuOK'
<1>1. \A kind \in Kinds : <<kind>> \in Seq(Kinds) /\ Len(<<kind>>) = 1 /\ <<kind>>[1] = kind
  OBVIOUS
<1>2. CASE Register(t) /\ Named(users, t.name) = {}
  <2>1. UNCHANGED <<state, asked, large, odd, conn, toClient, flag>> /\ ~InSession /\ ~InSession'
    BY <1>2 DEF Register, Receives, client, strange, InSession
  <2> QED
    BY <2>1 DEF Joint, MenuOK, Menu, Mine
<1>3. CASE Register(t) /\ Named(users, t.name) # {}
  <2>1. Receives("status", t) /\ Writes(t, <<"nameExists">>) /\ place' = "status"
    BY <1>3 DEF Register, Replies, Receives
  <2>2. "nameExists" \in Kinds
    BY DEF Kinds
  <2> QED
    BY <1>1, <2>1, <2>2, AnswerMenu
<1>4. CASE Login(t) \/ RefuseStatus(t)
  <2>1. PICK kind \in Kinds :
          /\ Receives("status", t) /\ Writes(t, <<kind>>) /\ kind \notin {"registered", "goodbye"}
          /\ place' = IF kind = "loggedIn" THEN "client" ELSE "status"
    BY <1>4 DEF Login, RefuseStatus, Replies, Receives, Kinds
  <2> QED
    BY <1>1, <2>1, AnswerMenu
<1>5. CASE LogoutIn(t)
  <2>1. Receives("client", t) /\ Writes(t, <<"loggedOut">>) /\ place' = "status" /\ t.cmd \in {"logout", "LOGOUT"}
    BY <1>5 DEF LogoutIn, Replies
  <2>2. "loggedOut" \in Kinds
    BY DEF Kinds
  <2> QED
    BY <1>1, <2>1, <2>2, AnswerMenu
<1>6. CASE AnswerIn(t)
  <2>1. RepliesIn(t) \subseteq {"tooLong", "yourMessage", "empty", "invalid"}
    BY DEF RepliesIn
  <2>2. PICK kind \in RepliesIn(t) :
          Writes(t, IF kind = "yourMessage" /\ t.cmd \in {"wide", "long"} THEN <<kind, "rest">> ELSE <<kind>>)
    BY <1>6 DEF AnswerIn
  <2>3. kind \in Kinds /\ kind \notin {"registered", "goodbye", "loggedIn"}
    BY <2>1 DEF Kinds
  <2>4. Receives("client", t) /\ place' = "client" /\ t.cmd \notin {"logout", "LOGOUT"}
    BY <1>6 DEF AnswerIn, Receives
  <2>5. CASE kind = "yourMessage" /\ t.cmd \in {"wide", "long"}
    <3>1. <<kind, "rest">> \in Seq(Kinds) /\ <<kind, "rest">>[1] = kind
      BY <2>3 DEF Kinds
    <3> QED
      BY <2>2, <2>3, <2>4, <2>5, <3>1, AnswerMenu
  <2>6. CASE ~(kind = "yourMessage" /\ t.cmd \in {"wide", "long"})
    <3>1. Writes(t, <<kind>>)
      BY <2>2, <2>6
    <3> QED
      BY <1>1, <2>3, <2>4, <3>1, AnswerMenu
  <2> QED
    BY <2>5, <2>6
<1> QED
  BY <1>2, <1>3, <1>4, <1>5, <1>6 DEF Handle

LEMMA MenuStep ==
  ASSUME Joint, [Next]_vars
  PROVE  MenuOK'
<1> USE DEF Joint, Base
<1>1. ASSUME NEW d \in Clients, Connect(d)
      PROVE  MenuOK'
  <2>1. /\ UNCHANGED <<toClient, asked, flag, large, odd, place, conn>>
        /\ state[d] = "out" /\ state'[d] = "connected"
        /\ \A c \in Clients : c # d => state'[c] = state[c]
    BY <1>1 DEF Connect, TypeOK, server, strange
  <2>2. \A c : Mine(c)' <=> Mine(c)
    BY <2>1 DEF Mine, InSession
  <2>3. ASSUME NEW c \in Clients \ (large \cup odd)
        PROVE  Menu(c)'
    <3>1. CASE c = d
      <4>1. ~flag'[c] /\ ~Mine(c)'
        BY <2>1, <2>2, <3>1 DEF OutOK, Mine
      <4> QED
        BY <2>1, <3>1, <4>1 DEF Menu
    <3>2. CASE c # d
      <4>1. SameMenu(c)
        BY <2>1, <3>2 DEF SameMenu
      <4> QED
        BY <2>2, <4>1, MenuSame DEF MenuOK
    <3> QED
      BY <3>1, <3>2
  <2> QED
    BY <2>1, <2>3 DEF MenuOK
<1>2. ASSUME NEW d \in Clients, NEW t \in Texts, Type(d, t)
      PROVE  MenuOK'
  <2>1. /\ state[d] = "connected" /\ state'[d] = "waiting" /\ asked'[d] = t
        /\ UNCHANGED <<toClient, place, conn>>
        /\ flag'[d] = (flag[d] /\ t # Plain("logout"))
        /\ large \subseteq large' /\ odd \subseteq odd'
        /\ t.cmd = "LOGOUT" \/ (t.cmd = "register" /\ WithLOGIN(t)) => d \in odd'
        /\ \A c \in Clients : c # d => SameMenu(c)
    BY <1>2 DEF Type, TypeOK, server, SameMenu
  <2>2. \A c : Mine(c)' <=> Mine(c)
    BY <2>1 DEF Mine, InSession
  <2>3. ASSUME NEW c \in Clients \ (large' \cup odd')
        PROVE  Menu(c)'
    <3>1. c \in Clients \ (large \cup odd)
      BY <2>1
    <3>2. CASE c = d
      <4>1. toClient[c] = <<>> /\ (flag[c] <=> Mine(c))
        BY <2>1, <3>1, <3>2 DEF ExchangeOK, Exchange, MenuOK, Menu
      <4> QED
        BY <2>1, <2>2, <3>2, <4>1 DEF Menu
    <3>3. CASE c # d
      BY <2>1, <2>2, <3>1, <3>3, MenuSame DEF MenuOK
    <3> QED
      BY <3>2, <3>3
  <2> QED
    BY <2>3 DEF MenuOK
<1>3. ASSUME NEW d \in Clients, GetReply(d)
      PROVE  MenuOK'
  <2> DEFINE r == Head(toClient[d])
  <2>1. /\ state[d] = "waiting" /\ toClient[d] # <<>>
        /\ UNCHANGED <<large, odd, place, conn>>
        /\ state'[d] = IF r.is = "goodbye" THEN "gone" ELSE "connected"
        /\ r.is # "goodbye" =>
             (flag'[d] <=> flag[d] \/ r.is = "loggedIn" \/ (r.is = "registered" /\ WithLOGIN(r.to)))
        /\ \A c \in Clients : c # d => SameMenu(c)
    BY <1>3 DEF GetReply, TypeOK, server, strange, SameMenu
  <2>2. \A c : Mine(c)' <=> Mine(c)
    BY <2>1 DEF Mine, InSession
  <2>3. ASSUME NEW c \in Clients \ (large \cup odd)
        PROVE  Menu(c)'
    <3>1. CASE c = d
      <4>1. r.is # "goodbye" => (flag'[c] <=> Mine(c))
        BY <2>1, <3>1 DEF MenuOK, Menu
      <4> QED
        BY <2>1, <2>2, <3>1, <4>1 DEF Menu
    <3>2. CASE c # d
      BY <2>1, <2>2, <3>2, MenuSame DEF MenuOK
    <3> QED
      BY <3>1, <3>2
  <2> QED
    BY <2>1, <2>3 DEF MenuOK
<1>4. ASSUME NEW d \in Clients, Quit(d)
      PROVE  MenuOK'
  <2>1. /\ state'[d] = "gone" /\ UNCHANGED <<large, odd, place, conn>>
        /\ \A c \in Clients : c # d => SameMenu(c)
    BY <1>4 DEF Quit, TypeOK, server, strange, SameMenu
  <2>2. \A c : Mine(c)' <=> Mine(c)
    BY <2>1 DEF Mine, InSession
  <2>3. ASSUME NEW c \in Clients \ (large \cup odd), c # d
        PROVE  Menu(c)'
    BY <2>1, <2>2, <2>3, MenuSame DEF MenuOK
  <2>4. Menu(d)'
    BY <2>1 DEF Menu
  <2> QED
    BY <2>1, <2>3, <2>4 DEF MenuOK
<1>5. CASE Accept \/ SaveUserToFile
  <2>1. UNCHANGED <<state, toClient, asked, flag, large, odd>> /\ ~InSession /\ ~InSession'
    BY <1>5 DEF Accept, SaveUserToFile, client, strange, InSession
  <2> QED
    BY <2>1 DEF MenuOK, Menu, Mine
<1>6. CASE Confirm
  <2>1. PICK t \in Known : t = PendingText /\ conn \in Clients /\ t.cmd = "register" /\ t.name = pending[1]
    BY <1>6 DEF Confirm, TypeOK, Known, Commands, PendingText
  <2>2. Writes(t, <<"registered">>) /\ <<"registered">> \in Seq(Kinds)
        /\ Len(<<"registered">>) = 1 /\ <<"registered">>[1] = "registered"
    BY <1>6, <2>1 DEF Confirm, Replies, PendingText, Kinds
  <2>3. /\ \A c \in Clients : c # conn => toClient'[c] = toClient[c]
        /\ state[conn] # "gone" /\ toClient[conn] = <<>> =>
             /\ Len(toClient'[conn]) = 1
             /\ Head(toClient'[conn]).to = t /\ Head(toClient'[conn]).is = "registered"
    BY <2>1, <2>2, ReplyEffect
  <2>4. UNCHANGED <<state, asked, flag, large, odd, conn>> /\ place = "confirm" /\ ~InSession /\ ~InSession'
    BY <1>6 DEF Confirm, SessionOK, client, strange, InSession
  <2>5. ASSUME NEW c \in Clients \ (large \cup odd)
        PROVE  Menu(c)'
    <3>1. Menu(c) /\ Exchange(c) /\ ~Mine(c) /\ ~Mine(c)'
      BY <2>4 DEF MenuOK, ExchangeOK, Mine
    <3>2. CASE c # conn
      <4>1. SameMenu(c)
        BY <2>3, <2>4, <3>2 DEF SameMenu
      <4> QED
        BY <3>1, <4>1, MenuSame
    <3>3. CASE c = conn /\ state[c] = "waiting"
      <4>1. toClient[c] = <<>> /\ asked[c] = t
        BY <2>1, <2>4, <3>1, <3>3 DEF Exchange, Handling
      <4>2. asked[c] # Plain("logout")
        BY <2>1, <4>1, KnownTexts DEF Words
      <4>3. ~flag[c] /\ ~WithLOGIN(t)
        BY <2>1, <3>1, <3>3, <4>1, <4>2 DEF Menu
      <4>4. toClient'[c] # <<>> /\ Head(toClient'[c]).to = t /\ Head(toClient'[c]).is = "registered"
        BY <2>3, <3>3, <4>1
      <4> QED
        BY <2>1, <2>4, <3>1, <3>3, <4>1, <4>3, <4>4 DEF Menu
    <3>4. CASE c = conn /\ state[c] # "waiting"
      BY <2>4, <3>1, <3>4 DEF Menu
    <3> QED
      BY <3>2, <3>3, <3>4
  <2> QED
    BY <2>4, <2>5 DEF MenuOK
<1>7. CASE ExitOut
  <2>1. conn \in Clients /\ Plain("exit") \in Known /\ <<"goodbye">> \in Seq(Kinds)
        /\ Len(<<"goodbye">>) = 1 /\ <<"goodbye">>[1] = "goodbye"
    <3>1. conn \in Clients
      BY <1>7 DEF ExitOut, TypeOK
    <3>2. Plain("exit") \in Known
      BY KnownTexts DEF Words
    <3>3. <<"goodbye">> \in Seq(Kinds)
      BY DEF Kinds
    <3> QED
      BY <3>1, <3>2, <3>3
  <2>2. /\ \A c \in Clients : c # conn => toClient'[c] = toClient[c]
        /\ state[conn] # "gone" /\ toClient[conn] = <<>> =>
             Len(toClient'[conn]) = 1 /\ Head(toClient'[conn]).is = "goodbye"
    <3>1. Writes(Plain("exit"), <<"goodbye">>)
      BY <1>7 DEF ExitOut, Replies
    <3> QED
      BY <2>1, <3>1, ReplyEffect
  <2>3. /\ UNCHANGED <<state, asked, flag, large, odd>> /\ ~InSession /\ ~InSession'
        /\ place = "status" /\ toServer[conn] # <<>>
    BY <1>7 DEF ExitOut, Close, client, strange, InSession
  <2>4. ASSUME NEW c \in Clients \ (large \cup odd)
        PROVE  Menu(c)'
    <3>1. Menu(c) /\ Exchange(c) /\ ~Mine(c) /\ ~Mine(c)'
      BY <2>3 DEF MenuOK, ExchangeOK, Mine
    <3>2. CASE c # conn
      <4>1. SameMenu(c)
        BY <2>2, <2>3, <3>2 DEF SameMenu
      <4> QED
        BY <3>1, <4>1, MenuSame
    <3>3. CASE c = conn /\ state[c] = "waiting"
      <4>1. toClient[c] = <<>>
        BY <2>3, <3>1, <3>3 DEF Exchange
      <4>2. toClient'[c] # <<>> /\ Head(toClient'[c]).is = "goodbye"
        BY <2>2, <3>3, <4>1
      <4> QED
        BY <2>3, <3>1, <3>3, <4>2 DEF Menu
    <3>4. CASE c = conn /\ state[c] # "waiting"
      BY <2>3, <3>1, <3>4 DEF Menu
    <3> QED
      BY <3>2, <3>3, <3>4
  <2> QED
    BY <2>3, <2>4 DEF MenuOK
<1>8. CASE Lost
  <2>1. /\ UNCHANGED <<state, asked, flag, toClient, large, odd>> /\ ~InSession' /\ state[conn] = "gone"
    BY <1>8 DEF Lost, Close, client, strange, InSession
  <2>2. ASSUME NEW c \in Clients \ (large \cup odd)
        PROVE  Menu(c)'
    <3>1. CASE c = conn
      BY <2>1, <3>1 DEF Menu
    <3>2. CASE c # conn
      <4>1. SameMenu(c) /\ ~Mine(c) /\ ~Mine(c)'
        BY <2>1, <3>2 DEF SameMenu, Mine
      <4> QED
        BY <4>1, MenuSame DEF MenuOK
    <3> QED
      BY <3>1, <3>2
  <2> QED
    BY <2>1, <2>2 DEF MenuOK
<1>9. CASE Restart
  <2>1. UNCHANGED <<large, odd>> /\ \A c \in Clients : state'[c] \in {"out", "gone"}
    BY <1>9 DEF Restart, strange
  <2> QED
    BY <2>1 DEF MenuOK, Menu
<1>10. CASE UNCHANGED vars
  BY <1>10 DEF vars, server, client, strange, MenuOK, Menu, Mine, InSession
<1> QED
  BY <1>1, <1>2, <1>3, <1>4, <1>5, <1>6, <1>7, <1>8, <1>9, <1>10, HandleMenu DEF Next, Server

(* The menu a client shows is that of its session at the server, over      *)
(* logins, refused texts, registrations, lost clients and restarts.        *)
THEOREM Phase1MenuFitsSession == Spec => []MenuFitsSession
<1>1. Init => OutOK /\ MenuOK
  BY Phase1Assumption DEF Init, OutOK, MenuOK, Menu
<1>2. Joint /\ [Next]_vars => Joint'
  BY TypeStep, SessionStep, FileStep, ExchangeStep, OutStep, MenuStep DEF Joint, Base
<1>3. Joint => MenuFitsSession
  BY DEF Joint, MenuOK, Menu, Mine, MenuFitsSession
<1>4. Init => Joint
  BY <1>1, InitBase, InitExchange DEF Joint
<1> QED
  BY <1>2, <1>3, <1>4, PTL DEF Spec
=============================================================================
