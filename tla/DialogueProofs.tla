--------------------------- MODULE DialogueProofs ---------------------------
(***************************************************************************)
(* Theorems about Dialogue: for files of any length and channels of any    *)
(* capacity.                                                               *)
(***************************************************************************)
EXTENDS Dialogue, SequenceTheorems, TLAPS

Text == [text : Texts, at : Places]

MainPCs == {"top", "await", "askCommand", "awaitMode", "modeCheck", "askMode",
            "awaitRequest", "askMessage", "sendFile", "exited"}

-----------------------------------------------------------------------------
(* Type correctness.                                                       *)

LEMMA FileIsSeq ==
  /\ InFile \in Seq(Answers) /\ Len(InFile) = 4
  /\ <<"welcome">> \in Seq(Answers) /\ Len(<<"welcome">>) = 1
  /\ Notices \subseteq Answers
  /\ Passing \subseteq Seq(Answers) /\ Failed \subseteq Seq(Answers)
  /\ "words" \notin hazards => Notices = {"reply"} /\ Passing = {InFile} /\ Failed = {<<"reply">>}
<1>1. /\ {"INFO:", "FILE:", "EOF", "reply", "welcome", "Client_"} \subseteq Answers
  BY DEF Answers, FileTexts, ChatTexts
<1>2. /\ <<"INFO:", "FILE:", "EOF", "reply">> \in Seq(Answers)
      /\ Len(<<"INFO:", "FILE:", "EOF", "reply">>) = 4
      /\ <<"INFO:", "FILE:", "EOF", "reply">>[4] = "reply"
  BY <1>1
<1>3. Notices \subseteq Answers /\ ("words" \notin hazards => Notices = {"reply"})
  BY <1>1 DEF Notices, Worded, NameWords
<1>4. InFile \in Seq(Answers) /\ Len(InFile) = 4 /\ InFile[4] = "reply"
  BY <1>2 DEF InFile
<1>5. ASSUME NEW a \in Answers
      PROVE  <<"INFO:", "FILE:", "EOF", a>> \in Seq(Answers) /\ <<a>> \in Seq(Answers)
  BY <1>1
<1>6. Passing \subseteq Seq(Answers) /\ Failed \subseteq Seq(Answers)
  BY <1>3, <1>5 DEF Passing, Failed
<1>7. "words" \notin hazards => Passing = {InFile} /\ Failed = {<<"reply">>}
  BY <1>3 DEF Passing, Failed, InFile
<1> QED
  BY <1>1, <1>3, <1>4, <1>6, <1>7

LEMMA TypeInit == Init => TypeOK
<1> SUFFICES ASSUME Init PROVE TypeOK
  OBVIOUS
<1>1. hazards \in Scenarios /\ MaxChunks[hazards] \in Nat /\ MaxInFlight[hazards] \in Nat \ {0}
  BY DialogueAssumption DEF Init
<1>2. <<>> \in Seq(Text) /\ <<>> \in Seq(Answers) /\ Len(<<>>) = 0
  BY EmptySeq
<1>3. "welcome" \in Answers /\ "command" \in Places /\ "1" \in Modes
  BY DEF Answers, Places, Modes
<1>4. /\ toServer \in Seq(Text) /\ toClient \in Seq(Answers)
      /\ peerFile \in Seq(Answers) /\ otherFile \in Seq(Answers)
      /\ Len(toServer) <= MaxInFlight[hazards] + 1 /\ Len(toClient) <= MaxInFlight[hazards] + 1
  <2>1. Len(toServer) = 0 /\ Len(toClient) = 1
    BY <1>2, FileIsSeq DEF Init
  <2> QED
    BY <1>1, <1>2, <2>1, FileIsSeq DEF Init
<1>5. {messageReceived, isSending, validSending, oneClientSending, isLoginReady,
       isReceivedMsg, isReceivingFileMode, isSendingFileEnd, loggedIn} \subseteq BOOLEAN
  BY DEF Init
<1>6. chunks \in 0 .. MaxChunks[hazards]
  BY <1>1 DEF Init
<1> QED
  BY <1>1, <1>3, <1>4, <1>5, <1>6 DEF Init, TypeOK, Text

(* What can be done with the channels.                                     *)
LEMMA ChannelTypes ==
  ASSUME TypeOK
  PROVE  /\ MaxInFlight[hazards] \in Nat \ {0} /\ MaxChunks[hazards] \in Nat
         /\ toServer # <<>> =>
              /\ Head(toServer) \in Text /\ Tail(toServer) \in Seq(Text)
              /\ Len(Tail(toServer)) <= MaxInFlight[hazards] + 1
         /\ toClient # <<>> =>
              /\ Head(toClient) \in Answers /\ Tail(toClient) \in Seq(Answers)
              /\ Len(Tail(toClient)) <= MaxInFlight[hazards] + 1
         /\ peerFile # <<>> => Head(peerFile) \in Answers /\ Tail(peerFile) \in Seq(Answers)
         /\ otherFile # <<>> => Head(otherFile) \in Answers /\ Tail(otherFile) \in Seq(Answers)
         /\ \A a \in Answers : Len(toClient) < MaxInFlight[hazards] =>
              /\ Append(toClient, a) \in Seq(Answers)
              /\ Len(Append(toClient, a)) <= MaxInFlight[hazards] + 1
         /\ \A a, b \in Answers : Len(toClient) < MaxInFlight[hazards] =>
              /\ Append(Append(toClient, a), b) \in Seq(Answers)
              /\ Len(Append(Append(toClient, a), b)) <= MaxInFlight[hazards] + 1
         /\ \A t \in Text : Len(toServer) < MaxInFlight[hazards] =>
              /\ Append(toServer, t) \in Seq(Text)
              /\ Len(Append(toServer, t)) <= MaxInFlight[hazards] + 1
<1>1. /\ toServer \in Seq(Text) /\ toClient \in Seq(Answers)
      /\ peerFile \in Seq(Answers) /\ otherFile \in Seq(Answers)
      /\ Len(toServer) <= MaxInFlight[hazards] + 1 /\ Len(toClient) <= MaxInFlight[hazards] + 1
  BY DEF TypeOK, Text
<1>2. MaxInFlight[hazards] \in Nat \ {0} /\ MaxChunks[hazards] \in Nat
  BY DialogueAssumption DEF TypeOK
<1>3. toServer # <<>> =>
        /\ Head(toServer) \in Text /\ Tail(toServer) \in Seq(Text)
        /\ Len(Tail(toServer)) <= MaxInFlight[hazards] + 1
  BY <1>1, <1>2, HeadTailProperties, LenProperties
<1>4. toClient # <<>> =>
        /\ Head(toClient) \in Answers /\ Tail(toClient) \in Seq(Answers)
        /\ Len(Tail(toClient)) <= MaxInFlight[hazards] + 1
  BY <1>1, <1>2, HeadTailProperties, LenProperties
<1>5. /\ peerFile # <<>> => Head(peerFile) \in Answers /\ Tail(peerFile) \in Seq(Answers)
      /\ otherFile # <<>> => Head(otherFile) \in Answers /\ Tail(otherFile) \in Seq(Answers)
  BY <1>1, HeadTailProperties
<1>6. ASSUME NEW a \in Answers, Len(toClient) < MaxInFlight[hazards]
      PROVE  /\ Append(toClient, a) \in Seq(Answers)
             /\ Len(Append(toClient, a)) <= MaxInFlight[hazards]
  BY <1>1, <1>2, <1>6, AppendProperties, LenProperties
<1>7. ASSUME NEW a \in Answers, NEW b \in Answers, Len(toClient) < MaxInFlight[hazards]
      PROVE  /\ Append(Append(toClient, a), b) \in Seq(Answers)
             /\ Len(Append(Append(toClient, a), b)) <= MaxInFlight[hazards] + 1
  <2>1. /\ Append(toClient, a) \in Seq(Answers) /\ Len(Append(toClient, a)) \in Nat
        /\ Len(Append(toClient, a)) <= MaxInFlight[hazards]
    BY <1>6, <1>7, LenProperties
  <2> QED
    BY <1>2, <2>1, AppendProperties
<1>8. ASSUME NEW t \in Text, Len(toServer) < MaxInFlight[hazards]
      PROVE  /\ Append(toServer, t) \in Seq(Text)
             /\ Len(Append(toServer, t)) <= MaxInFlight[hazards] + 1
  BY <1>1, <1>2, <1>8, AppendProperties, LenProperties
<1>9. \A n \in Int : n <= MaxInFlight[hazards] => n <= MaxInFlight[hazards] + 1
  BY <1>2
<1>10. \A a \in Answers : Len(toClient) < MaxInFlight[hazards] =>
         /\ Append(toClient, a) \in Seq(Answers)
         /\ Len(Append(toClient, a)) <= MaxInFlight[hazards] + 1
  BY <1>6, <1>9, LenProperties
<1> QED
  BY <1>2, <1>3, <1>4, <1>5, <1>7, <1>8, <1>10

(* Every answer there is.                                                  *)
LEMMA AnAnswer ==
  /\ {"welcome", "reply", "invalid", "loginOK", "logoutMsg", "goodByeMsg",
      "modePrompt", "request", "onlyOne", "Client_", "Client_login", "Client_failed",
      "INFO:", "FILE:", "EOF"} = Answers
  /\ ChatTexts \subseteq Answers /\ FileTexts \subseteq Answers
  /\ \A words \in SUBSET Answers : Echoes(words) \subseteq Answers
  /\ NameWords \subseteq Answers /\ TextWords \subseteq Answers
  BY DEF Answers, ChatTexts, FileTexts, Echoes, NameWords, TextWords

LEMMA SaidType ==
  ASSUME TypeOK, NEW first \in SUBSET Answers, NEW second \in SUBSET Answers,
         Says(first) \/ SaysInTwo(first, second)
  PROVE  toClient' \in Seq(Answers) /\ Len(toClient') <= MaxInFlight[hazards] + 1
  BY ChannelTypes DEF Says, SaysInTwo

LEMMA WorkerType == ASSUME TypeOK, Worker PROVE TypeOK'
<1>1. PICK p : \E texts : Reads(p, texts)
  BY DEF Worker, Register, Login, Logout, Exit, Send, NoCommand, Dropped, NoSelection, Selection,
         Cancelled, NoMessage, Message, FileName, FileRefused, FilePiece, FileEnd
<1>2. /\ toServer # <<>> /\ toServer' = Tail(toServer)
      /\ UNCHANGED <<client, peerFile, otherFile, hazards>>
  BY <1>1 DEF Reads
<1>3. toServer' \in Seq(Text) /\ Len(toServer') <= MaxInFlight[hazards] + 1
  BY <1>2, ChannelTypes
<1>4. ASSUME UNCHANGED toClient
      PROVE  toClient' \in Seq(Answers) /\ Len(toClient') <= MaxInFlight[hazards] + 1
  BY <1>4 DEF TypeOK
<1>5. \/ UNCHANGED toClient
      \/ \E first, second \in SUBSET Answers : Says(first) \/ SaysInTwo(first, second)
  <2> USE AnAnswer DEF Worker, Echoes, NameWords, TextWords
  <2>1. CASE Register \/ Login \/ Logout \/ Exit \/ Send \/ NoCommand
    <3>1. ASSUME NEW first \in SUBSET Answers, Says(first)
          PROVE  \E x, second \in SUBSET Answers : Says(x) \/ SaysInTwo(x, second)
      BY <3>1
    <3>2. {"reply", "invalid"} \cup Echoes(NameWords) \in SUBSET Answers
      OBVIOUS
    <3>3. {"loginOK"} \cup Echoes({"FILE:", "Client_login"}) \in SUBSET Answers
      OBVIOUS
    <3>4. \A a, b \in Answers : {a, b} \in SUBSET Answers /\ {a} \in SUBSET Answers
      OBVIOUS
    <3> QED
      BY <2>1, <3>1, <3>2, <3>3, <3>4 DEF Register, Login, Logout, Exit, Send, NoCommand
  <2>2. CASE Dropped \/ Cancelled \/ FileName
    BY <2>2 DEF Dropped, Cancelled, FileName
  <2>3. CASE NoSelection \/ NoMessage \/ FileRefused \/ FilePiece
    BY <2>3 DEF NoSelection, NoMessage, FileRefused, FilePiece
  <2>4. CASE Selection
    BY <2>4 DEF Selection
  <2>5. CASE Message
    BY <2>5 DEF Message
  <2>6. CASE FileEnd
    BY <2>6 DEF FileEnd
  <2> QED
    BY <2>1, <2>2, <2>3, <2>4, <2>5, <2>6
<1>6. toClient' \in Seq(Answers) /\ Len(toClient') <= MaxInFlight[hazards] + 1
  BY <1>4, <1>5, SaidType
<1>7. place' \in Places /\ mode' \in Modes /\ loggedIn' \in BOOLEAN
  BY DEF Worker, Register, Login, Logout, Exit, Send, NoCommand, Dropped, NoSelection, Selection,
         Cancelled, NoMessage, Message, FileName, FileRefused, FilePiece, FileEnd, server,
         TypeOK, Places, Modes, Reads
<1> QED
  BY <1>2, <1>3, <1>6, <1>7
     DEF TypeOK, Text, client, mainVars, recvVars, flags, sending, incoming

LEMMA PeersType == ASSUME TypeOK, Peers PROVE TypeOK'
<1>1. UNCHANGED <<toServer, server, client, hazards>>
  BY DEF Peers, Chat, BeginFile, PeerFile, OtherFile, Relayed
<1>2. /\ toClient' \in Seq(Answers) /\ Len(toClient') <= MaxInFlight[hazards] + 1
      /\ peerFile' \in Seq(Answers) /\ otherFile' \in Seq(Answers)
  <2> USE DEF TypeOK
  <2>1. CASE Chat
    <3>1. /\ Worded({"Client_"}, {"FILE:"} \cup ChatTexts) \subseteq Answers
          /\ Worded({"reply"}, Answers) \subseteq Answers
      BY AnAnswer DEF Worded
    <3> QED
      BY <2>1, <3>1, SaidType DEF Chat
  <2>2. CASE BeginFile
    BY <2>2, FileIsSeq DEF BeginFile
  <2>3. CASE PeerFile
    <3>1. {Head(peerFile)} \in SUBSET Answers /\ Tail(peerFile) \in Seq(Answers)
      BY <2>3, ChannelTypes DEF PeerFile
    <3> QED
      BY <2>3, <3>1, SaidType DEF PeerFile
  <2>4. CASE OtherFile
    <3>1. otherFile # <<>> => {Head(otherFile)} \in SUBSET Answers /\ Tail(otherFile) \in Seq(Answers)
      BY ChannelTypes
    <3> QED
      BY <2>4, <3>1, FileIsSeq, SaidType DEF OtherFile
  <2> QED
    BY <2>1, <2>2, <2>3, <2>4 DEF Peers
<1> QED
  BY <1>1, <1>2 DEF TypeOK, server, client, mainVars, recvVars, flags, sending, incoming

LEMMA ReceiverType == ASSUME TypeOK, Receiver PROVE TypeOK'
<1> USE ChannelTypes DEF TypeOK, Text, server, client, mainVars, recvVars, flags, sending, incoming
<1>1. CASE ReceiveFile
  BY <1>1 DEF ReceiveFile, Arrives
<1>2. CASE ReceiveChat
  BY <1>2, AnAnswer DEF ReceiveChat, Arrives
<1>3. CASE ReceiveAnswer
  BY <1>3 DEF ReceiveAnswer, Arrives
<1>4. CASE FileEnded
  BY <1>4 DEF FileEnded
<1>5. CASE Signal
  BY <1>5 DEF Signal
<1>6. CASE SetFlags
  BY <1>6 DEF SetFlags
<1> QED
  BY <1>1, <1>2, <1>3, <1>4, <1>5, <1>6 DEF Receiver

(* A step of main: something is typed, or nothing.                         *)
LEMMA MainType ==
  ASSUME TypeOK, User \/ Program
  PROVE  TypeOK'
<1> USE ChannelTypes DEF TypeOK, Text, server, client, mainVars, recvVars, flags, sending,
                         incoming, mainFrame, MainAt, Goto
<1>1. ASSUME NEW text \in Texts, NEW p \in Places, Types(text, p)
      PROVE  toServer' \in Seq(Text) /\ Len(toServer') <= MaxInFlight[hazards] + 1
  BY <1>1 DEF Types
<1>2. /\ Words \cup Lines \cup Modes \cup {"option", "cancel", "send x", "chunk", "EOF", "long"} \subseteq Texts
      /\ {"command", "selection", "message", "file"} \subseteq Places
      /\ "1" \in Modes
  BY DEF Texts, Lines, Places, Modes
<1>3. CASE Top
  BY <1>3 DEF Top
<1>4. CASE Await
  BY <1>4 DEF Await
<1>5. CASE EmptyCommand
  BY <1>5 DEF EmptyCommand
<1>6. CASE AskCommand
  <2>1. PICK word \in Words : Types(word, "command") /\ main' \in {"awaitMode", "top"}
    BY <1>6 DEF AskCommand
  <2>2. toServer' \in Seq(Text) /\ Len(toServer') <= MaxInFlight[hazards] + 1
    BY <1>1, <1>2, <2>1
  <2> QED
    BY <1>6, <2>1, <2>2 DEF AskCommand
<1>7. CASE AwaitMode
  BY <1>7 DEF AwaitMode
<1>8. CASE ModeCheck
  BY <1>8 DEF ModeCheck
<1>9. CASE AskMode
  <2>1. PICK m \in Modes : relayMsg' = m /\ Types(m, "selection")
    BY <1>9 DEF AskMode
  <2>2. toServer' \in Seq(Text) /\ Len(toServer') <= MaxInFlight[hazards] + 1
    BY <1>1, <1>2, <2>1
  <2> QED
    BY <1>9, <2>1, <2>2 DEF AskMode
<1>10. CASE AskMode_Wrong
  <2>1. toServer' \in Seq(Text) /\ Len(toServer') <= MaxInFlight[hazards] + 1
    BY <1>1, <1>2, <1>10 DEF AskMode_Wrong
  <2> QED
    BY <1>10, <2>1 DEF AskMode_Wrong
<1>11. CASE AwaitRequest
  BY <1>11 DEF AwaitRequest
<1>12. CASE DropMessage
  BY <1>12 DEF DropMessage
<1>13. CASE AskMessage
  <2>1. toServer' \in Seq(Text) /\ Len(toServer') <= MaxInFlight[hazards] + 1
    BY <1>1, <1>2, <1>13 DEF AskMessage
  <2> QED
    BY <1>13, <2>1 DEF AskMessage
<1>14. CASE CancelFile
  <2>1. toServer' \in Seq(Text) /\ Len(toServer') <= MaxInFlight[hazards] + 1
    BY <1>1, <1>2, <1>14 DEF CancelFile
  <2> QED
    BY <1>14, <2>1 DEF CancelFile
<1>15. CASE AskFile
  <2>1. toServer' \in Seq(Text) /\ Len(toServer') <= MaxInFlight[hazards] + 1
    BY <1>1, <1>2, <1>15 DEF AskFile
  <2> QED
    BY <1>15, <2>1 DEF AskFile
<1>16. CASE SendChunk
  <2>1. toServer' \in Seq(Text) /\ Len(toServer') <= MaxInFlight[hazards] + 1
    BY <1>1, <1>2, <1>16 DEF SendChunk
  <2> QED
    BY <1>16, <2>1 DEF SendChunk
<1>17. CASE SendEOF
  <2>1. toServer' \in Seq(Text) /\ Len(toServer') <= MaxInFlight[hazards] + 1
    BY <1>1, <1>2, <1>17 DEF SendEOF
  <2> QED
    BY <1>17, <2>1 DEF SendEOF
<1>18. CASE FileVanished
  BY <1>18 DEF FileVanished
<1>19. CASE LongLine
  <2> PICK z \in Places :
        \E rest \in {<<>>} \cup {<<[text |-> t, at |-> z]>> : t \in Words \cup {"text"}} :
          /\ Len(toServer) < MaxInFlight[hazards]
          /\ toServer' = Append(toServer, [text |-> "long", at |-> z]) \o rest
    BY <1>19 DEF LongLine
  <2>1. PICK rest \in {<<>>} \cup {<<[text |-> t, at |-> z]>> : t \in Words \cup {"text"}} :
          /\ Len(toServer) < MaxInFlight[hazards]
          /\ toServer' = Append(toServer, [text |-> "long", at |-> z]) \o rest
    OBVIOUS
  <2>2. main' \in {"sendFile", "top"} /\ chunks' \in 0 .. MaxChunks[hazards] /\ messageReceived' \in BOOLEAN
    BY <1>19 DEF LongLine
  <2> DEFINE b == Append(toServer, [text |-> "long", at |-> z])
  <2>3. /\ b \in Seq(Text) /\ Len(b) <= MaxInFlight[hazards] /\ Len(b) \in Nat
    <3>1. [text |-> "long", at |-> z] \in Text
      BY <1>2
    <3>2. Len(toServer) \in Nat /\ toServer \in Seq(Text)
      BY LenProperties
    <3> QED
      BY <2>1, <3>1, <3>2, AppendProperties
  <2>4. rest \in Seq(Text) /\ Len(rest) <= 1 /\ Len(rest) \in Nat
    <3>1. CASE rest = <<>>
      BY <3>1, EmptySeq
    <3>2. CASE rest # <<>>
      <4>1. PICK t \in Words \cup {"text"} : rest = <<[text |-> t, at |-> z]>>
        BY <2>1, <3>2
      <4>2. [text |-> t, at |-> z] \in Text
        BY <1>2 DEF Lines
      <4> QED
        BY <4>1, <4>2
    <3> QED
      BY <3>1, <3>2
  <2> HIDE DEF b
  <2>5. b \o rest \in Seq(Text) /\ Len(b \o rest) = Len(b) + Len(rest)
    BY <2>3, <2>4, ConcatProperties
  <2>6. toServer' = b \o rest
    BY <2>1 DEF b
  <2>7. toServer' \in Seq(Text) /\ Len(toServer') <= MaxInFlight[hazards] + 1
    <3>1. \A i, j, k \in Int : i <= k /\ j <= 1 => i + j <= k + 1
      OBVIOUS
    <3>2. MaxInFlight[hazards] \in Int
      OBVIOUS
    <3>3. Len(b) + Len(rest) <= MaxInFlight[hazards] + 1
      BY <2>3, <2>4, <3>1, <3>2
    <3> QED
      BY <2>5, <2>6, <3>3
  <2> QED
    BY <1>19, <2>2, <2>7 DEF LongLine
<1> QED
  BY <1>3, <1>4, <1>5, <1>6, <1>7, <1>8, <1>9, <1>10, <1>11, <1>12, <1>13, <1>14, <1>15,
     <1>16, <1>17, <1>18, <1>19 DEF User, Program

LEMMA TypeStep == TypeOK /\ [Next]_vars => TypeOK'
<1>1. TypeOK /\ UNCHANGED vars => TypeOK'
  BY DEF TypeOK, vars, server, client, mainVars, recvVars, flags, sending, incoming
<1> QED
  BY <1>1, WorkerType, PeersType, ReceiverType, MainType DEF Next

(* Channels, threads and flags keep their types, whatever goes wrong.      *)
THEOREM DialogueTypeOK == Spec => []TypeOK
<1> QED
  BY TypeInit, TypeStep, PTL DEF Spec

-----------------------------------------------------------------------------
(* What is on its way to the worker.                                       *)

InFileMode == {"3", "4"}

(* A text that the worker does not answer, and where it is after it; r is  *)
(* the mode of the dialogue.                                               *)
Silent(t, r) == t.text \in {"cancel", "chunk"} \/ (t.text = "send x" /\ r \in InFileMode)
After(t)     == IF t.text = "cancel" THEN "command" ELSE "file"

(* A text as it is typed at each question.                                 *)
Fits(t, r) ==
  \/ t.at = "command" /\ t.text \in Words \ {"SEND"}
  \/ t.at = "selection" /\ t.text \in {"option", r}
  \/ t.at = "message" /\ IF r \in InFileMode THEN t.text \in {"cancel", "send x"}
                                             ELSE t.text \in Lines
  \/ t.at = "file" /\ t.text \in {"chunk", "EOF"}

(* The texts on their way continue one another from place p on; only the   *)
(* last is one that the worker answers.                                    *)
Chain(q, p, r) ==
  /\ \A i \in DOMAIN q : Fits(q[i], r)
  /\ q # <<>> => q[1].at = p
  /\ \A i \in DOMAIN q : i < Len(q) => Silent(q[i], r) /\ q[i + 1].at = After(q[i])

Newest(q)  == q[Len(q)]
Owed(q, r) == q # <<>> /\ ~Silent(Newest(q), r)

(* With all these read the worker is at z, if it has not to answer.        *)
Ends(q, p, z, r) ==
  IF q = <<>> THEN p = z ELSE Silent(Newest(q), r) /\ After(Newest(q)) = z

LEMMA EmptyChain ==
  ASSUME NEW p, NEW r
  PROVE  /\ Chain(<<>>, p, r) /\ ~Owed(<<>>, r)
         /\ \A z : Ends(<<>>, p, z, r) <=> p = z
<1>1. DOMAIN <<>> = {}
  BY EmptySeq, LenProperties
<1> QED
  BY <1>1 DEF Chain, Owed, Ends

LEMMA Typed ==
  ASSUME NEW q \in Seq(Text), NEW t \in Text, NEW p, NEW r,
         Chain(q, p, r), Fits(t, r), Ends(q, p, t.at, r)
  PROVE  /\ Chain(Append(q, t), p, r)
         /\ Append(q, t) # <<>> /\ Newest(Append(q, t)) = t
<1> DEFINE a == Append(q, t)
           n == Len(q) + 1
<1>1. /\ a \in Seq(Text) /\ Len(a) = n /\ Len(q) \in Nat
      /\ DOMAIN q = 1..Len(q) /\ DOMAIN a = 1..n
      /\ \A i \in DOMAIN q : a[i] = q[i]
      /\ a[n] = t
  BY AppendProperties, LenProperties
<1>2. q = <<>> <=> Len(q) = 0
  BY EmptySeq
<1> HIDE DEF a
<1>3. a # <<>> /\ Newest(a) = t
  BY <1>1, EmptySeq DEF Newest
<1>4. \A i \in DOMAIN a : i \in DOMAIN q \/ i = n
  BY <1>1
<1>5. \A i \in DOMAIN a : Fits(a[i], r)
  BY <1>1, <1>4 DEF Chain
<1>6. a[1].at = p
  <2>1. CASE q = <<>>
    BY <1>1, <1>2, <2>1 DEF Ends
  <2>2. CASE q # <<>>
    <3>1. 1 \in DOMAIN q
      BY <1>1, <1>2, <2>2
    <3> QED
      BY <1>1, <2>2, <3>1 DEF Chain
  <2> QED
    BY <2>1, <2>2
<1>7. ASSUME NEW i \in DOMAIN a, i < Len(a)
      PROVE  Silent(a[i], r) /\ a[i + 1].at = After(a[i])
  <2>1. i \in DOMAIN q /\ q # <<>> /\ a[i] = q[i]
    BY <1>1, <1>2, <1>7
  <2>2. CASE i < Len(q)
    <3>1. i + 1 \in DOMAIN q
      BY <1>1, <2>1, <2>2
    <3> QED
      BY <1>1, <2>1, <2>2, <3>1 DEF Chain
  <2>3. CASE i = Len(q)
    BY <1>1, <2>1, <2>3 DEF Ends, Newest
  <2> QED
    BY <1>1, <2>1, <2>2, <2>3
<1> QED
  BY <1>3, <1>5, <1>6, <1>7 DEF Chain, a

LEMMA TextTaken ==
  ASSUME NEW q \in Seq(Text), q # <<>>, NEW p, NEW r, Chain(q, p, r)
  PROVE  /\ Fits(Head(q), r) /\ Head(q).at = p /\ Head(q) \in Text
         /\ ~Silent(Head(q), r) => Tail(q) = <<>> /\ Newest(q) = Head(q) /\ Owed(q, r)
         /\ Silent(Head(q), r) =>
              /\ Chain(Tail(q), After(Head(q)), r)
              /\ Owed(Tail(q), r) <=> Owed(q, r)
              /\ Owed(q, r) => Newest(Tail(q)) = Newest(q)
              /\ \A z : Ends(q, p, z, r) => Ends(Tail(q), After(Head(q)), z, r)
<1> DEFINE b == Tail(q)
<1>1. /\ Len(q) \in Nat \ {0} /\ DOMAIN q = 1..Len(q) /\ q[1] \in Text
      /\ Head(q) = q[1]
  BY LenProperties, EmptySeq, HeadTailProperties, ElementOfSeq
<1>2. /\ b \in Seq(Text) /\ Len(b) = Len(q) - 1 /\ DOMAIN b = 1..(Len(q) - 1)
      /\ \A i \in DOMAIN b : b[i] = q[i + 1]
  BY LenProperties, HeadTailProperties
<1>3. b = <<>> <=> Len(q) = 1
  BY <1>1, <1>2, EmptySeq
<1> HIDE DEF b
<1>4. 1 \in DOMAIN q
  BY <1>1
<1>5. Fits(Head(q), r) /\ Head(q).at = p /\ Head(q) \in Text
  BY <1>1, <1>4 DEF Chain
<1>6. ASSUME ~Silent(Head(q), r)
      PROVE  b = <<>> /\ Newest(q) = Head(q) /\ Owed(q, r)
  <2>1. ~(1 < Len(q))
    BY <1>1, <1>4, <1>6 DEF Chain
  <2>2. Len(q) = 1
    BY <1>1, <2>1
  <2> QED
    BY <1>1, <1>3, <1>6, <2>2 DEF Newest, Owed
<1>7. ASSUME Silent(Head(q), r)
      PROVE  /\ Chain(b, After(Head(q)), r)
             /\ Owed(b, r) <=> Owed(q, r)
             /\ Owed(q, r) => Newest(b) = Newest(q)
             /\ \A z : Ends(q, p, z, r) => Ends(b, After(Head(q)), z, r)
  <2>1. CASE b = <<>>
    <3>1. Newest(q) = Head(q)
      BY <1>1, <1>3, <2>1 DEF Newest
    <3>2. \A z : Ends(q, p, z, r) => After(Head(q)) = z
      BY <3>1 DEF Ends
    <3>3. ~Owed(q, r)
      BY <1>7, <3>1 DEF Owed
    <3> QED
      BY <2>1, <3>2, <3>3, EmptyChain
  <2>2. CASE b # <<>>
    <3>1. Len(q) > 1 /\ Len(q) - 1 \in DOMAIN b /\ (Len(q) - 1) + 1 = Len(q)
      BY <1>1, <1>2, <1>3, <2>2
    <3>2. Newest(b) = Newest(q)
      BY <1>2, <3>1 DEF Newest
    <3>3. \A i \in DOMAIN b : i + 1 \in DOMAIN q /\ (i < Len(b) => i + 1 < Len(q) /\ i + 1 \in DOMAIN b)
      BY <1>1, <1>2
    <3>4. \A i \in DOMAIN b : Fits(b[i], r)
      BY <1>2, <3>3 DEF Chain
    <3>5. b[1].at = After(Head(q))
      <4>1. q[1 + 1].at = After(q[1]) /\ 1 \in DOMAIN b
        BY <1>1, <1>2, <1>4, <3>1 DEF Chain
      <4> QED
        BY <1>1, <1>2, <4>1
    <3>6. \A i \in DOMAIN b : i < Len(b) => Silent(b[i], r) /\ b[i + 1].at = After(b[i])
      <4>1. ASSUME NEW i \in DOMAIN b, i < Len(b)
            PROVE  Silent(b[i], r) /\ b[i + 1].at = After(b[i])
        <5>1. Silent(q[i + 1], r) /\ q[(i + 1) + 1].at = After(q[i + 1])
          BY <3>3, <4>1 DEF Chain
        <5> QED
          BY <1>2, <3>3, <4>1, <5>1
      <4> QED
        BY <4>1
    <3>7. \A z : Ends(q, p, z, r) <=> Ends(b, After(Head(q)), z, r)
      BY <2>2, <3>2 DEF Ends
    <3> QED
      BY <2>2, <3>2, <3>4, <3>5, <3>6, <3>7 DEF Chain, Owed
  <2> QED
    BY <2>1, <2>2
<1> QED
  BY <1>5, <1>6, <1>7 DEF b

-----------------------------------------------------------------------------
(* What is on its way to the client: records of a peer's file, in their    *)
(* order, messages of other clients, and at most one answer of the worker: *)
(* one that main is woken for, or one that looks like something else.      *)

Spoken == Answers \ (FileTexts \cup ChatTexts)
Echoed == {"FILE:"} \cup ChatTexts
Own    == Spoken \cup Echoed
None   == "none"

(* Where a file is of which p records have been written, or received.      *)
NextPhase(p) == IF p = 3 THEN 0 ELSE p + 1
Phase(f)     == IF f = <<>> THEN 0 ELSE 4 - Len(f)

(* What is left to write of a file.                                        *)
Rest == {<<>>, InFile, <<"FILE:", "EOF", "reply">>, <<"EOF", "reply">>, <<"reply">>}
Left == peerFile \in Rest /\ (peerFile # <<>> => "file" \in hazards)

(* A record that is no answer takes whoever reads it from phase s to t.    *)
Passes(a, s, t) ==
  IF a = "Client_" THEN t = s ELSE a = InFile[s + 1] /\ t = NextPhase(s)

(* From phase r, where the receiver is, to phase e, where the peer is; own *)
(* is the answer between them.                                             *)
Way(q, P, r, own, e) ==
  \E ph \in [0 .. Len(q) -> P], k \in 0 .. Len(q) :
    /\ ph[0] = r /\ ph[Len(q)] = e
    /\ IF k = 0 THEN own = None ELSE own = q[k] /\ own \in Own
    /\ \A i \in 1 .. Len(q) :
         IF i = k THEN ph[i] = ph[i - 1] ELSE Passes(q[i], ph[i - 1], ph[i])

LEMMA WayShown ==
  ASSUME NEW q, NEW P, NEW r, NEW own, NEW e, NEW n, Len(q) = n,
         NEW ph \in [0 .. n -> P], NEW k \in 0 .. n, ph[0] = r, ph[n] = e,
         IF k = 0 THEN own = None ELSE own = q[k] /\ own \in Own,
         \A i \in 1 .. n : IF i = k THEN ph[i] = ph[i - 1] ELSE Passes(q[i], ph[i - 1], ph[i])
  PROVE  Way(q, P, r, own, e)
  BY DEF Way

LEMMA SpokenAnswers ==
  /\ Spoken = {"welcome", "reply", "invalid", "loginOK", "logoutMsg", "goodByeMsg",
               "modePrompt", "request", "onlyOne"}
  /\ None \notin Answers /\ Spoken \subseteq Answers /\ Own \subseteq Answers
  /\ Own = Spoken \cup Echoed /\ Spoken \cap Echoed = {}
  /\ Echoed = {"FILE:", "Client_", "Client_login", "Client_failed"}
  BY DEF Spoken, Echoed, Own, Answers, FileTexts, ChatTexts, None

LEMMA Records ==
  /\ InFile[1] = "INFO:" /\ InFile[2] = "FILE:" /\ InFile[3] = "EOF" /\ InFile[4] = "reply"
  BY DEF InFile

LEMMA WayBegins ==
  ASSUME NEW P, 0 \in P PROVE Way(<<"welcome">>, P, 0, "welcome", 0)
<1> DEFINE ph == [i \in 0 .. 1 |-> 0]
<1>1. Len(<<"welcome">>) = 1 /\ <<"welcome">>[1] = "welcome" /\ "welcome" \in Own
  BY SpokenAnswers
<1>2. ph \in [0 .. 1 -> P] /\ ph[0] = 0 /\ ph[1] = 0
  OBVIOUS
<1> HIDE DEF ph
<1>3. \A i \in 1 .. 1 : i = 1 /\ i - 1 = 0
  OBVIOUS
<1> QED
  BY <1>1, <1>2, <1>3 DEF Way

(* A record is written.                                                    *)
LEMMA WayExtended ==
  ASSUME NEW q \in Seq(Answers), NEW a \in Answers, NEW P, NEW r, NEW own, NEW e,
         Way(q, P, r, own, e)
  PROVE  /\ own = None /\ a \in Own => Way(Append(q, a), P, r, a, e)
         /\ \A f \in P : Passes(a, e, f) => Way(Append(q, a), P, r, own, f)
<1> DEFINE n == Len(q) + 1
           b == Append(q, a)
<1>1. /\ Len(q) \in Nat /\ Len(b) = n /\ \A i \in 1 .. Len(q) : b[i] = q[i] /\ q[i] \in Answers
      /\ b[n] = a
  BY AppendProperties, LenProperties, ElementOfSeq
<1> HIDE DEF b
<1>2. PICK ph \in [0 .. Len(q) -> P], k \in 0 .. Len(q) :
        /\ ph[0] = r /\ ph[Len(q)] = e
        /\ IF k = 0 THEN own = None ELSE own = q[k] /\ own \in Own
        /\ \A i \in 1 .. Len(q) :
             IF i = k THEN ph[i] = ph[i - 1] ELSE Passes(q[i], ph[i - 1], ph[i])
  BY DEF Way
<1>3. ASSUME NEW f \in P, NEW j \in 0 .. n,
             IF j = n THEN f = e /\ k = 0 ELSE j = k /\ Passes(a, e, f)
      PROVE  \E ps \in [0 .. n -> P] :
               /\ ps[0] = r /\ ps[n] = f
               /\ \A i \in 1 .. n :
                    IF i = j THEN ps[i] = ps[i - 1] ELSE Passes(b[i], ps[i - 1], ps[i])
  <2> DEFINE ps == [i \in 0 .. n |-> IF i = n THEN f ELSE ph[i]]
  <2>1. /\ ps \in [0 .. n -> P] /\ ps[0] = r /\ ps[n] = f /\ ps[n - 1] = e
        /\ \A i \in 0 .. Len(q) : ps[i] = ph[i]
    BY <1>1, <1>2
  <2> HIDE DEF ps
  <2>2. ASSUME NEW i \in 1 .. n
        PROVE  IF i = j THEN ps[i] = ps[i - 1] ELSE Passes(b[i], ps[i - 1], ps[i])
    <3>1. CASE i = n
      BY <1>1, <1>3, <2>1, <3>1
    <3>2. CASE i # n
      <4>1. i \in 1 .. Len(q) /\ i \in 0 .. Len(q) /\ i - 1 \in 0 .. Len(q)
        BY <1>1, <3>2
      <4>2. i = j <=> i = k
        BY <1>1, <1>3, <3>2, <4>1
      <4> QED
        BY <1>1, <1>2, <2>1, <4>1, <4>2
    <3> QED
      BY <3>1, <3>2
  <2> QED
    BY <2>1, <2>2
<1>4. ASSUME own = None, a \in Own PROVE Way(b, P, r, a, e)
  <2>1. k = 0
    BY <1>1, <1>2, <1>4, SpokenAnswers
  <2>2. n \in 0 .. n /\ n # 0 /\ e \in P
    BY <1>1, <1>2
  <2>3. PICK ps \in [0 .. n -> P] :
          /\ ps[0] = r /\ ps[n] = e
          /\ \A i \in 1 .. n :
               IF i = n THEN ps[i] = ps[i - 1] ELSE Passes(b[i], ps[i - 1], ps[i])
    BY <1>3, <2>1, <2>2
  <2>4. IF n = 0 THEN a = None ELSE a = b[n] /\ a \in Own
    BY <1>1, <1>4, <2>2
  <2> HIDE DEF n
  <2> QED
    BY <1>1, <2>2, <2>3, <2>4, WayShown
<1>5. ASSUME NEW f \in P, Passes(a, e, f) PROVE Way(b, P, r, own, f)
  <2>1. k \in 0 .. n /\ k # n
    BY <1>1
  <2>2. IF k = 0 THEN own = None ELSE own = b[k] /\ own \in Own
    BY <1>1, <1>2
  <2> QED
    BY <1>1, <1>3, <1>5, <2>1, <2>2 DEF Way
<1> QED
  BY <1>4, <1>5 DEF b

(* A record is received: the answer, or one that is none.                  *)
LEMMA WayShortened ==
  ASSUME NEW q \in Seq(Answers), q # <<>>, NEW P, NEW r, NEW own, NEW e, Way(q, P, r, own, e)
  PROVE  \/ own = Head(q) /\ own \in Own /\ Way(Tail(q), P, r, None, e)
         \/ \E s \in P : Passes(Head(q), r, s) /\ Way(Tail(q), P, s, own, e)
<1> DEFINE n == Len(q) - 1
           b == Tail(q)
<1>1. /\ Len(q) \in Nat \ {0} /\ n \in Nat /\ Len(b) = n /\ Head(q) = q[1]
      /\ \A i \in 1 .. n : b[i] = q[i + 1]
  BY LenProperties, EmptySeq, HeadTailProperties
<1> HIDE DEF b
<1>2. PICK ph \in [0 .. Len(q) -> P], k \in 0 .. Len(q) :
        /\ ph[0] = r /\ ph[Len(q)] = e
        /\ IF k = 0 THEN own = None ELSE own = q[k] /\ own \in Own
        /\ \A i \in 1 .. Len(q) :
             IF i = k THEN ph[i] = ph[i - 1] ELSE Passes(q[i], ph[i - 1], ph[i])
  BY DEF Way
<1> DEFINE j  == IF k = 0 THEN 0 ELSE k - 1
           ps == [i \in 0 .. n |-> ph[i + 1]]
<1>3. /\ ps \in [0 .. n -> P] /\ ps[0] = ph[1] /\ ps[n] = e /\ j \in 0 .. n
      /\ \A i \in 0 .. n : ps[i] = ph[i + 1]
      /\ ph[1] \in P
  BY <1>1, <1>2
<1> HIDE DEF ps
<1>4. ASSUME NEW i \in 1 .. n
      PROVE  IF i + 1 = k THEN ps[i] = ps[i - 1] ELSE Passes(b[i], ps[i - 1], ps[i])
  <2>1. i + 1 \in 1 .. Len(q) /\ i - 1 \in 0 .. n /\ i \in 0 .. n /\ (i + 1) - 1 = (i - 1) + 1
    BY <1>1
  <2> QED
    BY <1>1, <1>2, <1>3, <2>1
<1>5. IF 1 = k THEN ph[1] = r ELSE Passes(q[1], r, ph[1])
  <2>1. 1 \in 1 .. Len(q) /\ 1 - 1 = 0
    BY <1>1
  <2> QED
    BY <1>2, <2>1
<1>6. CASE k = 1
  <2>1. own = Head(q) /\ own \in Own
    BY <1>1, <1>2, <1>6
  <2>2. \A i \in 1 .. n : IF i = 0 THEN ps[i] = ps[i - 1] ELSE Passes(b[i], ps[i - 1], ps[i])
    BY <1>1, <1>4, <1>6
  <2>3. ps[0] = r /\ 0 \in 0 .. n
    BY <1>1, <1>3, <1>5, <1>6
  <2>4. Way(b, P, r, None, e)
    BY <1>1, <1>3, <2>2, <2>3 DEF Way
  <2> QED
    BY <2>1, <2>4 DEF b
<1>7. CASE k # 1
  <2>1. Passes(Head(q), r, ph[1])
    BY <1>1, <1>5, <1>7
  <2>2. \A i \in 1 .. n : i = j <=> i + 1 = k
    BY <1>1, <1>2, <1>7
  <2>3. \A i \in 1 .. n : IF i = j THEN ps[i] = ps[i - 1] ELSE Passes(b[i], ps[i - 1], ps[i])
    BY <1>4, <2>2
  <2>4. IF j = 0 THEN own = None ELSE own = b[j] /\ own \in Own
    <3>1. CASE k = 0
      BY <1>2, <3>1
    <3>2. CASE k # 0
      <4>1. j \in 1 .. n /\ j + 1 = k
        BY <1>1, <1>2, <1>7, <3>2
      <4> QED
        BY <1>1, <1>2, <3>2, <4>1
    <3> QED
      BY <3>1, <3>2
  <2>5. Way(b, P, ph[1], own, e)
    <3>1. Len(b) = n /\ j \in 0 .. n /\ ps \in [0 .. n -> P] /\ ps[0] = ph[1] /\ ps[n] = e
      BY <1>1, <1>3
    <3> HIDE DEF j, n
    <3> QED
      BY <2>3, <2>4, <3>1, WayShown
  <2> QED
    BY <1>3, <2>1, <2>5 DEF b
<1> QED
  BY <1>6, <1>7

-----------------------------------------------------------------------------
(* The inductive invariant, in named parts.  It is about orderly           *)
(* behaviours.  r is the phase of the receiver in what peers pass on, own  *)
(* the worker's answer in the channel, or None.                            *)

Owes  == Owed(toServer, relayMsg)
At(z) == Ends(toServer, place, z, relayMsg)

Phases == IF "file" \in hazards THEN 0 .. 3 ELSE {0}

Channel(r, own) == Way(toClient, Phases, r, own, Phase(peerFile))

(* In the hands of the receiver; a reply has no flag to set.               *)
InHand  == recv \in {"fileEnd", "signal", "flags"}
Applied == InHand => message = "reply"

(* The answer after a file does not wake main.  If it was the worker's,    *)
(* the peer's own reply, which comes late, does.                           *)
Late(r)   == r = 3 /\ (recv = "fileEnd" \/ ~isSendingFileEnd)
Waking(r) == recv = "signal" \/ Late(r) \/ messageReceived

(* An answer of the worker whose flags are not set yet.                    *)
Fresh(own, a) == own = a \/ (InHand /\ message = a /\ a # "reply")

Waits == {"top", "await", "awaitMode", "awaitRequest"}

(* Main has not to be answered or woken: it is at work itself - or, if a   *)
(* file has swallowed the answer, waits for ever.                          *)
Idle(r, own) == ~Owes /\ own = None /\ recv # "signal" /\ ~Late(r) /\ Applied

(* The worker reads each text at the question it was typed for.            *)
QueueOK ==
  /\ Chain(toServer, place, relayMsg)
  /\ place = "message" => mode = relayMsg
  /\ place \in {"selection", "message", "file"} => loggedIn

Receiving(r) ==
  /\ isReceivingFileMode <=> r \in {1, 2}
  /\ isSendingFileEnd =>
       /\ r = 3 \/ (r = 0 /\ recv = "fileEnd" /\ message = "reply")
       /\ "file" \in hazards
  /\ recv = "fileEnd" => isSendingFileEnd
  /\ InHand => message \in Spoken

(* There is at most one of: a text to be answered, an answer on its way or *)
(* in hand, a signal to be given or taken.                                 *)
OneAnswer(r, own) ==
  /\ Owes => own = None /\ ~Waking(r) /\ Applied
  /\ own # None => ~Waking(r) /\ Applied /\ toServer = <<>>
  /\ ~Applied => toServer = <<>>
  /\ recv = "signal" => ~messageReceived /\ ~Late(r) /\ toServer = <<>> /\ message # "goodByeMsg"
  /\ Late(r) => ~messageReceived /\ toServer = <<>>
  /\ recv = "flags" => messageReceived \/ Late(r) \/ message \in {"goodByeMsg", "reply"}

LoginOK(r, own) ==
  /\ Fresh(own, "loginOK") => loggedIn
  /\ Fresh(own, "logoutMsg") => ~loggedIn
  /\ /\ ~Fresh(own, "loginOK") /\ ~Fresh(own, "logoutMsg")
     /\ Owes \/ own # None \/ Waking(r) \/ main \notin Waits \cup {"exited"}
     => isLoginReady = loggedIn

(* Where worker and answer are while main is at each of its places.        *)
Waiting(r, own) ==
  main \in {"top", "await"} =>
    /\ Owes => Newest(toServer).text \notin Modes /\ (Newest(toServer).text = "send" => ~loggedIn)
    /\ \A a \in Spoken : Fresh(own, a) =>
         /\ a \notin {"modePrompt", "request", "onlyOne"}
         /\ place = IF a = "goodByeMsg" THEN "closed" ELSE "command"
    /\ Waking(r) /\ Applied => At("command")

AskingCommand(r, own) ==
  main = "askCommand" => Idle(r, own) /\ ~messageReceived /\ At("command")

AwaitingMode(r, own) ==
  main = "awaitMode" =>
    /\ ~oneClientSending
    /\ toServer # <<>> => Owes /\ Newest(toServer).text = "send" /\ loggedIn
    /\ \A a \in Spoken : Fresh(own, a) => a = "modePrompt" /\ place = "selection"
    /\ Waking(r) /\ Applied => place = "selection" /\ isSending /\ validSending

AskingMode(r, own) ==
  main \in {"modeCheck", "askMode"} =>
    /\ Idle(r, own) /\ ~messageReceived /\ toServer = <<>> /\ place = "selection"
    /\ isSending /\ validSending /\ ~oneClientSending

AwaitingRequest(r, own) ==
  main = "awaitRequest" =>
    /\ validSending
    /\ toServer # <<>> => Owes /\ Newest(toServer).text = relayMsg /\ ~oneClientSending
    /\ \A a \in Spoken : Fresh(own, a) =>
         /\ ~oneClientSending
         /\ \/ a = "request" /\ place = "message"
            \/ a = "onlyOne" /\ place = "command" /\ relayMsg \in {"2", "4"}
    /\ Waking(r) /\ Applied =>
         IF oneClientSending THEN place = "command" /\ relayMsg \in {"2", "4"}
                             ELSE place = "message"

AskingMessage(r, own) ==
  main = "askMessage" =>
    Idle(r, own) /\ toServer = <<>> /\ place = "message" /\ validSending /\ ~oneClientSending

SendingFile(r, own) ==
  main = "sendFile" =>
    Idle(r, own) /\ ~messageReceived /\ relayMsg \in InFileMode /\ At("file")

Ended(r, own) ==
  /\ main = "exited" <=> recv = "exited"
  /\ main = "exited" => place = "closed"
  /\ place = "closed" => toServer = <<>> /\ main \in {"top", "await", "exited"}
  /\ Fresh(own, "goodByeMsg") => place = "closed"

AtMain(r, own) ==
  /\ Waiting(r, own) /\ AskingCommand(r, own) /\ AwaitingMode(r, own) /\ AskingMode(r, own)
  /\ AwaitingRequest(r, own) /\ AskingMessage(r, own) /\ SendingFile(r, own)

InTurn(r, own) ==
  /\ QueueOK /\ Receiving(r) /\ OneAnswer(r, own) /\ LoginOK(r, own) /\ AtMain(r, own)
  /\ Ended(r, own)

Turn ==
  /\ Left
  /\ \E r \in Phases, own \in Spoken \cup {None} : Channel(r, own) /\ InTurn(r, own)

(* Or the worker's answer was one that the receiver takes for something    *)
(* else: then main is not woken, and all the worker has to read is read.   *)
Quiet(r) ==
  /\ "echo" \in hazards
  /\ toServer = <<>> /\ main \in Waits /\ ~messageReceived
  /\ recv \in {"read", "fileEnd", "flags"}
  /\ InHand => message # "goodByeMsg"
  /\ r \in {1, 2} => isReceivingFileMode
  /\ r = 3 => recv # "fileEnd" /\ (isReceivingFileMode \/ isSendingFileEnd)

Lost ==
  /\ Left
  /\ \E r \in Phases, own \in Echoed \cup {None} : Channel(r, own) /\ Quiet(r)

(* What the receiver has to do with while all answers are heard.           *)
Plain == Spoken \cup (IF "chat" \in hazards THEN {"Client_"} ELSE {})

FromOthers ==
  Heard =>
    /\ ~isReceivingFileMode /\ ~isSendingFileEnd
    /\ peerFile \in {<<>>, <<"reply">>}
    /\ toClient \in Seq(Plain)
    /\ InHand => message \in Spoken

(* v is what the last loginOK or logoutMsg of q tells; w, without one.     *)
LoginTexts == {"loginOK", "logoutMsg"}

Follows(q, v, w) ==
  /\ \A i \in DOMAIN q :
       q[i] \in LoginTexts /\ (\A j \in DOMAIN q : j > i => q[j] \notin LoginTexts)
       => (v <=> q[i] = "loginOK")
  /\ (\A i \in DOMAIN q : q[i] \notin LoginTexts) => (v <=> w)

(* What isLoginReady is, or will be when the answer in hand is dealt with. *)
Announced ==
  IF InHand /\ message \in LoginTexts THEN message = "loginOK" ELSE isLoginReady

LoginFollows == Heard => Follows(toClient, loggedIn, Announced)

IInv == TypeOK /\ FromOthers /\ LoginFollows /\ (Orderly => Turn \/ Lost)

-----------------------------------------------------------------------------
LEMMA PhaseOf ==
  /\ \A f \in Rest : Phase(f) \in 0 .. 3
  /\ Phase(<<>>) = 0 /\ Phase(InFile) = 0
  /\ \A f \in Rest : f # <<>> =>
       /\ Head(f) = InFile[Phase(f) + 1] /\ Phase(Tail(f)) = NextPhase(Phase(f))
       /\ Tail(f) \in Rest /\ Head(f) # "Client_" /\ Head(f) \in Answers
<1>1. /\ InFile = <<"INFO:", "FILE:", "EOF", "reply">>
      /\ {"INFO:", "FILE:", "EOF", "reply"} \subseteq Answers
  BY AnAnswer DEF InFile
<1>2. Phase(<<>>) = 0 /\ <<>> \in Rest
  BY DEF Phase, Rest
<1>3. /\ Len(InFile) = 4 /\ InFile # <<>> /\ Head(InFile) = "INFO:"
      /\ Tail(InFile) = <<"FILE:", "EOF", "reply">>
  BY <1>1
<1>4. /\ Len(<<"FILE:", "EOF", "reply">>) = 3 /\ <<"FILE:", "EOF", "reply">> # <<>>
      /\ Head(<<"FILE:", "EOF", "reply">>) = "FILE:"
      /\ Tail(<<"FILE:", "EOF", "reply">>) = <<"EOF", "reply">>
  OBVIOUS
<1>5. /\ Len(<<"EOF", "reply">>) = 2 /\ <<"EOF", "reply">> # <<>>
      /\ Head(<<"EOF", "reply">>) = "EOF" /\ Tail(<<"EOF", "reply">>) = <<"reply">>
  OBVIOUS
<1>6. /\ Len(<<"reply">>) = 1 /\ <<"reply">> # <<>>
      /\ Head(<<"reply">>) = "reply" /\ Tail(<<"reply">>) = <<>>
  OBVIOUS
<1>7. /\ Phase(InFile) = 0 /\ Phase(<<"FILE:", "EOF", "reply">>) = 1
      /\ Phase(<<"EOF", "reply">>) = 2 /\ Phase(<<"reply">>) = 3
  BY <1>3, <1>4, <1>5, <1>6 DEF Phase
<1> QED
  BY <1>1, <1>2, <1>3, <1>4, <1>5, <1>6, <1>7, Records DEF Rest, NextPhase

LEMMA TurnInit == Init => Turn
<1> SUFFICES ASSUME Init PROVE Turn
  OBVIOUS
<1>1. toClient = <<"welcome">> /\ peerFile = <<>>
  BY DEF Init
<1>2. 0 \in Phases /\ "welcome" \in Spoken /\ Left
  BY <1>1, SpokenAnswers DEF Phases, Rest, Left
<1>3. Channel(0, "welcome")
  BY <1>1, <1>2, WayBegins, PhaseOf DEF Channel
<1>4. toServer = <<>> /\ Chain(toServer, place, relayMsg) /\ ~Owes
  BY EmptyChain DEF Init, Owes
<1>5. /\ ~InHand /\ Applied /\ ~Late(0) /\ ~Waking(0)
      /\ \A a : Fresh("welcome", a) <=> a = "welcome"
  BY DEF Init, InHand, Applied, Late, Waking, Fresh
<1>6. QueueOK /\ Receiving(0) /\ OneAnswer(0, "welcome")
  BY <1>4, <1>5 DEF Init, QueueOK, Receiving, OneAnswer, InHand
<1>7. LoginOK(0, "welcome") /\ Ended(0, "welcome")
  BY <1>5 DEF Init, LoginOK, Ended
<1>8. AtMain(0, "welcome")
  BY <1>4, <1>5 DEF Init, AtMain, Waiting, AskingCommand, AwaitingMode, AskingMode,
                    AwaitingRequest, AskingMessage, SendingFile
<1>9. InTurn(0, "welcome")
  BY <1>6, <1>7, <1>8 DEF InTurn
<1> QED
  BY <1>1, <1>2, <1>3, <1>9 DEF Turn

(* Who has to be answered has nothing else to wait for, and main waits.    *)
LEMMA WhileOwed ==
  ASSUME TypeOK, NEW r, NEW own, InTurn(r, own), Owes
  PROVE  /\ own = None /\ ~Waking(r) /\ Applied /\ toServer # <<>>
         /\ main \in Waits
         /\ \A a \in Spoken : ~Fresh(own, a)
         /\ isLoginReady = loggedIn
         /\ place # "closed"
         /\ main \in {"top", "await"} =>
              Newest(toServer).text \notin Modes /\ (Newest(toServer).text = "send" => ~loggedIn)
         /\ main = "awaitMode" => Newest(toServer).text = "send" /\ loggedIn /\ ~oneClientSending
         /\ main = "awaitRequest" =>
              validSending /\ ~oneClientSending /\ Newest(toServer).text = relayMsg
<1>1. own = None /\ ~Waking(r) /\ Applied /\ toServer # <<>>
  BY DEF InTurn, OneAnswer, Owes, Owed
<1>2. \A z : ~At(z)
  BY DEF Owes, Owed, At, Ends
<1>3. \A a \in Spoken : ~Fresh(own, a)
  BY <1>1, SpokenAnswers DEF Fresh, Applied
<1>4. isLoginReady = loggedIn
  BY <1>3, SpokenAnswers DEF InTurn, LoginOK
<1>5. place # "closed" /\ main # "exited"
  BY <1>1 DEF InTurn, Ended
<1>6. main \in Waits
  BY <1>1, <1>5
     DEF InTurn, AtMain, AskingCommand, AskingMode, AskingMessage, SendingFile, Idle, TypeOK, Waits
<1> QED
  BY <1>1, <1>3, <1>4, <1>5, <1>6 DEF InTurn, AtMain, Waiting, AwaitingMode, AwaitingRequest

-----------------------------------------------------------------------------
(* The worker.                                                             *)

(* A text that is answered was the last one, and now its answer is the one *)
(* that is coming.                                                         *)
LEMMA Answering ==
  ASSUME TypeOK, NEW r, NEW own, Channel(r, own), InTurn(r, own),
         NEW p, NEW texts, Reads(p, texts),
         ~Silent(Head(toServer), relayMsg), NEW answers \in SUBSET Own, Says(answers)
  PROVE  /\ Owes /\ Newest(toServer) = Head(toServer)
         /\ toServer' = <<>> /\ Chain(toServer, place, relayMsg)' /\ ~Owes'
         /\ \E a \in answers : Channel(r, a)'
<1> USE DEF Reads
<1>1. toServer \in Seq(Text) /\ toServer # <<>> /\ toServer' = Tail(toServer) /\ place = p
  BY DEF TypeOK, Text
<1>2. Owes /\ Newest(toServer) = Head(toServer) /\ toServer' = <<>>
  BY <1>1, TextTaken DEF InTurn, QueueOK, Owes
<1>3. Chain(toServer, place, relayMsg)' /\ ~Owes'
  <2>1. Chain(<<>>, place', relayMsg') /\ ~Owed(<<>>, relayMsg')
    BY EmptyChain
  <2> QED
    BY <1>2, <2>1 DEF Owes
<1>4. own = None
  BY <1>2, WhileOwed
<1>5. PICK a \in answers : toClient' = Append(toClient, a)
  BY DEF Says
<1>6. /\ a \in Own /\ a \in Answers /\ toClient \in Seq(Answers)
      /\ Way(toClient, Phases, r, own, Phase(peerFile))
  BY <1>5, SpokenAnswers DEF TypeOK, Channel
<1>7. Way(Append(toClient, a), Phases, r, a, Phase(peerFile))
  BY <1>4, <1>6, WayExtended
<1>8. Phases' = Phases /\ peerFile' = peerFile
  BY DEF Phases
<1>9. Channel(r, a)'
  BY <1>5, <1>7, <1>8 DEF Channel
<1> QED
  BY <1>2, <1>3, <1>5, <1>9

(* After a text that is not answered all is as before, one text further.   *)
LEMMA Unanswered ==
  ASSUME TypeOK, NEW r, NEW own, InTurn(r, own), NEW p, NEW texts, Reads(p, texts),
         Silent(Head(toServer), relayMsg), place' = After(Head(toServer)),
         UNCHANGED <<toClient, mode, loggedIn>>
  PROVE  InTurn(r, own)'
<1> USE DEF Reads
<1>1. toServer \in Seq(Text) /\ toServer # <<>> /\ toServer' = Tail(toServer)
  BY DEF TypeOK, Text
<1>2. /\ relayMsg' = relayMsg /\ main' = main /\ recv' = recv /\ message' = message
      /\ messageReceived' = messageReceived /\ isLoginReady' = isLoginReady /\ hazards' = hazards
      /\ UNCHANGED <<isSending, validSending, oneClientSending, isReceivingFileMode, isSendingFileEnd>>
  BY DEF client, mainVars, recvVars, flags, sending, incoming
<1>3. place' \in {"command", "file"}
  BY DEF After
<1>4. /\ Chain(toServer, place, relayMsg)'
      /\ Owes' <=> Owes
      /\ Owes => Newest(toServer)' = Newest(toServer)
      /\ \A z : At(z) => At(z)'
  BY <1>1, <1>2, TextTaken DEF InTurn, QueueOK, Owes, At
<1>5. /\ InHand' = InHand /\ Applied' = Applied /\ Late(r)' = Late(r) /\ Waking(r)' = Waking(r)
      /\ \A a : Fresh(own, a)' <=> Fresh(own, a)
      /\ Idle(r, own)' <=> Idle(r, own)
  BY <1>2, <1>4 DEF InHand, Applied, Late, Waking, Fresh, Idle
<1>6. QueueOK' /\ Receiving(r)' /\ LoginOK(r, own)'
  <2>1. Fits(Head(toServer), relayMsg) /\ Head(toServer).at = place
    BY <1>1, TextTaken DEF InTurn, QueueOK
  <2>2. place \in {"message", "file"}
    BY <2>1 DEF Fits, Silent, Words, Modes, TypeOK
  <2> QED
    BY <1>2, <1>3, <1>4, <1>5, <2>2 DEF InTurn, QueueOK, Receiving, LoginOK
<1>7. OneAnswer(r, own)'
  BY <1>1, <1>2, <1>4, <1>5 DEF InTurn, OneAnswer
<1>8. own = None /\ Applied /\ recv # "signal" /\ ~Late(r) /\ \A a \in Spoken : ~Fresh(own, a)
  BY <1>1, SpokenAnswers DEF InTurn, OneAnswer, Fresh, Applied
<1>9. toServer' # <<>> => toServer # <<>>
  BY <1>1
<1>10. AtMain(r, own)'
  <2>1. Waiting(r, own)' /\ AskingCommand(r, own)' /\ SendingFile(r, own)'
    BY <1>2, <1>4, <1>5, <1>8 DEF InTurn, AtMain, Waiting, AskingCommand, SendingFile
  <2>2. main \notin {"modeCheck", "askMode", "askMessage"}
    BY <1>1 DEF InTurn, AtMain, AskingMode, AskingMessage
  <2>3. main \in {"awaitMode", "awaitRequest"} => Owes /\ ~Waking(r)
    BY <1>1 DEF InTurn, AtMain, AwaitingMode, AwaitingRequest, OneAnswer
  <2>4. AwaitingMode(r, own)' /\ AwaitingRequest(r, own)'
    BY <1>2, <1>4, <1>5, <1>8, <1>9, <2>3 DEF InTurn, AtMain, AwaitingMode, AwaitingRequest
  <2> QED
    BY <1>2, <2>1, <2>2, <2>4 DEF AtMain, AskingMode, AskingMessage
<1>11. Ended(r, own)'
  BY <1>1, <1>2, <1>3, <1>5 DEF InTurn, Ended
<1> QED
  BY <1>6, <1>7, <1>10, <1>11 DEF InTurn

(* What remains to be shown of a step that answers with a.                 *)
LEMMA AnswerFits ==
  ASSUME TypeOK, NEW r, NEW own, InTurn(r, own), Owes, UNCHANGED <<client, hazards>>,
         NEW a \in Spoken,
         toServer' = <<>>, Chain(toServer, place, relayMsg)', ~Owes',
         place' = "message" => mode' = relayMsg,
         place' \in {"selection", "message", "file"} => loggedIn',
         a = "loginOK" => loggedIn',
         a = "logoutMsg" => ~loggedIn',
         a \notin {"loginOK", "logoutMsg"} => loggedIn' = loggedIn,
         place' = "closed" <=> a = "goodByeMsg",
         main \in {"top", "await"} =>
           /\ a \notin {"modePrompt", "request", "onlyOne"}
           /\ a # "goodByeMsg" => place' = "command",
         main = "awaitMode" => a = "modePrompt" /\ place' = "selection",
         main = "awaitRequest" => \/ a = "request" /\ place' = "message"
                                  \/ a = "onlyOne" /\ place' = "command" /\ relayMsg \in {"2", "4"}
  PROVE  InTurn(r, a)'
<1>1. /\ relayMsg' = relayMsg /\ main' = main /\ recv' = recv /\ message' = message
      /\ messageReceived' = messageReceived /\ isLoginReady' = isLoginReady /\ hazards' = hazards
      /\ UNCHANGED <<isSending, validSending, oneClientSending, isReceivingFileMode, isSendingFileEnd>>
  BY DEF client, mainVars, recvVars, flags, sending, incoming
<1>2. /\ ~Waking(r) /\ Applied
      /\ main \in Waits
      /\ isLoginReady = loggedIn
      /\ main = "awaitMode" => ~oneClientSending
      /\ main = "awaitRequest" => validSending /\ ~oneClientSending
      /\ a # None
  BY WhileOwed, SpokenAnswers
<1>3. /\ ~Waking(r)' /\ Applied' /\ ~Late(r)' /\ recv' # "signal" /\ ~messageReceived'
  BY <1>1, <1>2 DEF Waking, Applied, Late, InHand
<1>4. \A b : Fresh(a, b)' <=> b = a
  BY <1>1, <1>3 DEF Fresh, Applied
<1>5. QueueOK' /\ Receiving(r)' /\ LoginOK(r, a)'
  BY <1>1, <1>2, <1>4 DEF InTurn, QueueOK, Receiving, InHand, LoginOK
<1>6. OneAnswer(r, a)'
  <2>1. recv = "flags" => message \in {"goodByeMsg", "reply"}
    BY <1>2 DEF InTurn, OneAnswer, Waking
  <2> QED
    BY <1>1, <1>3, <2>1 DEF OneAnswer
<1>7. Waiting(r, a)'
  BY <1>1, <1>3, <1>4 DEF Waiting
<1>8. AwaitingMode(r, a)' /\ AwaitingRequest(r, a)'
  BY <1>1, <1>2, <1>3, <1>4 DEF AwaitingMode, AwaitingRequest
<1>9. AskingCommand(r, a)' /\ AskingMode(r, a)' /\ AskingMessage(r, a)' /\ SendingFile(r, a)'
  BY <1>1, <1>2 DEF AskingCommand, AskingMode, AskingMessage, SendingFile, Waits
<1>10. Ended(r, a)'
  BY <1>1, <1>2, <1>4 DEF InTurn, Ended, Waits
<1> QED
  BY <1>5, <1>6, <1>7, <1>8, <1>9, <1>10 DEF InTurn, AtMain

(* A word that main is not woken for.                                      *)
LEMMA Swallowed ==
  ASSUME TypeOK, Left, NEW r \in Phases, NEW own, InTurn(r, own), Owes,
         "echo" \in hazards, UNCHANGED <<client, peerFile, hazards>>, toServer' = <<>>,
         NEW a \in Echoed, Channel(r, a)'
  PROVE  Lost'
<1>1. UNCHANGED <<main, recv, message, messageReceived, isReceivingFileMode, isSendingFileEnd>>
  BY DEF client, mainVars, recvVars, flags, incoming
<1>2. ~Waking(r) /\ Applied /\ main \in Waits
  BY WhileOwed
<1>3. r \in {1, 2} => isReceivingFileMode
  BY DEF InTurn, Receiving
<1>4. main # "exited" /\ recv # "exited"
  BY <1>2 DEF InTurn, Ended, Waits
<1>5. recv \in {"read", "fileEnd", "flags"}
  BY <1>2, <1>4 DEF TypeOK, Waking
<1>6. Quiet(r)'
  BY <1>1, <1>2, <1>3, <1>5 DEF Quiet, Waking, Late, Applied, InHand
<1>7. Phases' = Phases /\ Left'
  BY DEF Phases, Left
<1> QED
  BY <1>6, <1>7 DEF Lost

LEMMA WorkerStep ==
  ASSUME TypeOK, Orderly, Left, NEW r \in Phases, NEW own \in Spoken \cup {None},
         Channel(r, own), InTurn(r, own), Worker
  PROVE  (\E x \in Spoken \cup {None} : Channel(r, x)' /\ InTurn(r, x)') \/ Lost'
<1> USE DEF server
<1> DEFINE t == Head(toServer)
           Replied(a) ==
             /\ Owes /\ Newest(toServer) = t /\ UNCHANGED <<client, peerFile, hazards>>
             /\ toServer' = <<>> /\ Chain(toServer, place, relayMsg)' /\ ~Owes'
             /\ Channel(r, a)'
<1>1. PICK p, texts : Reads(p, texts)
  BY DEF Worker, Register, Login, Logout, Exit, Send, NoCommand, Dropped, NoSelection, Selection,
         Cancelled, NoMessage, Message, FileName, FileRefused, FilePiece, FileEnd
<1>2. /\ Fits(t, relayMsg) /\ t.at = place /\ t.text \in Texts
      /\ place = "message" => mode = relayMsg
      /\ place \in {"selection", "message", "file"} => loggedIn
      /\ relayMsg \in Modes /\ loggedIn \in BOOLEAN
  BY <1>1, TextTaken DEF Reads, InTurn, QueueOK, TypeOK, Text
<1>3. ASSUME NEW q, NEW ts, Reads(q, ts), ~Silent(t, relayMsg),
             NEW answers \in SUBSET Spoken, Says(answers)
      PROVE  \E a \in answers : Replied(a)
  <2>1. UNCHANGED <<client, peerFile, hazards>> /\ answers \in SUBSET Own
    BY <1>3, SpokenAnswers DEF Reads
  <2> QED
    BY <1>3, <2>1, Answering
<1>echo. ASSUME NEW q, NEW ts, Reads(q, ts), ~Silent(t, relayMsg),
             NEW answers \in SUBSET Spoken, NEW words \in SUBSET Own,
             Says(answers \cup Echoes(words))
      PROVE  Lost' \/ \E a \in answers \cup (words \cap Spoken) : Replied(a)
  <2>1. UNCHANGED <<client, peerFile, hazards>>
    BY <1>echo DEF Reads
  <2>2. answers \cup Echoes(words) \in SUBSET Own
    BY <1>echo, SpokenAnswers DEF Echoes
  <2>3. PICK a \in answers \cup Echoes(words) : Replied(a)
    BY <1>echo, <2>1, <2>2, Answering
  <2>4. CASE a \in Spoken
    <3>1. a \in answers \cup (words \cap Spoken)
      BY <2>4, <2>3 DEF Echoes
    <3> QED
      BY <2>3, <3>1
  <2>5. CASE a \notin Spoken
    <3>1. a \in Echoed /\ "echo" \in hazards
      BY <1>echo, <2>3, <2>5, SpokenAnswers DEF Echoes
    <3>2. /\ Owes /\ toServer' = <<>> /\ Channel(r, a)'
          /\ UNCHANGED <<client, peerFile, hazards>>
      BY <2>3
    <3> HIDE DEF t, Replied
    <3> QED
      BY <3>1, <3>2, Swallowed
  <2> QED
    BY <2>4, <2>5
<1>4. ASSUME NEW a \in Spoken, Replied(a),
             place' = "message" => mode' = relayMsg,
             place' \in {"selection", "message"} => loggedIn',
             place' # "file",
             a = "loginOK" => loggedIn',
             a = "logoutMsg" => ~loggedIn',
             a \notin {"loginOK", "logoutMsg"} => loggedIn' = loggedIn,
             place' = "closed" <=> a = "goodByeMsg",
             t.text \notin Modes /\ t.text # "send" =>
               /\ a \notin {"modePrompt", "request", "onlyOne"}
               /\ a # "goodByeMsg" => place' = "command",
             t.text = "send" =>
               IF loggedIn THEN a = "modePrompt" /\ place' = "selection"
               ELSE /\ a \notin {"modePrompt", "request", "onlyOne", "goodByeMsg"}
                    /\ place' = "command",
             t.text \in Modes =>
               \/ a = "request" /\ place' = "message"
               \/ a = "onlyOne" /\ place' = "command" /\ t.text \in {"2", "4"}
      PROVE  (\E x \in Spoken \cup {None} : Channel(r, x)' /\ InTurn(r, x)') \/ Lost'
  <2>1. /\ main \in {"top", "await"} => t.text \notin Modes /\ (t.text = "send" => ~loggedIn)
        /\ main = "awaitMode" => t.text = "send" /\ loggedIn
        /\ main = "awaitRequest" => t.text = relayMsg
    BY <1>4, WhileOwed
  <2>2. /\ Channel(r, a)' /\ Owes /\ UNCHANGED <<client, hazards>>
        /\ toServer' = <<>> /\ Chain(toServer, place, relayMsg)' /\ ~Owes'
    BY <1>4
  <2> HIDE DEF t, Replied
  <2>3. InTurn(r, a)'
    BY <1>2, <1>4, <2>1, <2>2, AnswerFits
  <2> QED
    BY <2>2, <2>3
<1>5. ASSUME NEW q, NEW ts, Reads(q, ts), Silent(t, relayMsg), place' = After(t),
             UNCHANGED <<toClient, mode, loggedIn>>
      PROVE  (\E x \in Spoken \cup {None} : Channel(r, x)' /\ InTurn(r, x)') \/ Lost'
  <2>1. InTurn(r, own)'
    BY <1>5, Unanswered
  <2>2. UNCHANGED <<toClient, hazards, peerFile>>
    BY <1>5 DEF Reads
  <2> QED
    BY <2>1, <2>2 DEF Channel, Phases
<1> HIDE DEF t, Replied
<1> USE DEF Fits, Silent, After, InFileMode, Words, Modes, Lines
<1>6. CASE Cancelled
  <2>1. Reads("message", {"cancel"}) /\ UNCHANGED <<toClient, mode, loggedIn>>
    BY <1>6 DEF Cancelled
  <2>2. place = "message" /\ t.text \in {"cancel"}
    BY <2>1 DEF Reads, t
  <2>3. Silent(t, relayMsg) /\ place' = After(t)
    BY <1>2, <1>6, <2>2 DEF Cancelled
  <2> QED
    BY <1>5, <2>1, <2>3
<1>7. CASE FileName
  <2>1. Reads("message", {"send x", "long"}) /\ UNCHANGED <<toClient, mode, loggedIn>>
    BY <1>7 DEF FileName
  <2>2. place = "message" /\ t.text = "send x"
    BY <1>2, <2>1 DEF Reads, t
  <2>3. Silent(t, relayMsg) /\ place' = After(t)
    BY <1>2, <1>7, <2>2 DEF FileName
  <2> QED
    BY <1>5, <2>1, <2>3
<1>8. CASE FilePiece
  <2>1. Reads("file", Texts \ {"EOF"}) /\ UNCHANGED <<toClient, mode, loggedIn>>
    BY <1>8 DEF FilePiece, Orderly
  <2>2. place = "file" /\ t.text \in Texts \ {"EOF"}
    BY <2>1 DEF Reads, t
  <2>3. Silent(t, relayMsg) /\ place' = After(t)
    BY <1>2, <1>8, <2>2 DEF FilePiece, Orderly
  <2> QED
    BY <1>5, <2>1, <2>3
<1>9. CASE Register
  <2>1. Reads("command", {"register"}) /\ Says({"reply", "invalid"} \cup Echoes(NameWords))
    BY <1>9 DEF Register
  <2>2. place = "command" /\ t.text \in {"register"}
    BY <2>1 DEF Reads, t
  <2>3. ~Silent(t, relayMsg)
    BY <1>2, <2>2
  <2>4. {"reply", "invalid"} \in SUBSET Spoken /\ NameWords \in SUBSET Own /\ NameWords \cap Spoken = {}
    BY SpokenAnswers DEF NameWords
  <2>5. Lost' \/ \E a \in {"reply", "invalid"} : Replied(a)
    BY <1>echo, <2>1, <2>3, <2>4
  <2>6. ASSUME NEW a \in {"reply", "invalid"}, Replied(a)
        PROVE  (\E x \in Spoken \cup {None} : Channel(r, x)' /\ InTurn(r, x)') \/ Lost'
    BY <1>2, <1>4, <1>9, <2>2, <2>4, <2>6 DEF Register
  <2> QED
    BY <2>5, <2>6
<1>10. CASE Login
  <2>1. Reads("command", {"login"})
    BY <1>10 DEF Login
  <2>2. place = "command" /\ t.text \in {"login"}
    BY <2>1 DEF Reads, t
  <2>3. ~Silent(t, relayMsg)
    BY <1>2, <2>2
  <2>4. /\ {"reply", "invalid"} \in SUBSET Spoken /\ {"loginOK"} \in SUBSET Spoken
        /\ {"FILE:", "Client_login"} \in SUBSET Own /\ {"FILE:", "Client_login"} \cap Spoken = {}
    BY SpokenAnswers
  <2>5. CASE Says({"reply", "invalid"}) /\ UNCHANGED loggedIn
    <3>1. PICK a \in {"reply", "invalid"} : Replied(a)
      BY <1>3, <2>1, <2>3, <2>4, <2>5
    <3> QED
      BY <1>2, <1>4, <1>10, <2>2, <2>4, <2>5, <3>1 DEF Login
  <2>6. CASE Says({"loginOK"} \cup Echoes({"FILE:", "Client_login"})) /\ loggedIn' = TRUE
    <3>1. Lost' \/ Replied("loginOK")
      BY <1>echo, <2>1, <2>3, <2>4, <2>6
    <3>2. ASSUME Replied("loginOK")
          PROVE  (\E x \in Spoken \cup {None} : Channel(r, x)' /\ InTurn(r, x)') \/ Lost'
      BY <1>2, <1>4, <1>10, <2>2, <2>4, <2>6, <3>2 DEF Login
    <3> QED
      BY <3>1, <3>2
  <2> QED
    BY <1>10, <2>5, <2>6 DEF Login
<1>11. CASE Logout
  <2>1. Reads("command", {"logout"}) /\ Says({IF loggedIn THEN "logoutMsg" ELSE "reply"})
    BY <1>11 DEF Logout
  <2>2. place = "command" /\ t.text \in {"logout"}
    BY <2>1 DEF Reads, t
  <2>3. ~Silent(t, relayMsg)
    BY <1>2, <2>2
  <2>4. {IF loggedIn THEN "logoutMsg" ELSE "reply"} \in SUBSET Spoken
    BY SpokenAnswers
  <2>5. PICK a \in {IF loggedIn THEN "logoutMsg" ELSE "reply"} : Replied(a)
    BY <1>3, <2>1, <2>3, <2>4
  <2> QED
    BY <1>2, <1>4, <1>11, <2>2, <2>4, <2>5 DEF Logout
<1>12. CASE Exit
  <2>1. Reads("command", {"exit"}) /\ Says({IF loggedIn THEN "reply" ELSE "goodByeMsg"})
    BY <1>12 DEF Exit
  <2>2. place = "command" /\ t.text \in {"exit"}
    BY <2>1 DEF Reads, t
  <2>3. ~Silent(t, relayMsg)
    BY <1>2, <2>2
  <2>4. {IF loggedIn THEN "reply" ELSE "goodByeMsg"} \in SUBSET Spoken
    BY SpokenAnswers
  <2>5. PICK a \in {IF loggedIn THEN "reply" ELSE "goodByeMsg"} : Replied(a)
    BY <1>3, <2>1, <2>3, <2>4
  <2> QED
    BY <1>2, <1>4, <1>12, <2>2, <2>4, <2>5 DEF Exit
<1>13. CASE Send
  <2>1. Reads("command", {"send", "SEND"}) /\ Says({IF loggedIn THEN "modePrompt" ELSE "reply"})
    BY <1>13 DEF Send
  <2>2. place = "command" /\ t.text \in {"send", "SEND"}
    BY <2>1 DEF Reads, t
  <2>3. ~Silent(t, relayMsg)
    BY <1>2, <2>2
  <2>4. {IF loggedIn THEN "modePrompt" ELSE "reply"} \in SUBSET Spoken
    BY SpokenAnswers
  <2>5. PICK a \in {IF loggedIn THEN "modePrompt" ELSE "reply"} : Replied(a)
    BY <1>3, <2>1, <2>3, <2>4
  <2> QED
    BY <1>2, <1>4, <1>13, <2>2, <2>4, <2>5 DEF Send
<1>14. CASE NoCommand
  <2>1. Reads("command", Texts \ (Words \cup {"long"})) /\ Says({"invalid"})
    BY <1>14 DEF NoCommand
  <2>2. place = "command" /\ t.text \in Texts \ (Words \cup {"long"})
    BY <2>1 DEF Reads, t
  <2>3. ~Silent(t, relayMsg)
    BY <1>2, <2>2
  <2>4. {"invalid"} \in SUBSET Spoken
    BY SpokenAnswers
  <2>5. PICK a \in {"invalid"} : Replied(a)
    BY <1>3, <2>1, <2>3, <2>4
  <2> QED
    BY <1>2, <1>4, <1>14, <2>2, <2>4, <2>5 DEF NoCommand
<1>15. CASE NoSelection
  <2>1. Reads("selection", Texts \ Modes) /\ Says({"reply"})
    BY <1>15 DEF NoSelection
  <2>2. place = "selection" /\ t.text \in Texts \ Modes
    BY <2>1 DEF Reads, t
  <2>3. ~Silent(t, relayMsg)
    BY <1>2, <2>2
  <2>4. {"reply"} \in SUBSET Spoken
    BY SpokenAnswers
  <2>5. PICK a \in {"reply"} : Replied(a)
    BY <1>3, <2>1, <2>3, <2>4
  <2> QED
    BY <1>2, <1>4, <1>15, <2>2, <2>4, <2>5 DEF NoSelection
<1>16. CASE Selection
  <2>1. Reads("selection", Modes) /\ mode' = t.text /\ UNCHANGED loggedIn
    BY <1>16 DEF Selection, t
  <2>2. place = "selection" /\ t.text \in Modes
    BY <2>1 DEF Reads, t
  <2>3. ~Silent(t, relayMsg) /\ t.text = relayMsg
    BY <1>2, <2>2
  <2>4. /\ {"request"} \in SUBSET Spoken /\ {"onlyOne"} \in SUBSET Spoken
        /\ NameWords \in SUBSET Own /\ NameWords \cap Spoken = {}
    BY SpokenAnswers DEF NameWords
  <2>5. ASSUME Replied("request"), place' = "message"
        PROVE  (\E x \in Spoken \cup {None} : Channel(r, x)' /\ InTurn(r, x)') \/ Lost'
    BY <1>2, <1>4, <2>1, <2>2, <2>3, <2>4, <2>5
  <2>6. CASE Says({"request"} \cup Echoes(NameWords)) /\ place' = "message"
    <3>1. Lost' \/ Replied("request")
      BY <1>echo, <2>1, <2>3, <2>4, <2>6
    <3> QED
      BY <2>5, <2>6, <3>1
  <2>7. CASE Says({"request"}) /\ place' = "message"
    <3>1. Replied("request")
      BY <1>3, <2>1, <2>3, <2>4, <2>7
    <3> QED
      BY <2>5, <2>7, <3>1
  <2>8. CASE mode' \in {"2", "4"} /\ Says({"onlyOne"}) /\ place' = "command"
    <3>1. Replied("onlyOne")
      BY <1>3, <2>1, <2>3, <2>4, <2>8
    <3> QED
      BY <1>2, <1>4, <2>1, <2>2, <2>3, <2>4, <2>8, <3>1
  <2>9. {"request"} \cup {} = {"request"}
    OBVIOUS
  <2> QED
    BY <1>16, <2>6, <2>7, <2>8, <2>9 DEF Selection
<1>17. CASE NoMessage
  <2>1. Reads("message", Texts \ {"send", "SEND", "send x"}) /\ Says({"invalid"})
    BY <1>17 DEF NoMessage
  <2>2. place = "message" /\ t.text \in Texts \ {"send", "SEND", "send x"}
    BY <2>1 DEF Reads, t
  <2>3. ~Silent(t, relayMsg)
    BY <1>2, <2>2, <1>17 DEF NoMessage, t
  <2>4. {"invalid"} \in SUBSET Spoken
    BY SpokenAnswers
  <2>5. PICK a \in {"invalid"} : Replied(a)
    BY <1>3, <2>1, <2>3, <2>4
  <2> QED
    BY <1>2, <1>4, <1>17, <2>2, <2>4, <2>5 DEF NoMessage
<1>18. CASE Message
  <2>1. /\ Reads("message", {"send", "SEND", "send x", "long"})
        /\ Says({"reply", "invalid"} \cup Echoes(TextWords))
    BY <1>18 DEF Message, Orderly
  <2>2. place = "message" /\ t.text \in {"send", "SEND", "send x"}
    BY <1>2, <2>1 DEF Reads, t
  <2>3. ~Silent(t, relayMsg)
    BY <1>2, <2>2, <1>18 DEF Message
  <2>4. /\ {"reply", "invalid"} \in SUBSET Spoken /\ TextWords \in SUBSET Own
        /\ {"reply", "invalid"} \cup (TextWords \cap Spoken) = {"reply", "invalid", "loginOK"}
        /\ "loginOK" \in Spoken
    BY SpokenAnswers DEF TextWords, ChatTexts
  <2>5. Lost' \/ \E a \in {"reply", "invalid", "loginOK"} : Replied(a)
    BY <1>echo, <2>1, <2>3, <2>4
  <2>6. ASSUME NEW a \in {"reply", "invalid", "loginOK"}, Replied(a)
        PROVE  (\E x \in Spoken \cup {None} : Channel(r, x)' /\ InTurn(r, x)') \/ Lost'
    BY <1>2, <1>4, <1>18, <2>2, <2>4, <2>6 DEF Message
  <2> QED
    BY <2>5, <2>6
<1>19. CASE FileRefused
  <2>1. /\ Reads("message", {"send", "SEND", "send x", "long"})
        /\ t.text # "send x" /\ mode \in InFileMode
    BY <1>19 DEF FileRefused, Orderly, t
  <2>2. place = "message" /\ t.text \in {"send", "SEND", "long"}
    BY <2>1 DEF Reads, t
  <2> QED
    BY <1>2, <2>1, <2>2
<1>20. CASE FileEnd
  <2>1. /\ Reads("file", {"EOF"})
        /\ Says({"reply"} \cup Echoes(TextWords)) \/ Says({"reply"} \cup {})
    BY <1>20 DEF FileEnd
  <2>2. place = "file" /\ t.text \in {"EOF"}
    BY <2>1 DEF Reads, t
  <2>3. ~Silent(t, relayMsg)
    BY <1>2, <2>2
  <2>4. /\ {"reply"} \in SUBSET Spoken /\ TextWords \in SUBSET Own
        /\ {"reply"} \cup {} = {"reply"}
        /\ {"reply"} \cup (TextWords \cap Spoken) = {"reply", "invalid", "loginOK"}
        /\ {"reply", "invalid", "loginOK"} \subseteq Spoken
    BY SpokenAnswers DEF TextWords, ChatTexts
  <2>5. Lost' \/ \E a \in {"reply", "invalid", "loginOK"} : Replied(a)
    <3>1. Says({"reply"}) => Replied("reply")
      BY <1>3, <2>1, <2>3, <2>4
    <3>2. Says({"reply"} \cup Echoes(TextWords)) =>
            Lost' \/ \E a \in {"reply"} \cup (TextWords \cap Spoken) : Replied(a)
      BY <1>echo, <2>1, <2>3, <2>4
    <3> QED
      BY <2>1, <2>4, <3>1, <3>2
  <2>6. ASSUME NEW a \in {"reply", "invalid", "loginOK"}, Replied(a)
        PROVE  (\E x \in Spoken \cup {None} : Channel(r, x)' /\ InTurn(r, x)') \/ Lost'
    BY <1>2, <1>4, <1>20, <2>2, <2>4, <2>6 DEF FileEnd
  <2> QED
    BY <2>5, <2>6
<1>21. CASE Dropped
  <2>1. Reads("command", {"long"})
    BY <1>21 DEF Dropped
  <2>2. t.text = "long"
    BY <2>1 DEF Reads, t
  <2> QED
    BY <1>2, <2>2
<1> QED
  BY <1>6, <1>7, <1>8, <1>9, <1>10, <1>11, <1>12, <1>13, <1>14, <1>15, <1>16, <1>17,
     <1>18, <1>19, <1>20, <1>21 DEF Worker

-----------------------------------------------------------------------------
(* The receiver, and other clients.                                        *)

(* Where nothing changes but the channels of others all stays as it is.    *)
LEMMA Aside ==
  ASSUME NEW r, NEW own, InTurn(r, own), UNCHANGED <<toServer, server, client, hazards>>
  PROVE  InTurn(r, own)'
<1>1. UNCHANGED <<place, mode, loggedIn, main, relayMsg, recv, message, messageReceived,
                  isSending, validSending, oneClientSending, isLoginReady,
                  isReceivingFileMode, isSendingFileEnd>>
  BY DEF server, client, mainVars, recvVars, flags, sending, incoming
<1>2. /\ Owes' <=> Owes
      /\ \A z : At(z)' <=> At(z)
      /\ Newest(toServer)' = Newest(toServer)
      /\ InHand' <=> InHand
      /\ Applied' <=> Applied
      /\ Late(r)' <=> Late(r)
      /\ Waking(r)' <=> Waking(r)
      /\ \A a : Fresh(own, a)' <=> Fresh(own, a)
      /\ Idle(r, own)' <=> Idle(r, own)
  BY <1>1 DEF Owes, At, InHand, Applied, Late, Waking, Fresh, Idle
<1>3. QueueOK' /\ Receiving(r)' /\ OneAnswer(r, own)' /\ LoginOK(r, own)' /\ Ended(r, own)'
  BY <1>1, <1>2 DEF InTurn, QueueOK, Receiving, OneAnswer, LoginOK, Ended
<1>4. AtMain(r, own)'
  BY <1>1, <1>2
     DEF InTurn, AtMain, Waiting, AskingCommand, AwaitingMode, AskingMode, AwaitingRequest,
         AskingMessage, SendingFile
<1> QED
  BY <1>3, <1>4 DEF InTurn

(* What others write in order goes its way, whatever else is on its own.   *)
LEMMA PeerWrites ==
  ASSUME TypeOK, Orderly, Left, NEW r \in Phases, NEW own, Channel(r, own), Peers
  PROVE  /\ UNCHANGED <<toServer, server, client, hazards>>
         /\ Phases' = Phases /\ Left' /\ Channel(r, own)'
<1>1. UNCHANGED <<toServer, server, client, hazards>> /\ Phases' = Phases
  BY DEF Peers, Chat, BeginFile, PeerFile, OtherFile, Relayed, Phases
<1>2. toClient \in Seq(Answers)
  BY DEF TypeOK
<1>3. Phase(peerFile) \in 0 .. 3
  BY PhaseOf DEF Left
<1>4. CASE Chat
  <2>1. toClient' = Append(toClient, "Client_") /\ peerFile' = peerFile
    BY <1>4 DEF Chat, Says, Worded, Orderly
  <2>2. Phase(peerFile) \in Phases /\ Passes("Client_", Phase(peerFile), Phase(peerFile))
    BY DEF Channel, Way, Passes
  <2>3. Way(Append(toClient, "Client_"), Phases, r, own, Phase(peerFile))
    BY <1>2, <2>2, WayExtended, AnAnswer DEF Channel
  <2>4. Channel(r, own)'
    BY <1>1, <2>1, <2>3 DEF Channel
  <2> QED
    BY <1>1, <2>1, <2>4 DEF Left
<1>5. CASE BeginFile
  <2>1. peerFile = <<>> /\ peerFile' = InFile /\ UNCHANGED toClient /\ "file" \in hazards
    BY <1>5, FileIsSeq DEF BeginFile, Orderly
  <2>2. Phase(peerFile') = Phase(peerFile) /\ peerFile' \in Rest
    BY <2>1, PhaseOf DEF Rest
  <2>3. Channel(r, own)'
    BY <1>1, <2>1, <2>2 DEF Channel
  <2> QED
    BY <1>1, <2>1, <2>2, <2>3 DEF Left
<1>6. CASE PeerFile
  <2>1. peerFile # <<>> /\ toClient' = Append(toClient, Head(peerFile)) /\ peerFile' = Tail(peerFile)
    BY <1>6 DEF PeerFile, Says
  <2>2. /\ Head(peerFile) = InFile[Phase(peerFile) + 1] /\ Head(peerFile) # "Client_"
        /\ Head(peerFile) \in Answers
        /\ Phase(peerFile') = NextPhase(Phase(peerFile)) /\ peerFile' \in Rest
    BY <2>1, PhaseOf DEF Left
  <2>3. Phase(peerFile') \in Phases
    BY <1>3, <2>1, <2>2 DEF NextPhase, Phases, Left
  <2>4. Passes(Head(peerFile), Phase(peerFile), Phase(peerFile'))
    BY <2>2 DEF Passes
  <2>5. Way(Append(toClient, Head(peerFile)), Phases, r, own, Phase(peerFile'))
    BY <1>2, <2>2, <2>3, <2>4, WayExtended DEF Channel
  <2>6. Channel(r, own)'
    BY <1>1, <2>1, <2>5 DEF Channel
  <2> QED
    BY <1>1, <2>1, <2>2, <2>6 DEF Left
<1>7. ~OtherFile
  BY DEF OtherFile, Orderly
<1> QED
  BY <1>4, <1>5, <1>6, <1>7 DEF Peers

(* What the receiver takes: the worker's answer, or what a peer wrote.     *)
LEMMA Taken ==
  ASSUME TypeOK, NEW r \in Phases, NEW own, Channel(r, own), NEW m, Arrives(m)
  PROVE  \/ own = m /\ m \in Own /\ Channel(r, None)'
         \/ \E s \in Phases : Passes(m, r, s) /\ Channel(s, own)'
<1>1. /\ toClient \in Seq(Answers) /\ toClient # <<>> /\ Head(toClient) = m
      /\ toClient' = Tail(toClient) /\ UNCHANGED <<peerFile, hazards>>
  BY DEF Arrives, TypeOK
<1>2. Way(toClient, Phases, r, own, Phase(peerFile))
  BY DEF Channel
<1>3. \/ own = m /\ m \in Own /\ Way(Tail(toClient), Phases, r, None, Phase(peerFile))
      \/ \E s \in Phases : Passes(m, r, s) /\ Way(Tail(toClient), Phases, s, own, Phase(peerFile))
  BY <1>1, <1>2, WayShortened
<1>4. Phases' = Phases
  BY <1>1 DEF Phases
<1> QED
  BY <1>1, <1>3, <1>4 DEF Channel

(* An answer or a signal moves on, and no flag of main changes.            *)
LEMMA Onward ==
  ASSUME TypeOK, NEW r, NEW own, NEW s, NEW x, InTurn(r, own),
         UNCHANGED <<toServer, server, mainVars, sending, isLoginReady, hazards>>,
         Receiving(s)', OneAnswer(s, x)', main # "exited", recv' # "exited",
         \A a \in Spoken : Fresh(x, a)' => Fresh(own, a),
         \A a \in {"loginOK", "logoutMsg"} :
           Fresh(own, a) => Fresh(x, a)' \/ (main \in Waits /\ x = None /\ ~Waking(s)'),
         x # None \/ Waking(s)' => own # None \/ Waking(r),
         (own # None \/ Waking(r)) /\ ~(x # None \/ Waking(s)') => main \in Waits,
         Idle(r, own) /\ main \notin Waits => Idle(s, x)' /\ (messageReceived' <=> messageReceived),
         Waking(s)' /\ Applied' =>
           (Waking(r) /\ Applied) \/ (own = "reply" /\ toServer = <<>>)
  PROVE  InTurn(s, x)'
<1>1. UNCHANGED <<toServer, place, mode, loggedIn, main, relayMsg, isSending, validSending,
                  oneClientSending, isLoginReady>>
  BY DEF server, mainVars, sending
<1>2. /\ Owes' <=> Owes
      /\ \A z : At(z)' <=> At(z)
      /\ Newest(toServer)' = Newest(toServer)
  BY <1>1 DEF Owes, At
<1>3. QueueOK'
  BY <1>1 DEF InTurn, QueueOK
<1>4. Fresh(own, "reply") <=> own = "reply"
  BY DEF Fresh
<1>5. "reply" \in Spoken /\ "loginOK" \in Spoken /\ "logoutMsg" \in Spoken /\ "goodByeMsg" \in Spoken
  BY SpokenAnswers
<1>6. LoginOK(s, x)'
  <2>1. Owes => ~Fresh(own, "loginOK") /\ ~Fresh(own, "logoutMsg")
    BY <1>5, SpokenAnswers DEF InTurn, OneAnswer, Fresh, Applied
  <2>2. /\ Fresh(own, "loginOK") => loggedIn
        /\ Fresh(own, "logoutMsg") => ~loggedIn
        /\ /\ ~Fresh(own, "loginOK") /\ ~Fresh(own, "logoutMsg")
           /\ Owes \/ own # None \/ Waking(r) \/ main \notin Waits \cup {"exited"}
           => isLoginReady = loggedIn
    BY DEF InTurn, LoginOK
  <2>3. ASSUME ~Fresh(x, "loginOK")', ~Fresh(x, "logoutMsg")',
               Owes \/ x # None \/ Waking(s)' \/ main \notin Waits
        PROVE  isLoginReady = loggedIn
    BY <2>1, <2>2, <2>3
  <2> QED
    BY <1>1, <1>2, <1>5, <2>2, <2>3 DEF LoginOK
<1>7. Ended(s, x)'
  BY <1>1, <1>5 DEF InTurn, Ended
<1>8. Waiting(s, x)'
  <2> SUFFICES ASSUME main \in {"top", "await"} PROVE Waiting(s, x)'
    BY <1>1 DEF Waiting
  <2>1. own = "reply" /\ toServer = <<>> => At("command")
    BY <1>4, <1>5 DEF InTurn, AtMain, Waiting, At, Ends
  <2>2. /\ Owes => Newest(toServer).text \notin Modes /\ (Newest(toServer).text = "send" => ~loggedIn)
        /\ \A a \in Spoken : Fresh(own, a) =>
             /\ a \notin {"modePrompt", "request", "onlyOne"}
             /\ place = IF a = "goodByeMsg" THEN "closed" ELSE "command"
        /\ Waking(r) /\ Applied => At("command")
    BY DEF InTurn, AtMain, Waiting
  <2> QED
    BY <1>1, <1>2, <2>1, <2>2 DEF Waiting
<1>9. AwaitingMode(s, x)' /\ AwaitingRequest(s, x)'
  <2>1. main \in {"awaitMode", "awaitRequest"} => own # "reply"
    BY <1>4, <1>5 DEF InTurn, AtMain, AwaitingMode, AwaitingRequest
  <2> QED
    BY <1>1, <1>2, <2>1 DEF InTurn, AtMain, AwaitingMode, AwaitingRequest
<1>10. /\ AskingCommand(s, x)' /\ AskingMode(s, x)' /\ AskingMessage(s, x)' /\ SendingFile(s, x)'
  BY <1>1, <1>2
     DEF InTurn, AtMain, AskingCommand, AskingMode, AskingMessage, SendingFile, Waits
<1> QED
  BY <1>3, <1>6, <1>7, <1>8, <1>9, <1>10 DEF InTurn, AtMain

(* Main waits as long as an answer has not been dealt with.                *)
LEMMA BusyWaits ==
  ASSUME TypeOK, NEW r, NEW own, InTurn(r, own), main # "exited", ~Idle(r, own)
  PROVE  main \in Waits
  BY DEF InTurn, AtMain, AskingCommand, AskingMode, AskingMessage, SendingFile, TypeOK, Waits

LEMMA ReceiveFileStep ==
  ASSUME TypeOK, NEW r \in Phases, NEW own \in Spoken \cup {None}, Channel(r, own), InTurn(r, own),
         ReceiveFile
  PROVE  \E s \in Phases, x \in Spoken \cup {None} : Channel(s, x)' /\ InTurn(s, x)'
<1>1. PICK m \in Answers :
        /\ Arrives(m) /\ (isReceivingFileMode \/ m \in FileTexts)
        /\ isReceivingFileMode' <=> m # "EOF"
        /\ isSendingFileEnd' <=> m = "EOF" \/ (m \notin FileTexts /\ isSendingFileEnd)
        /\ recv' = recv
  BY DEF ReceiveFile
<1>2. /\ recv = "read" /\ recv' = "read"
      /\ UNCHANGED <<toServer, server, mainVars, messageReceived, sending, isLoginReady, hazards>>
  BY <1>1 DEF Arrives
<1>3. /\ isReceivingFileMode <=> r \in {1, 2}
      /\ isSendingFileEnd => r = 3 /\ "file" \in hazards
  BY <1>2 DEF InTurn, Receiving
<1>4. main # "exited" /\ recv' # "exited"
  BY <1>2 DEF InTurn, Ended
<1>5. /\ Applied /\ Applied' /\ ~InHand /\ ~InHand'
      /\ \A a \in Spoken : Fresh(own, a) <=> own = a
  BY <1>2 DEF Applied, InHand, Fresh
<1>6. r \in 0 .. 3 /\ (r # 0 => "file" \in hazards)
  BY DEF Phases
<1>7. m \notin FileTexts => r \in {1, 2} /\ isReceivingFileMode' /\ ~isSendingFileEnd'
  BY <1>1, <1>3 DEF FileTexts
<1>8. Owes' <=> Owes
  BY <1>2 DEF Owes, mainVars
<1>9. CASE own = m /\ m \in Spoken /\ Channel(r, None)'
  <2>1. m \notin FileTexts /\ own # None
    BY <1>9, SpokenAnswers DEF FileTexts
  <2>2. /\ ~Owes /\ ~Waking(r) /\ ~messageReceived /\ toServer = <<>>
    BY <2>1 DEF InTurn, OneAnswer, Waking
  <2>3. ~Waking(r)' /\ ~Late(r)'
    BY <1>2, <1>7, <2>1, <2>2 DEF Waking, Late
  <2>4. Receiving(r)'
    BY <1>2, <1>5, <1>7, <2>1 DEF Receiving
  <2>5. OneAnswer(r, None)'
    BY <1>2, <1>5, <1>8, <2>2, <2>3 DEF OneAnswer
  <2>6. \A a \in Spoken : ~Fresh(None, a)'
    BY <1>5, SpokenAnswers DEF Fresh
  <2>7. ~Idle(r, own) /\ main \in Waits
    BY <1>4, <2>1, BusyWaits DEF Idle
  <2>8. InTurn(r, None)'
    BY <1>2, <1>4, <2>2, <2>3, <2>4, <2>5, <2>6, <2>7, Onward
  <2> QED
    BY <1>2, <1>9, <2>8 DEF Phases
<1>10. CASE \E s \in Phases : Passes(m, r, s) /\ Channel(s, own)'
  <2>1. PICK s \in Phases : Passes(m, r, s) /\ Channel(s, own)'
    BY <1>10
  <2>2. \/ m = "Client_" /\ s = r /\ r \in {1, 2}
        \/ m = "INFO:" /\ r = 0 /\ s = 1
        \/ m = "FILE:" /\ r = 1 /\ s = 2
        \/ m = "EOF" /\ r = 2 /\ s = 3
    BY <1>1, <1>3, <1>6, <2>1, Records DEF Passes, NextPhase, FileTexts
  <2>3. "file" \in hazards
    BY <1>6, <2>1, <2>2 DEF Phases
  <2>4. Receiving(s)'
    BY <1>1, <1>2, <1>3, <1>5, <2>2, <2>3 DEF Receiving, FileTexts
  <2>5. ~Late(r) /\ ~Late(s)'
    BY <1>1, <1>2, <2>2 DEF Late
  <2>6. Waking(s)' <=> Waking(r)
    BY <1>2, <2>5 DEF Waking
  <2>7. \A a : Fresh(own, a)' <=> Fresh(own, a)
    BY <1>5 DEF Fresh
  <2>8. OneAnswer(s, own)'
    BY <1>2, <1>5, <1>8, <2>5, <2>6 DEF InTurn, OneAnswer
  <2>9. Idle(r, own) => Idle(s, own)' /\ (messageReceived' <=> messageReceived)
    BY <1>2, <1>5, <1>8, <2>5 DEF Idle
  <2>10. InTurn(s, own)'
    BY <1>2, <1>4, <1>5, <2>4, <2>6, <2>7, <2>8, <2>9, Onward
  <2> QED
    BY <1>2, <2>1, <2>10 DEF Phases
<1>11. own = m => m \in Spoken
  BY <1>1, SpokenAnswers
<1> QED
  BY <1>1, <1>9, <1>10, <1>11, Taken

LEMMA ReceiveChatStep ==
  ASSUME TypeOK, NEW r \in Phases, NEW own \in Spoken \cup {None}, Channel(r, own), InTurn(r, own),
         ReceiveChat
  PROVE  \E s \in Phases, x \in Spoken \cup {None} : Channel(s, x)' /\ InTurn(s, x)'
<1> PICK m \in ChatTexts : Arrives(m) /\ recv' = IF m = "Client_" THEN "read" ELSE "flags"
  BY DEF ReceiveChat
<1>0. m = "Client_"
  <2>1. m \notin Spoken /\ own # m
    BY SpokenAnswers DEF Spoken, Answers
  <2>2. PICK s \in Phases : Passes(m, r, s)
    BY <2>1, Taken
  <2>3. r \in 0 .. 3
    BY DEF Phases
  <2> QED
    BY <2>2, <2>3, Records DEF Passes, ChatTexts
<1>1. /\ Arrives("Client_") /\ recv = "read" /\ recv' = "read"
      /\ UNCHANGED <<toServer, server, mainVars, messageReceived, sending, isLoginReady, hazards,
                     isReceivingFileMode, isSendingFileEnd>>
  BY <1>0 DEF ReceiveChat, Arrives
<1>2. own # "Client_"
  BY SpokenAnswers
<1>3. Channel(r, own)'
  BY <1>1, <1>2, Taken DEF Passes
<1>4. main # "exited" /\ recv' # "exited"
  BY <1>1 DEF InTurn, Ended
<1>5. /\ Applied /\ Applied' /\ ~InHand /\ ~InHand'
      /\ Late(r)' <=> Late(r)
      /\ Waking(r)' <=> Waking(r)
      /\ Owes' <=> Owes
      /\ \A a : Fresh(own, a)' <=> Fresh(own, a)
      /\ Idle(r, own)' <=> Idle(r, own)
  BY <1>1 DEF Applied, InHand, Late, Waking, Fresh, Idle, Owes, mainVars
<1>6. Receiving(r)' /\ OneAnswer(r, own)'
  BY <1>1, <1>5 DEF InTurn, Receiving, OneAnswer
<1>7. InTurn(r, own)'
  BY <1>1, <1>4, <1>5, <1>6, Onward
<1> QED
  BY <1>1, <1>3, <1>7 DEF Phases

LEMMA ReceiveAnswerStep ==
  ASSUME TypeOK, NEW r \in Phases, NEW own \in Spoken \cup {None}, Channel(r, own), InTurn(r, own),
         ReceiveAnswer
  PROVE  \E s \in Phases, x \in Spoken \cup {None} : Channel(s, x)' /\ InTurn(s, x)'
<1>1. PICK m \in Spoken :
        /\ Arrives(m) /\ ~isReceivingFileMode
        /\ recv' = IF isSendingFileEnd THEN "fileEnd"
                   ELSE IF m = "goodByeMsg" THEN "flags" ELSE "signal"
        /\ UNCHANGED <<isReceivingFileMode, isSendingFileEnd>>
  BY DEF ReceiveAnswer, Spoken
<1>2. /\ recv = "read" /\ message' = m
      /\ UNCHANGED <<toServer, server, mainVars, messageReceived, sending, isLoginReady, hazards>>
  BY <1>1 DEF Arrives
<1>3. /\ r \in {0, 3}
      /\ isSendingFileEnd => r = 3 /\ "file" \in hazards
  BY <1>1, <1>2 DEF InTurn, Receiving, Phases
<1>4. main # "exited" /\ recv' # "exited"
  BY <1>1, <1>2 DEF InTurn, Ended
<1>5. /\ Applied /\ ~InHand /\ InHand' /\ (Applied' <=> m = "reply")
      /\ \A a : Fresh(own, a) <=> own = a
  BY <1>1, <1>2 DEF Applied, InHand, Fresh
<1>6. Owes' <=> Owes
  BY <1>2 DEF Owes, mainVars
<1>7. CASE own = m /\ m \in Spoken /\ Channel(r, None)'
  <2>1. own # None
    BY <1>7, SpokenAnswers
  <2>2. /\ ~Owes /\ ~Waking(r) /\ ~messageReceived /\ toServer = <<>> /\ ~Late(r)
    BY <2>1 DEF InTurn, OneAnswer, Waking
  <2>3. r = 3 <=> isSendingFileEnd
    BY <1>2, <1>3, <2>2 DEF Late
  <2>4. Late(r)' <=> r = 3
    BY <1>1, <2>3 DEF Late
  <2>5. Receiving(r)'
    BY <1>1, <1>2, <1>3, <2>3 DEF InTurn, Receiving
  <2>6. OneAnswer(r, None)'
    BY <1>1, <1>2, <1>6, <2>2, <2>3, <2>4 DEF OneAnswer
  <2>7. \A a \in Spoken : Fresh(None, a)' <=> (a = m /\ m # "reply")
    BY <1>2, <1>5, SpokenAnswers DEF Fresh
  <2>8. ~Idle(r, own) /\ main \in Waits
    BY <1>4, <2>1, BusyWaits DEF Idle
  <2>9. \A a \in {"loginOK", "logoutMsg"} : Fresh(own, a) => Fresh(None, a)'
    BY <1>5, <1>7, <2>7, SpokenAnswers
  <2>10. Waking(r)' /\ Applied' => own = "reply" /\ toServer = <<>>
    BY <1>5, <1>7, <2>2
  <2>11. \A a \in Spoken : Fresh(None, a)' => Fresh(own, a)
    BY <1>5, <1>7, <2>7
  <2>12. InTurn(r, None)'
    BY <1>2, <1>4, <2>1, <2>5, <2>6, <2>8, <2>9, <2>10, <2>11, Onward
  <2> QED
    BY <1>2, <1>7, <2>12 DEF Phases
<1>8. CASE \E s \in Phases : Passes(m, r, s) /\ Channel(s, own)'
  <2>1. PICK s \in Phases : Passes(m, r, s) /\ Channel(s, own)'
    BY <1>8
  <2>2. m = "reply" /\ r = 3 /\ s = 0 /\ "file" \in hazards
    BY <1>1, <1>3, <2>1, Records, SpokenAnswers DEF Passes, NextPhase, Phases
  <2>3. ~Late(s)' /\ (Late(r) <=> ~isSendingFileEnd)
    BY <1>2, <2>2 DEF Late
  <2>4. recv' = IF isSendingFileEnd THEN "fileEnd" ELSE "signal"
    BY <1>1, <2>2
  <2>5. Receiving(s)'
    BY <1>1, <1>2, <2>2, <2>4 DEF Receiving
  <2>6. Waking(s)' <=> Waking(r)
    BY <1>2, <2>3, <2>4 DEF Waking
  <2>7. Applied' /\ \A a \in Spoken : Fresh(own, a)' <=> Fresh(own, a)
    BY <1>2, <1>5, <2>2 DEF Fresh
  <2>8. OneAnswer(s, own)'
    BY <1>2, <1>6, <2>2, <2>3, <2>4, <2>6, <2>7 DEF InTurn, OneAnswer
  <2>9. Idle(r, own) => Idle(s, own)' /\ (messageReceived' <=> messageReceived)
    BY <1>2, <1>6, <2>3, <2>4, <2>7 DEF Idle
  <2>10. \A a \in {"loginOK", "logoutMsg"} : Fresh(own, a) => Fresh(own, a)'
    BY <2>7, SpokenAnswers
  <2>11. InTurn(s, own)'
    BY <1>2, <1>4, <1>5, <2>5, <2>6, <2>7, <2>8, <2>9, <2>10, Onward
  <2> QED
    BY <1>2, <2>1, <2>11 DEF Phases
<1> QED
  BY <1>1, <1>7, <1>8, Taken

LEMMA HandedOnStep ==
  ASSUME TypeOK, NEW r \in Phases, NEW own \in Spoken \cup {None}, Channel(r, own), InTurn(r, own),
         FileEnded \/ Signal
  PROVE  Channel(r, own)' /\ InTurn(r, own)'
<1>1. /\ recv \in {"fileEnd", "signal"} /\ recv' = "flags" /\ message' = message
      /\ UNCHANGED <<toClient, peerFile, toServer, server, mainVars, sending, isLoginReady, hazards,
                     isReceivingFileMode>>
  BY DEF FileEnded, Signal, incoming
<1>2. Channel(r, own)'
  BY <1>1 DEF Channel, Phases
<1>3. main # "exited" /\ recv' # "exited"
  BY <1>1 DEF InTurn, Ended
<1>4. /\ InHand /\ InHand'
      /\ Applied' <=> Applied
      /\ Owes' <=> Owes
      /\ \A a : Fresh(own, a)' <=> Fresh(own, a)
  BY <1>1 DEF InHand, Applied, Owes, Fresh, mainVars
<1>5. CASE FileEnded
  <2>1. recv = "fileEnd" /\ isSendingFileEnd /\ ~isSendingFileEnd' /\ messageReceived' = messageReceived
    BY <1>5 DEF FileEnded, InTurn, Receiving
  <2>2. /\ Late(r)' <=> Late(r)
        /\ Waking(r)' <=> Waking(r)
        /\ Idle(r, own)' <=> Idle(r, own)
    BY <1>1, <1>4, <2>1 DEF Late, Waking, Idle
  <2>3. r = 3 \/ message = "reply"
    BY <2>1 DEF InTurn, Receiving
  <2>4. Receiving(r)'
    BY <1>1, <1>4, <2>1 DEF InTurn, Receiving
  <2>5. Late(r) <=> r = 3
    BY <2>1 DEF Late
  <2>6. OneAnswer(r, own)'
    BY <1>1, <1>4, <2>1, <2>2, <2>3, <2>5 DEF InTurn, OneAnswer
  <2>7. InTurn(r, own)'
    BY <1>1, <1>3, <1>4, <2>1, <2>2, <2>4, <2>6, Onward
  <2> QED
    BY <1>2, <2>7
<1>6. CASE Signal
  <2>1. /\ recv = "signal" /\ messageReceived' = TRUE
        /\ UNCHANGED isSendingFileEnd
    BY <1>6 DEF Signal, incoming
  <2>2. /\ ~messageReceived /\ ~Late(r) /\ toServer = <<>> /\ message # "goodByeMsg"
        /\ Waking(r) /\ own = None /\ ~Owes
    BY <2>1 DEF InTurn, OneAnswer, Waking
  <2>3. Waking(r)' /\ ~Late(r)'
    BY <1>1, <2>1, <2>2 DEF Waking, Late
  <2>4. Receiving(r)'
    BY <1>1, <1>4, <2>1 DEF InTurn, Receiving
  <2>5. OneAnswer(r, own)'
    BY <1>1, <1>4, <2>1, <2>2, <2>3 DEF OneAnswer
  <2>6. ~Idle(r, own)
    BY <2>1 DEF Idle
  <2>7. InTurn(r, own)'
    BY <1>1, <1>3, <1>4, <2>2, <2>3, <2>4, <2>5, <2>6, Onward
  <2> QED
    BY <1>2, <2>7
<1> QED
  BY <1>5, <1>6

LEMMA SetFlagsStep ==
  ASSUME TypeOK, NEW r \in Phases, NEW own \in Spoken \cup {None}, Channel(r, own), InTurn(r, own),
         SetFlags
  PROVE  Channel(r, own)' /\ InTurn(r, own)'
<1>1. /\ recv = "flags" /\ message' = message
      /\ recv' = IF message = "goodByeMsg" THEN "exited" ELSE "read"
      /\ main' = IF message = "goodByeMsg" THEN "exited" ELSE main
      /\ isLoginReady' = IF message = "logoutMsg" THEN FALSE
                         ELSE isLoginReady \/ message \in {"loginOK", "Client_login"}
      /\ validSending' = IF message \in {"invalid", "Client_failed"} THEN FALSE
                         ELSE validSending \/ message = "modePrompt"
      /\ isSending' = (isSending \/ message = "modePrompt")
      /\ oneClientSending' = (oneClientSending \/ message = "onlyOne")
      /\ UNCHANGED <<toClient, peerFile, toServer, server, relayMsg, chunks, messageReceived, hazards,
                     isReceivingFileMode, isSendingFileEnd>>
  BY DEF SetFlags, incoming
<1>2. Channel(r, own)'
  BY <1>1 DEF Channel, Phases
<1>3. main # "exited" /\ UNCHANGED <<place, mode, loggedIn>>
  BY <1>1 DEF InTurn, Ended, server
<1>4. /\ isLoginReady \in BOOLEAN /\ validSending \in BOOLEAN /\ isSending \in BOOLEAN
      /\ oneClientSending \in BOOLEAN /\ loggedIn \in BOOLEAN
  BY DEF TypeOK
<1>5. /\ InHand /\ ~InHand' /\ Applied'
      /\ Late(r)' <=> Late(r)
      /\ Waking(r)' <=> Waking(r)
      /\ Owes' <=> Owes
      /\ \A a : Fresh(own, a)' <=> own = a
  BY <1>1 DEF InHand, Applied, Late, Waking, Owes, Fresh
<1>6. Receiving(r)'
  BY <1>1, <1>5 DEF InTurn, Receiving
<1>7. CASE message = "reply"
  <2>1. UNCHANGED <<mainVars, sending, isLoginReady>> /\ recv' = "read"
    BY <1>1, <1>4, <1>7 DEF mainVars, sending
  <2>2. Applied /\ \A a : Fresh(own, a)' <=> Fresh(own, a)
    BY <1>5, <1>7 DEF Applied, Fresh
  <2>3. OneAnswer(r, own)'
    BY <1>1, <1>5, <2>1, <2>2 DEF InTurn, OneAnswer
  <2>4. Idle(r, own)' <=> Idle(r, own)
    BY <1>1, <1>5, <2>1, <2>2 DEF Idle
  <2>5. InTurn(r, own)'
    BY <1>1, <1>3, <1>5, <1>6, <2>1, <2>2, <2>3, <2>4, Onward
  <2> QED
    BY <1>2, <2>5
<1>8. CASE message # "reply"
  <2>1. ~Applied /\ Fresh(own, message) /\ message \in Spoken
    BY <1>5, <1>8 DEF Applied, Fresh, InTurn, Receiving
  <2>2. own = None /\ ~Owes /\ toServer = <<>>
    BY <2>1 DEF InTurn, OneAnswer
  <2>3. main \in Waits
    BY <1>3, <2>1, BusyWaits DEF Idle
  <2>4. \A a \in Spoken : ~Fresh(own, a)'
    BY <1>5, <2>2, SpokenAnswers
  <2>5. QueueOK'
    BY <1>1, <1>3 DEF InTurn, QueueOK
  <2>6. OneAnswer(r, own)'
    BY <1>1, <1>5, <2>2 DEF InTurn, OneAnswer
  <2>7. Waking(r) \/ message = "goodByeMsg"
    BY <1>1, <1>8 DEF InTurn, OneAnswer, Waking
  <2>8. LoginOK(r, own)'
    <3>1. message \notin {"loginOK", "logoutMsg"} =>
            /\ ~Fresh(own, "loginOK") /\ ~Fresh(own, "logoutMsg")
            /\ isLoginReady' = isLoginReady
      BY <1>1, <1>4, <2>1, <2>2, SpokenAnswers DEF Fresh, None
    <3>2. Waking(r) /\ message \notin {"loginOK", "logoutMsg"} => isLoginReady' = loggedIn
      BY <3>1 DEF InTurn, LoginOK
    <3>3. message = "loginOK" => isLoginReady' = TRUE /\ loggedIn
      BY <1>1, <2>1 DEF InTurn, LoginOK
    <3>4. message = "logoutMsg" => isLoginReady' = FALSE /\ ~loggedIn
      BY <1>1, <2>1 DEF InTurn, LoginOK
    <3>5. Waking(r) => isLoginReady' = loggedIn
      BY <1>4, <3>2, <3>3, <3>4
    <3>6. ~Owes' /\ own = None /\ (Waking(r)' => Waking(r)) /\ main' \in Waits \cup {"exited"}
      BY <1>1, <1>5, <2>2, <2>3
    <3>7. ~Fresh(own, "loginOK")' /\ ~Fresh(own, "logoutMsg")'
      BY <2>4, SpokenAnswers
    <3> QED
      BY <1>3, <3>5, <3>6, <3>7 DEF LoginOK
  <2>9. Ended(r, own)'
    BY <1>1, <1>3, <2>1, <2>3, <2>4, SpokenAnswers DEF InTurn, Ended, Waits
  <2>10. AtMain(r, own)'
    <3>1. CASE message = "goodByeMsg"
      BY <1>1, <3>1 DEF AtMain, Waiting, AskingCommand, AwaitingMode, AskingMode, AwaitingRequest,
                        AskingMessage, SendingFile
    <3>2. CASE message # "goodByeMsg"
      <4>1. main' = main /\ Waking(r) /\ relayMsg' = relayMsg
        BY <1>1, <2>7, <3>2
      <4>2. Waiting(r, own)'
        <5>1. main \in {"top", "await"} => place = "command"
          BY <2>1, <3>2 DEF InTurn, AtMain, Waiting
        <5> QED
          BY <1>1, <1>3, <1>5, <2>2, <2>4, <4>1, <5>1 DEF Waiting, At, Ends
      <4>3. AwaitingMode(r, own)'
        <5>1. main = "awaitMode" => message = "modePrompt" /\ place = "selection" /\ ~oneClientSending
          BY <2>1 DEF InTurn, AtMain, AwaitingMode
        <5> QED
          BY <1>1, <1>3, <2>2, <2>4, <4>1, <5>1 DEF AwaitingMode
      <4>4. AwaitingRequest(r, own)'
        <5>1. main = "awaitRequest" =>
                /\ validSending /\ ~oneClientSending
                /\ \/ message = "request" /\ place = "message"
                   \/ message = "onlyOne" /\ place = "command" /\ relayMsg \in {"2", "4"}
          BY <2>1 DEF InTurn, AtMain, AwaitingRequest
        <5> QED
          BY <1>1, <1>3, <2>2, <2>4, <4>1, <5>1 DEF AwaitingRequest
      <4>5. /\ AskingCommand(r, own)' /\ AskingMode(r, own)' /\ AskingMessage(r, own)'
            /\ SendingFile(r, own)'
        BY <2>3, <4>1 DEF AskingCommand, AskingMode, AskingMessage, SendingFile, Waits
      <4> QED
        BY <4>2, <4>3, <4>4, <4>5 DEF AtMain
    <3> QED
      BY <3>1, <3>2
  <2>11. InTurn(r, own)'
    BY <1>6, <2>5, <2>6, <2>8, <2>9, <2>10 DEF InTurn
  <2> QED
    BY <1>2, <2>11
<1> QED
  BY <1>7, <1>8

LEMMA ReceiverStep ==
  ASSUME TypeOK, Turn, Receiver
  PROVE  Turn'
<1>1. PICK r \in Phases, own \in Spoken \cup {None} : Channel(r, own) /\ InTurn(r, own)
  BY DEF Turn
<1>2. UNCHANGED <<peerFile, hazards>> /\ Phases' = Phases
  BY DEF Receiver, ReceiveFile, ReceiveChat, ReceiveAnswer, FileEnded, Signal, SetFlags, Arrives,
         Phases
<1>3. \E s \in Phases, x \in Spoken \cup {None} : Channel(s, x)' /\ InTurn(s, x)'
  BY <1>1, ReceiveFileStep, ReceiveChatStep, ReceiveAnswerStep, HandedOnStep, SetFlagsStep
     DEF Receiver
<1> QED
  BY <1>2, <1>3 DEF Turn, Left

-----------------------------------------------------------------------------
(* When the worker's answer has been taken for something else.             *)

LEMMA LostReceiver ==
  ASSUME TypeOK, Lost, Receiver
  PROVE  Lost'
<1>1. PICK r \in Phases, own \in Echoed \cup {None} : Channel(r, own) /\ Quiet(r)
  BY DEF Lost
<1>2. UNCHANGED <<peerFile, hazards, toServer>> /\ Phases' = Phases /\ Left'
  BY DEF Receiver, ReceiveFile, ReceiveChat, ReceiveAnswer, FileEnded, Signal, SetFlags, Arrives,
         Phases, Lost, Left
<1> SUFFICES \E s \in Phases, x \in Echoed \cup {None} : Channel(s, x)' /\ Quiet(s)'
  BY <1>2 DEF Lost
<1>3. /\ "echo" \in hazards' /\ toServer' = <<>>
      /\ r \in 0 .. 3 /\ \A s \in Phases : s \in 0 .. 3
  BY <1>1, <1>2 DEF Quiet, Phases
<1>4. ASSUME NEW m, Arrives(m)
      PROVE  /\ recv = "read" /\ message' = m /\ UNCHANGED <<main, messageReceived>>
             /\ \/ own = m /\ m \in Echoed /\ Channel(r, None)'
                \/ \E s \in Phases : Passes(m, r, s) /\ Channel(s, own)'
  <2>1. recv = "read" /\ message' = m /\ UNCHANGED <<main, messageReceived>> /\ m \in Answers
    BY <1>4, ChannelTypes DEF Arrives, mainVars
  <2>2. own = m => m \in Echoed
    BY <2>1, SpokenAnswers
  <2> QED
    BY <1>1, <1>4, <2>1, <2>2, Taken
<1>5. CASE ReceiveFile
  <2>1. PICK m \in Answers :
          /\ Arrives(m) /\ recv' = recv
          /\ isReceivingFileMode' <=> m # "EOF"
          /\ isSendingFileEnd' <=> m = "EOF" \/ (m \notin FileTexts /\ isSendingFileEnd)
    BY <1>5 DEF ReceiveFile
  <2>2. CASE own = m /\ m \in Echoed /\ Channel(r, None)'
    <3>1. isReceivingFileMode'
      BY <2>1, <2>2, SpokenAnswers
    <3>2. Quiet(r)'
      BY <1>1, <1>3, <1>4, <2>1, <3>1 DEF Quiet, InHand
    <3> QED
      BY <2>2, <3>2
  <2>3. ASSUME NEW s \in Phases, Passes(m, r, s), Channel(s, own)'
        PROVE  Quiet(s)'
    <3>1. /\ m = "EOF" => s = 3
          /\ s = 3 /\ m # "EOF" => r = 3
      BY <1>3, <2>3, Records DEF Passes, NextPhase
    <3>2. s \in {1, 2} => isReceivingFileMode'
      BY <2>1, <3>1
    <3>3. isReceivingFileMode' \/ isSendingFileEnd'
      BY <2>1
    <3> QED
      BY <1>1, <1>3, <1>4, <2>1, <3>2, <3>3 DEF Quiet, InHand
  <2> QED
    BY <1>1, <1>4, <2>1, <2>2, <2>3
<1>6. CASE ReceiveChat
  <2>1. PICK m \in ChatTexts :
          /\ Arrives(m) /\ ~isReceivingFileMode /\ recv' = IF m = "Client_" THEN "read" ELSE "flags"
          /\ UNCHANGED <<isReceivingFileMode, isSendingFileEnd>>
    BY <1>6 DEF ReceiveChat
  <2>2. m # "goodByeMsg" /\ recv' \in {"read", "flags"}
    BY <2>1 DEF ChatTexts
  <2>3. Quiet(r)'
    BY <1>1, <1>3, <1>4, <2>1, <2>2 DEF Quiet, InHand
  <2>4. ASSUME NEW s \in Phases, Passes(m, r, s)
        PROVE  s = r
    BY <1>3, <2>1, <2>4, Records DEF Passes, ChatTexts
  <2> QED
    BY <1>1, <1>4, <2>1, <2>3, <2>4
<1>7. CASE ReceiveAnswer
  <2>1. PICK m \in Answers \ (FileTexts \cup ChatTexts) :
          /\ Arrives(m) /\ ~isReceivingFileMode
          /\ recv' = IF isSendingFileEnd THEN "fileEnd"
                     ELSE IF m = "goodByeMsg" THEN "flags" ELSE "signal"
          /\ UNCHANGED <<isReceivingFileMode, isSendingFileEnd>>
    BY <1>7 DEF ReceiveAnswer
  <2>2. m \in Spoken /\ m \notin Echoed
    BY SpokenAnswers DEF Spoken
  <2>3. PICK s \in Phases : Passes(m, r, s) /\ Channel(s, own)'
    BY <1>4, <2>1, <2>2
  <2>4. m = "reply" /\ r = 3 /\ s = 0
    BY <1>3, <2>2, <2>3, Records, SpokenAnswers DEF Passes, NextPhase
  <2>5. isSendingFileEnd /\ recv' = "fileEnd"
    BY <1>1, <2>1, <2>4 DEF Quiet
  <2>6. Quiet(s)'
    BY <1>1, <1>3, <1>4, <2>1, <2>4, <2>5 DEF Quiet, InHand
  <2> QED
    BY <1>1, <2>3, <2>6
<1>8. CASE FileEnded
  <2>1. /\ recv = "fileEnd" /\ recv' = "flags"
        /\ UNCHANGED <<toClient, main, message, messageReceived, isReceivingFileMode>>
    BY <1>8 DEF FileEnded, mainVars
  <2>2. Channel(r, own)'
    BY <1>1, <1>2, <2>1 DEF Channel
  <2>3. Quiet(r)'
    BY <1>1, <1>3, <2>1 DEF Quiet, InHand
  <2> QED
    BY <1>1, <2>2, <2>3
<1>9. ~Signal
  BY <1>1 DEF Signal, Quiet
<1>10. CASE SetFlags
  <2>1. /\ recv = "flags" /\ message # "goodByeMsg"
    BY <1>1, <1>10 DEF SetFlags, Quiet, InHand
  <2>2. /\ recv' = "read" /\ main' = main
        /\ UNCHANGED <<toClient, messageReceived, isReceivingFileMode, isSendingFileEnd>>
    BY <1>10, <2>1 DEF SetFlags, incoming
  <2>3. Channel(r, own)'
    BY <1>1, <1>2, <2>2 DEF Channel
  <2>4. Quiet(r)'
    BY <1>1, <1>3, <2>2 DEF Quiet, InHand
  <2> QED
    BY <1>1, <2>3, <2>4
<1> QED
  BY <1>5, <1>6, <1>7, <1>8, <1>9, <1>10 DEF Receiver

(* The worker has nothing to read, and main nothing to do but to wait.     *)
LEMMA LostStep ==
  ASSUME TypeOK, Orderly, Lost, [Next]_vars
  PROVE  Lost'
<1>1. PICK r \in Phases, own \in Echoed \cup {None} : Channel(r, own) /\ Quiet(r)
  BY DEF Lost
<1>2. ASSUME UNCHANGED <<toClient, peerFile, hazards, toServer, recv, message, messageReceived,
                         isReceivingFileMode, isSendingFileEnd>>,
             main' \in Waits
      PROVE  Lost'
  <2>1. Channel(r, own)' /\ Phases' = Phases /\ Left'
    BY <1>1, <1>2 DEF Channel, Phases, Lost, Left
  <2>2. Quiet(r)'
    BY <1>1, <1>2 DEF Quiet, InHand
  <2> QED
    BY <1>1, <2>1, <2>2 DEF Lost
<1>3. CASE UNCHANGED vars
  BY <1>1, <1>2, <1>3 DEF vars, client, mainVars, recvVars, flags, incoming, Quiet
<1>4. ~Worker
  BY <1>1
     DEF Quiet, Worker, Register, Login, Logout, Exit, Send, NoCommand, Dropped, NoSelection,
         Selection, Cancelled, NoMessage, Message, FileName, FileRefused, FilePiece, FileEnd, Reads
<1>5. CASE Peers
  <2>1. /\ UNCHANGED <<toServer, server, client, hazards>>
        /\ Phases' = Phases /\ Left' /\ Channel(r, own)'
    BY <1>1, <1>5, PeerWrites DEF Lost
  <2>2. Quiet(r)'
    BY <1>1, <2>1 DEF Quiet, InHand, client, mainVars, recvVars, flags, incoming
  <2> QED
    BY <1>1, <2>1, <2>2 DEF Lost
<1>6. ~User
  BY <1>1
     DEF Quiet, Waits, User, AskCommand, EmptyCommand, AskMode, AskMode_Wrong, DropMessage,
         AskMessage, CancelFile, AskFile, LongLine, MainAt
<1>7. CASE Program
  <2>1. CASE Top
    <3>1. UNCHANGED <<toClient, peerFile, hazards, toServer, recv, message, messageReceived,
                      isReceivingFileMode, isSendingFileEnd>>
      BY <2>1 DEF Top, mainFrame, recvVars, incoming
    <3> QED
      BY <1>2, <2>1, <3>1 DEF Top, Goto, Waits
  <2>2. ~(Await \/ AwaitMode \/ AwaitRequest)
    BY <1>1 DEF Quiet, Await, AwaitMode, AwaitRequest
  <2>3. ~(ModeCheck \/ SendChunk \/ SendEOF \/ FileVanished)
    BY <1>1 DEF Quiet, Waits, ModeCheck, SendChunk, SendEOF, FileVanished, MainAt
  <2> QED
    BY <1>7, <2>1, <2>2, <2>3 DEF Program
<1> QED
  BY <1>3, <1>4, <1>5, <1>6, <1>7, LostReceiver DEF Next

-----------------------------------------------------------------------------
(* The main thread.                                                        *)

(* What main leaves to the others stays as it is.                          *)
LEMMA MainFrame ==
  ASSUME NEW r, NEW own, InTurn(r, own), UNCHANGED mainFrame
  PROVE  /\ UNCHANGED <<place, mode, loggedIn, recv, message, isLoginReady, hazards>>
         /\ Receiving(r)'
         /\ Applied' <=> Applied
         /\ Late(r)' <=> Late(r)
         /\ \A a : Fresh(own, a)' <=> Fresh(own, a)
<1>1. UNCHANGED <<place, mode, loggedIn, recv, message, isLoginReady, hazards,
                  isReceivingFileMode, isSendingFileEnd>>
  BY DEF mainFrame, server, recvVars, incoming
<1> QED
  BY <1>1 DEF InTurn, Receiving, InHand, Applied, Late, Fresh

(* With all answers in and none to be waited for, the worker is on line.   *)
LEMMA WhenIdle ==
  ASSUME NEW r, NEW own, InTurn(r, own), Idle(r, own), UNCHANGED mainFrame,
         main # "exited", main \notin Waits \/ messageReceived
  PROVE  /\ place # "closed" /\ isLoginReady = loggedIn
         /\ Waking(r)' <=> messageReceived'
         /\ \A a \in Spoken : ~Fresh(own, a) /\ ~Fresh(own, a)'
         /\ ~Owes' => Idle(r, own)'
<1>1. \A a \in Spoken : ~Fresh(own, a)
  BY SpokenAnswers DEF Idle, Applied, Fresh
<1>2. isLoginReady = loggedIn
  BY <1>1, SpokenAnswers DEF InTurn, LoginOK, Waking
<1>3. place # "closed"
  <2>1. CASE main \in {"top", "await"}
    <3>1. At("command")
      BY <2>1 DEF InTurn, AtMain, Waiting, Waking, Idle, Waits
    <3> QED
      BY <3>1 DEF At, Ends, InTurn, Ended
  <2> QED
    BY <2>1 DEF InTurn, Ended
<1>4. /\ UNCHANGED recv /\ Applied' /\ ~Late(r)'
      /\ \A a : Fresh(own, a)' <=> Fresh(own, a)
  BY MainFrame DEF Idle
<1> QED
  BY <1>1, <1>2, <1>3, <1>4 DEF Waking, Idle

(* What is typed at the right question.                                    *)
LEMMA TypedAt ==
  ASSUME TypeOK, NEW r, NEW own, InTurn(r, own), NEW text \in Texts, NEW z \in Places, Types(text, z),
         Fits([text |-> text, at |-> z], relayMsg), At(z),
         UNCHANGED <<place, relayMsg>>
  PROVE  /\ Chain(toServer, place, relayMsg)'
         /\ toServer' # <<>> /\ Newest(toServer)'.text = text
         /\ Owes' <=> ~Silent([text |-> text, at |-> z], relayMsg)
         /\ \A y : At(y)' <=> /\ Silent([text |-> text, at |-> z], relayMsg)
                              /\ y = After([text |-> text, at |-> z])
<1> DEFINE t == [text |-> text, at |-> z]
<1>1. t \in Text /\ t.text = text /\ t.at = z
  BY DEF Text
<1>2. toServer' = Append(toServer, t) /\ toServer \in Seq(Text)
  BY DEF Types, TypeOK, Text
<1> HIDE DEF t
<1>3. Chain(toServer, place, relayMsg) /\ Ends(toServer, place, t.at, relayMsg)
  BY <1>1 DEF InTurn, QueueOK, At
<1>4. Fits(t, relayMsg)
  BY DEF t
<1>5. /\ Chain(toServer', place, relayMsg)
      /\ toServer' # <<>> /\ Newest(toServer') = t
  BY <1>1, <1>2, <1>3, <1>4, Typed
<1> QED
  BY <1>1, <1>5 DEF Owes, Owed, At, Ends, t

(* A step of main with all answers in: only where main is matters.         *)
LEMMA Moved ==
  ASSUME NEW r, NEW own, InTurn(r, own), Idle(r, own), recv # "flags", UNCHANGED mainFrame,
         main # "exited", main \notin Waits \/ messageReceived, main' # "exited",
         AtMain(r, own)', Chain(toServer, place, relayMsg)',
         place = "message" => mode = relayMsg',
         Owes' => ~messageReceived'
  PROVE  InTurn(r, own)'
<1>1. /\ place # "closed" /\ isLoginReady = loggedIn
      /\ Waking(r)' <=> messageReceived'
      /\ \A a \in Spoken : ~Fresh(own, a)'
  BY WhenIdle
<1>2. /\ UNCHANGED <<place, mode, loggedIn, recv, message, isLoginReady, hazards>>
      /\ Receiving(r)' /\ Applied' /\ ~Late(r)'
  BY MainFrame DEF Idle
<1>3. QueueOK'
  BY <1>2 DEF InTurn, QueueOK
<1>4. OneAnswer(r, own)'
  BY <1>1, <1>2 DEF OneAnswer, Idle
<1>5. LoginOK(r, own)' /\ Ended(r, own)'
  BY <1>1, <1>2, SpokenAnswers DEF InTurn, Ended, LoginOK
<1> QED
  BY <1>2, <1>3, <1>4, <1>5 DEF InTurn

(* A step of main after which an answer is waited for in the main loop.    *)
LEMMA BackToTop ==
  ASSUME NEW r, NEW own, InTurn(r, own), Idle(r, own), recv # "flags", UNCHANGED mainFrame,
         main # "exited", main \notin Waits \/ messageReceived, main' = "top",
         Chain(toServer, place, relayMsg)', relayMsg' = relayMsg,
         Owes' => /\ ~messageReceived'
                  /\ Newest(toServer)'.text \notin Modes
                  /\ Newest(toServer)'.text = "send" => ~loggedIn,
         messageReceived' => At("command")'
  PROVE  InTurn(r, own)'
<1>1. /\ Waking(r)' <=> messageReceived'
      /\ \A a \in Spoken : ~Fresh(own, a)'
  BY WhenIdle
<1>2. UNCHANGED <<place, mode, loggedIn>>
  BY MainFrame
<1>3. AtMain(r, own)'
  BY <1>1, <1>2 DEF AtMain, Waiting, AskingCommand, AwaitingMode, AskingMode, AwaitingRequest,
                    AskingMessage, SendingFile
<1>4. place = "message" => mode = relayMsg'
  BY DEF InTurn, QueueOK
<1> QED
  BY <1>3, <1>4, Moved

(* Whoever takes the signal has every answer.                              *)
LEMMA WokenUp ==
  ASSUME NEW r, NEW own, InTurn(r, own), messageReceived, recv # "flags", main # "exited"
  PROVE  Idle(r, own) /\ Waking(r) /\ Applied
<1>1. Waking(r)
  BY DEF Waking
<1>2. ~Owes /\ own = None /\ recv # "signal" /\ ~Late(r)
  BY <1>1 DEF InTurn, OneAnswer
<1>3. Applied
  <2>1. recv = "fileEnd" => r = 0 /\ message = "reply"
    BY <1>2 DEF InTurn, Receiving, Late
  <2> QED
    BY <1>2, <2>1 DEF Applied, InHand
<1> QED
  BY <1>1, <1>2, <1>3 DEF Idle

(* Main asks for the command, for the mode, or for the message.            *)
LEMMA AskingStep ==
  ASSUME TypeOK, Orderly, NEW r, NEW own, InTurn(r, own),
         EmptyCommand \/ AskCommand \/ AskMode \/ AskMode_Wrong \/ AskMessage
         \/ CancelFile \/ AskFile
  PROVE  InTurn(r, own)'
<1>1. /\ UNCHANGED mainFrame
      /\ UNCHANGED <<place, mode, loggedIn>>
      /\ recv # "flags" /\ main \notin Waits \cup {"exited"}
  BY DEF EmptyCommand, AskCommand, AskMode, AskMode_Wrong, AskMessage, CancelFile, AskFile,
         mainFrame, server, MainAt, Orderly, Waits
<1>2. /\ Words \cup Lines \cup Modes \cup {"option", "cancel", "send x"} \subseteq Texts
      /\ {"command", "selection", "message"} \subseteq Places
  BY DEF Texts, Lines, Places
<1>3. ASSUME At("command") \/ toServer = <<>>, UNCHANGED <<toServer, relayMsg>>
      PROVE  ~Owes' /\ Chain(toServer, place, relayMsg)'
  BY <1>1, <1>3, EmptyChain DEF InTurn, QueueOK, Owes, Owed, At, Ends
<1>4. ASSUME toServer = <<>> PROVE At(place)
  BY <1>4 DEF At, Ends
<1>5. CASE EmptyCommand
  <2>1. /\ main = "askCommand" /\ main' = "top"
        /\ UNCHANGED <<toServer, relayMsg, messageReceived>>
    BY <1>5 DEF EmptyCommand, MainAt, Goto
  <2>2. Idle(r, own) /\ ~messageReceived /\ At("command")
    BY <2>1 DEF InTurn, AtMain, AskingCommand
  <2>3. ~Owes' /\ Chain(toServer, place, relayMsg)'
    BY <1>3, <2>1, <2>2
  <2> QED
    BY <1>1, <2>1, <2>2, <2>3, BackToTop
<1>6. CASE AskCommand
  <2>1. PICK word \in Words :
          /\ word # "SEND" /\ Types(word, "command")
          /\ main' = IF word = "send" /\ isLoginReady THEN "awaitMode" ELSE "top"
          /\ oneClientSending' = (oneClientSending /\ word # "send")
    BY <1>6 DEF AskCommand, Goto, Orderly
  <2>2. main = "askCommand" /\ UNCHANGED <<relayMsg, messageReceived>>
    BY <1>6 DEF AskCommand, MainAt
  <2>3. Idle(r, own) /\ ~messageReceived /\ At("command")
    BY <2>2 DEF InTurn, AtMain, AskingCommand
  <2>4. /\ isLoginReady = loggedIn /\ ~Waking(r)'
        /\ \A a \in Spoken : ~Fresh(own, a)'
    BY <1>1, <2>2, <2>3, WhenIdle
  <2>5. /\ Fits([text |-> word, at |-> "command"], relayMsg)
        /\ ~Silent([text |-> word, at |-> "command"], relayMsg)
    BY <2>1 DEF Fits, Silent, Words
  <2>6. /\ Chain(toServer, place, relayMsg)' /\ toServer' # <<>>
        /\ Newest(toServer)'.text = word /\ Owes'
    BY <1>1, <1>2, <2>1, <2>2, <2>3, <2>5, TypedAt
  <2>7. word \notin Modes
    BY <2>1 DEF Words, Modes
  <2>8. CASE word = "send" /\ isLoginReady
    <3>1. main' = "awaitMode" /\ ~oneClientSending' /\ loggedIn'
      BY <1>1, <2>1, <2>8, <2>4
    <3>2. AtMain(r, own)'
      BY <2>6, <2>8, <2>4, <3>1
         DEF AtMain, Waiting, AskingCommand, AwaitingMode, AskingMode, AwaitingRequest,
             AskingMessage, SendingFile
    <3>3. place = "message" => mode = relayMsg'
      BY <2>2 DEF InTurn, QueueOK
    <3> QED
      BY <1>1, <2>2, <2>3, <2>6, <3>1, <3>2, <3>3, Moved
  <2>9. CASE ~(word = "send" /\ isLoginReady)
    <3>1. main' = "top" /\ (word = "send" => ~loggedIn)
      BY <2>1, <2>9, <2>4
    <3> QED
      BY <1>1, <2>2, <2>3, <2>6, <2>7, <3>1, BackToTop
  <2> QED
    BY <2>8, <2>9
<1>7. CASE AskMode
  <2>1. PICK m \in Modes : relayMsg' = m /\ Types(m, "selection")
    BY <1>7 DEF AskMode
  <2>2. main = "askMode" /\ UNCHANGED <<messageReceived, validSending, oneClientSending>>
    BY <1>7 DEF AskMode, MainAt, sending
  <2>3. /\ Idle(r, own) /\ ~messageReceived /\ toServer = <<>> /\ place = "selection"
        /\ validSending /\ ~oneClientSending
    BY <2>2 DEF InTurn, AtMain, AskingMode
  <2>4. main' = "awaitRequest"
    BY <1>7, <2>3 DEF AskMode, Goto
  <2> DEFINE t == [text |-> m, at |-> "selection"]
  <2>5. /\ t \in Text /\ t.text = m /\ t.at = "selection"
        /\ toServer' = Append(<<>>, t) /\ <<>> \in Seq(Text)
    BY <1>2, <2>1, <2>3, EmptySeq DEF Text, Types
  <2>6. Fits(t, m) /\ ~Silent(t, m)
    BY <2>1 DEF Fits, Silent, Modes
  <2>7. Chain(<<>>, "selection", m) /\ Ends(<<>>, "selection", t.at, m)
    BY <2>5, EmptyChain
  <2> HIDE DEF t
  <2>8. /\ Chain(toServer', "selection", m)
        /\ toServer' # <<>> /\ Newest(toServer') = t
    BY <2>5, <2>6, <2>7, Typed
  <2>9. /\ Chain(toServer, place, relayMsg)' /\ Owes'
        /\ Newest(toServer)'.text = relayMsg'
    BY <1>1, <2>1, <2>3, <2>5, <2>6, <2>8 DEF Owes, Owed
  <2>10. ~Waking(r)' /\ \A a \in Spoken : ~Fresh(own, a)'
    BY <1>1, <2>2, <2>3, WhenIdle
  <2>11. AtMain(r, own)'
    BY <2>2, <2>3, <2>4, <2>9, <2>10
       DEF AtMain, Waiting, AskingCommand, AwaitingMode, AskingMode, AwaitingRequest,
           AskingMessage, SendingFile
  <2> QED
    BY <1>1, <2>2, <2>3, <2>4, <2>9, <2>11, Moved
<1>8. CASE AskMode_Wrong
  <2>1. main = "askMode" /\ main' = "top" /\ UNCHANGED <<relayMsg, messageReceived>>
    BY <1>8 DEF AskMode_Wrong, MainAt, Goto
  <2>2. Idle(r, own) /\ ~messageReceived /\ toServer = <<>> /\ place = "selection"
    BY <2>1 DEF InTurn, AtMain, AskingMode
  <2>3. CASE Types("option", "selection")
    <3>1. /\ Fits([text |-> "option", at |-> "selection"], relayMsg)
          /\ At("selection")
      BY <1>4, <2>2 DEF Fits
    <3>2. Chain(toServer, place, relayMsg)' /\ Newest(toServer)'.text = "option"
      BY <1>1, <1>2, <2>1, <2>3, <3>1, TypedAt
    <3>3. "option" \notin Modes
      BY DEF Modes
    <3> QED
      BY <1>1, <2>1, <2>2, <3>2, <3>3, BackToTop
  <2>4. CASE UNCHANGED toServer
    <3>1. ~Owes' /\ Chain(toServer, place, relayMsg)'
      BY <1>3, <2>1, <2>2, <2>4
    <3> QED
      BY <1>1, <2>1, <2>2, <3>1, BackToTop
  <2> QED
    BY <1>8, <2>3, <2>4 DEF AskMode_Wrong
<1>9. CASE AskMessage
  <2>1. /\ main = "askMessage" /\ main' = "top" /\ ~messageReceived' /\ relayMsg' = relayMsg
        /\ relayMsg \in {"1", "2"}
    BY <1>9 DEF AskMessage, MainAt, Goto
  <2>2. Idle(r, own) /\ toServer = <<>> /\ place = "message"
    BY <2>1 DEF InTurn, AtMain, AskingMessage
  <2>3. ASSUME NEW t \in Lines, Types(t, "message")
        PROVE  /\ Chain(toServer, place, relayMsg)' /\ Newest(toServer)'.text = t
    <3>1. Fits([text |-> t, at |-> "message"], relayMsg) /\ At("message")
      BY <1>4, <2>1, <2>2 DEF Fits, InFileMode
    <3> QED
      BY <1>1, <1>2, <2>1, <2>3, <3>1, TypedAt
  <2>4. \A t \in Lines : t \notin Modes /\ t # "send"
    BY DEF Lines, Modes
  <2>5. CASE UNCHANGED toServer
    <3>1. ~Owes' /\ Chain(toServer, place, relayMsg)'
      BY <1>3, <2>1, <2>2, <2>5
    <3> QED
      BY <1>1, <2>1, <2>2, <3>1, BackToTop
  <2>6. CASE \E t \in Lines : Types(t, "message")
    BY <1>1, <2>1, <2>2, <2>3, <2>4, <2>6, BackToTop
  <2> QED
    BY <1>9, <2>5, <2>6 DEF AskMessage
<1>10. CASE CancelFile
  <2>1. /\ main = "askMessage" /\ main' = "top" /\ relayMsg' = relayMsg
        /\ relayMsg \in InFileMode /\ Types("cancel", "message")
    BY <1>10 DEF CancelFile, MainAt, Goto, InFileMode
  <2>2. Idle(r, own) /\ toServer = <<>> /\ place = "message"
    BY <2>1 DEF InTurn, AtMain, AskingMessage
  <2>3. /\ Fits([text |-> "cancel", at |-> "message"], relayMsg) /\ At("message")
        /\ Silent([text |-> "cancel", at |-> "message"], relayMsg)
        /\ After([text |-> "cancel", at |-> "message"]) = "command"
    BY <1>4, <2>1, <2>2 DEF Fits, Silent, After
  <2>4. Chain(toServer, place, relayMsg)' /\ ~Owes' /\ At("command")'
    BY <1>1, <1>2, <2>1, <2>3, TypedAt
  <2> QED
    BY <1>1, <2>1, <2>2, <2>4, BackToTop
<1>11. CASE AskFile
  <2>1. /\ main = "askMessage" /\ main' = "sendFile" /\ relayMsg' = relayMsg
        /\ relayMsg \in InFileMode /\ Types("send x", "message") /\ ~messageReceived'
    BY <1>11 DEF AskFile, MainAt, Goto, InFileMode
  <2>2. Idle(r, own) /\ toServer = <<>> /\ place = "message"
    BY <2>1 DEF InTurn, AtMain, AskingMessage
  <2>3. /\ Fits([text |-> "send x", at |-> "message"], relayMsg) /\ At("message")
        /\ Silent([text |-> "send x", at |-> "message"], relayMsg)
        /\ After([text |-> "send x", at |-> "message"]) = "file"
    BY <1>4, <2>1, <2>2 DEF Fits, Silent, After
  <2>4. Chain(toServer, place, relayMsg)' /\ ~Owes' /\ At("file")'
    BY <1>1, <1>2, <2>1, <2>3, TypedAt DEF Lines
  <2>5. Idle(r, own)'
    BY <1>1, <2>2, <2>4, WhenIdle
  <2>6. AtMain(r, own)'
    BY <2>1, <2>4, <2>5
       DEF AtMain, Waiting, AskingCommand, AwaitingMode, AskingMode, AwaitingRequest,
           AskingMessage, SendingFile
  <2>7. place = "message" => mode = relayMsg'
    BY <2>1 DEF InTurn, QueueOK
  <2> QED
    BY <1>1, <2>1, <2>2, <2>4, <2>6, <2>7, Moved
<1> QED
  BY <1>5, <1>6, <1>7, <1>8, <1>9, <1>10, <1>11

(* Main is woken, goes on, or sends the file.                              *)
LEMMA GoingOnStep ==
  ASSUME TypeOK, Orderly, NEW r, NEW own, InTurn(r, own), Program \/ DropMessage
  PROVE  InTurn(r, own)'
<1> USE DEF AtMain, Waiting, AskingCommand, AwaitingMode, AskingMode, AwaitingRequest,
            AskingMessage, SendingFile
<1>1. /\ UNCHANGED mainFrame
      /\ UNCHANGED <<place, mode, loggedIn, recv, message, isReceivingFileMode, isSendingFileEnd>>
  BY DEF Program, Top, Await, AwaitMode, ModeCheck, AwaitRequest, SendChunk, SendEOF,
         FileVanished, DropMessage, mainFrame, server, recvVars, incoming
<1>2. /\ \A p : MainAt(p) => main = p /\ recv # "flags"
  BY DEF MainAt, Orderly
<1>3. /\ {"chunk", "EOF"} \subseteq Texts /\ "file" \in Places
  BY DEF Texts, Places
<1>4. ASSUME UNCHANGED <<toServer, relayMsg>>
      PROVE  /\ Owes' <=> Owes
             /\ Chain(toServer, place, relayMsg)'
             /\ \A z : At(z)' <=> At(z)
             /\ place = "message" => mode = relayMsg'
  BY <1>1, <1>4 DEF InTurn, QueueOK, Owes, At
<1>5. CASE Top
  <2>1. /\ main = "top" /\ main' \in {"top", "await"}
        /\ UNCHANGED <<toServer, relayMsg, messageReceived>>
    BY <1>2, <1>5 DEF Top, Goto
  <2>2. /\ Owes' <=> Owes
        /\ Chain(toServer, place, relayMsg)' /\ \A z : At(z)' <=> At(z)
        /\ QueueOK'
    BY <1>1, <1>4, <2>1 DEF InTurn, QueueOK
  <2>3. /\ Receiving(r)' /\ UNCHANGED <<recv, message, isLoginReady>>
        /\ Applied' <=> Applied
        /\ Late(r)' <=> Late(r)
        /\ \A a : Fresh(own, a)' <=> Fresh(own, a)
    BY <1>1, MainFrame
  <2>4. Waking(r)' <=> Waking(r)
    BY <2>1, <2>3 DEF Waking
  <2>5. OneAnswer(r, own)'
    BY <2>1, <2>2, <2>3, <2>4 DEF InTurn, OneAnswer
  <2>6. LoginOK(r, own)' /\ Ended(r, own)'
    BY <1>1, <2>1, <2>2, <2>3, <2>4 DEF InTurn, LoginOK, Ended, Waits
  <2>7. Waiting(r, own)
    BY DEF InTurn
  <2>8. Waiting(r, own)'
    BY <1>1, <2>1, <2>2, <2>3, <2>4, <2>7
  <2>9. AtMain(r, own)'
    BY <2>1, <2>8
  <2> QED
    BY <2>2, <2>3, <2>5, <2>6, <2>9 DEF InTurn
<1>6. CASE Await
  <2>1. /\ main = "await" /\ main' = "askCommand" /\ messageReceived /\ ~messageReceived'
        /\ recv # "flags" /\ UNCHANGED <<toServer, relayMsg>>
    BY <1>2, <1>6 DEF Await, Goto
  <2>2. Idle(r, own) /\ ~Owes /\ Waking(r) /\ Applied
    BY <2>1, WokenUp DEF Idle
  <2>3. At("command")'
    BY <1>4, <2>1, <2>2 DEF InTurn
  <2>4. Idle(r, own)'
    BY <1>1, <1>4, <2>1, <2>2, WhenIdle
  <2>5. AtMain(r, own)'
    BY <2>1, <2>3, <2>4
  <2> QED
    BY <1>1, <1>4, <2>1, <2>2, <2>5, Moved
<1>7. CASE AwaitMode
  <2>1. /\ main = "awaitMode" /\ main' = "modeCheck" /\ messageReceived /\ ~messageReceived'
        /\ recv # "flags"
        /\ UNCHANGED <<toServer, relayMsg, isSending, validSending, oneClientSending>>
    BY <1>2, <1>7 DEF AwaitMode, Goto, sending
  <2>2. Idle(r, own) /\ ~Owes /\ Waking(r) /\ Applied
    BY <2>1, WokenUp DEF Idle
  <2>3. Idle(r, own)'
    BY <1>1, <1>4, <2>1, <2>2, WhenIdle
  <2>4. /\ place = "selection" /\ toServer = <<>> /\ isSending /\ validSending
        /\ ~oneClientSending
    BY <2>1, <2>2 DEF InTurn
  <2>5. AtMain(r, own)'
    BY <1>1, <2>1, <2>3, <2>4
  <2> QED
    BY <1>1, <1>4, <2>1, <2>2, <2>5, Moved
<1>8. CASE ModeCheck
  <2>1. /\ main = "modeCheck" /\ recv # "flags" /\ main' = IF isSending THEN "askMode" ELSE "top"
        /\ UNCHANGED <<toServer, relayMsg, messageReceived, isSending, validSending,
                       oneClientSending>>
    BY <1>2, <1>8 DEF ModeCheck, Goto, sending
  <2>2. /\ Idle(r, own) /\ ~messageReceived /\ toServer = <<>> /\ place = "selection"
        /\ isSending /\ validSending /\ ~oneClientSending
    BY <2>1 DEF InTurn
  <2>3. Idle(r, own)'
    BY <1>1, <1>4, <2>1, <2>2, WhenIdle DEF Idle, Waits
  <2>4. AtMain(r, own)'
    BY <1>1, <2>1, <2>2, <2>3
  <2> QED
    BY <1>1, <1>4, <2>1, <2>2, <2>4, Moved DEF Idle, Waits
<1>9. CASE AwaitRequest
  <2>1. /\ main = "awaitRequest" /\ messageReceived /\ recv # "flags"
        /\ main' = IF relayMsg \in {"2", "4"} /\ oneClientSending THEN "top" ELSE "askMessage"
        /\ UNCHANGED <<toServer, relayMsg, messageReceived, isSending, validSending,
                       oneClientSending>>
    BY <1>2, <1>9 DEF AwaitRequest, Goto, sending
  <2>2. Idle(r, own) /\ ~Owes /\ Waking(r) /\ Applied
    BY <2>1, WokenUp DEF Idle
  <2>3. Idle(r, own)'
    BY <1>1, <1>4, <2>1, <2>2, WhenIdle
  <2>4. /\ validSending /\ toServer = <<>>
        /\ \/ ~oneClientSending /\ place = "message"
           \/ oneClientSending /\ place = "command" /\ relayMsg \in {"2", "4"}
    BY <2>1, <2>2 DEF InTurn
  <2>5. CASE ~oneClientSending /\ place = "message"
    <3>1. AtMain(r, own)'
      BY <1>1, <2>1, <2>3, <2>4, <2>5
    <3> QED
      BY <1>1, <1>4, <2>1, <2>2, <2>5, <3>1, Moved
  <2>6. CASE oneClientSending /\ place = "command" /\ relayMsg \in {"2", "4"}
    <3>1. At("command")'
      BY <1>1, <2>1, <2>4, <2>6, EmptyChain DEF At
    <3> QED
      BY <1>1, <1>4, <2>1, <2>2, <2>6, <3>1, BackToTop
  <2> QED
    BY <2>4, <2>5, <2>6
<1>10. ~DropMessage
  BY <1>2 DEF DropMessage, InTurn
<1>11. ASSUME main = "sendFile"
       PROVE  /\ Idle(r, own) /\ ~messageReceived /\ relayMsg \in InFileMode /\ At("file")
              /\ ~Owes /\ main \notin Waits \cup {"exited"}
  BY <1>11 DEF InTurn, At, Ends, Owes, Owed, Waits
<1>12. CASE SendChunk
  <2>1. /\ main = "sendFile" /\ main' = "sendFile" /\ Types("chunk", "file") /\ recv # "flags"
        /\ UNCHANGED <<relayMsg, messageReceived>>
    BY <1>2, <1>12 DEF SendChunk
  <2>2. /\ Fits([text |-> "chunk", at |-> "file"], relayMsg)
        /\ Silent([text |-> "chunk", at |-> "file"], relayMsg)
        /\ After([text |-> "chunk", at |-> "file"]) = "file"
    BY DEF Fits, Silent, After
  <2>3. Chain(toServer, place, relayMsg)' /\ ~Owes' /\ At("file")'
    BY <1>1, <1>3, <1>11, <2>1, <2>2, TypedAt
  <2>4. Idle(r, own)'
    BY <1>1, <1>11, <2>1, <2>3, WhenIdle
  <2>5. AtMain(r, own)'
    BY <1>11, <2>1, <2>3, <2>4
  <2>6. place = "message" => mode = relayMsg'
    BY <2>1 DEF InTurn, QueueOK
  <2> QED
    BY <1>1, <1>11, <2>1, <2>3, <2>5, <2>6, Moved
<1>13. CASE SendEOF
  <2>1. /\ main = "sendFile" /\ main' = "top" /\ Types("EOF", "file") /\ recv # "flags"
        /\ UNCHANGED <<relayMsg, messageReceived>>
    BY <1>2, <1>13 DEF SendEOF, Goto
  <2>2. Fits([text |-> "EOF", at |-> "file"], relayMsg)
    BY DEF Fits
  <2>3. Chain(toServer, place, relayMsg)' /\ Newest(toServer)'.text = "EOF"
    BY <1>1, <1>3, <1>11, <2>1, <2>2, TypedAt
  <2>4. "EOF" \notin Modes
    BY DEF Modes
  <2> QED
    BY <1>1, <1>11, <2>1, <2>3, <2>4, BackToTop
<1>14. CASE FileVanished
  <2>1. /\ main = "sendFile" /\ main' = "top" /\ recv # "flags"
        /\ UNCHANGED <<toServer, relayMsg, messageReceived>>
    BY <1>2, <1>14 DEF FileVanished, Goto
  <2> QED
    BY <1>1, <1>4, <1>11, <2>1, BackToTop
<1> QED
  BY <1>5, <1>6, <1>7, <1>8, <1>9, <1>10, <1>12, <1>13, <1>14 DEF Program

-----------------------------------------------------------------------------
(* In any behaviour.                                                       *)

(* What may happen is settled at the start.                                *)
LEMMA HazardsStay == [Next]_vars => hazards' = hazards
<1>1. Worker => hazards' = hazards
  BY DEF Worker, Register, Login, Logout, Exit, Send, NoCommand, Dropped, NoSelection, Selection,
         Cancelled, NoMessage, Message, FileName, FileRefused, FilePiece, FileEnd, Reads
<1>2. Peers => hazards' = hazards
  BY DEF Peers, Chat, BeginFile, PeerFile, OtherFile, Relayed
<1>3. Receiver => hazards' = hazards
  BY DEF Receiver, ReceiveFile, ReceiveChat, ReceiveAnswer, FileEnded, Signal, SetFlags, Arrives
<1>4. User \/ Program => hazards' = hazards
  BY DEF User, Program, Top, Await, AwaitMode, ModeCheck, AwaitRequest, SendChunk, SendEOF,
         FileVanished, DropMessage, EmptyCommand, AskCommand, AskMode, AskMode_Wrong,
         AskMessage, CancelFile, AskFile, LongLine, mainFrame
<1> QED
  BY <1>1, <1>2, <1>3, <1>4 DEF Next, vars

(* Main, seen from the channel.                                            *)
LEMMA MainAside == User \/ Program => UNCHANGED mainFrame
  BY DEF User, Program, Top, Await, AwaitMode, ModeCheck, AwaitRequest, SendChunk, SendEOF,
         FileVanished, DropMessage, EmptyCommand, AskCommand, AskMode, AskMode_Wrong,
         AskMessage, CancelFile, AskFile, LongLine, mainFrame

(* The worker, seen from the channel: it says nothing, or one word - which *)
(* is so when it logs the user in or out -, or an answer too long for one. *)
Tells ==
  \/ UNCHANGED <<toClient, loggedIn>>
  \/ \E a \in Spoken :
       /\ toClient' = Append(toClient, a)
       /\ a \in LoginTexts => (loggedIn' <=> a = "loginOK")
       /\ a \notin LoginTexts => loggedIn' = loggedIn
  \/ /\ toClient' = Append(Append(toClient, "reply"), "reply")
     /\ loggedIn' = loggedIn

LEMMA WorkerTells ==
  ASSUME TypeOK, "echo" \notin hazards, Worker
  PROVE  Tells /\ UNCHANGED <<client, peerFile, hazards>>
<1>1. UNCHANGED <<client, peerFile, hazards>>
  BY DEF Worker, Register, Login, Logout, Exit, Send, NoCommand, Dropped, NoSelection, Selection,
         Cancelled, NoMessage, Message, FileName, FileRefused, FilePiece, FileEnd, Reads
<1> SUFFICES Tells
  BY <1>1
<1>2. \A answers \in SUBSET (Spoken \ LoginTexts) :
        Says(answers) /\ UNCHANGED loggedIn => Tells
  BY DEF Says, Tells
<1>3. UNCHANGED <<toClient, loggedIn>> => Tells
  BY DEF Tells
<1>4. {"reply", "invalid", "goodByeMsg", "modePrompt", "request", "onlyOne"}
        \subseteq Spoken \ LoginTexts
  BY SpokenAnswers DEF LoginTexts
<1>5. \A words : Echoes(words) = {}
  BY DEF Echoes
<1>6. \A X : X \cup {} = X
  OBVIOUS
<1>7. CASE Register
  <2>1. Says({"reply", "invalid"}) /\ UNCHANGED loggedIn
    BY <1>5, <1>6, <1>7 DEF Register, server
  <2> QED
    BY <1>2, <1>4, <2>1
<1>8. CASE Login
  <2>1. CASE Says({"reply", "invalid"}) /\ UNCHANGED loggedIn
    BY <1>2, <1>4, <2>1
  <2>2. CASE Says({"loginOK"}) /\ loggedIn' = TRUE
    <3>1. toClient' = Append(toClient, "loginOK") /\ "loginOK" \in Spoken \cap LoginTexts
      BY <2>2, SpokenAnswers DEF Says, LoginTexts
    <3> QED
      BY <2>2, <3>1 DEF Tells
  <2> QED
    BY <1>5, <1>6, <1>8, <2>1, <2>2 DEF Login
<1>9. CASE Logout
  <2>1. loggedIn \in BOOLEAN /\ loggedIn' = FALSE
        /\ Says({IF loggedIn THEN "logoutMsg" ELSE "reply"})
    BY <1>9 DEF Logout, TypeOK
  <2>2. CASE loggedIn
    <3>1. /\ toClient' = Append(toClient, "logoutMsg") /\ "logoutMsg" \in Spoken \cap LoginTexts
          /\ "logoutMsg" # "loginOK"
      BY <2>1, <2>2, SpokenAnswers DEF Says, LoginTexts
    <3> QED
      BY <2>1, <3>1 DEF Tells
  <2>3. CASE ~loggedIn
    <3>1. Says({"reply"}) /\ UNCHANGED loggedIn
      BY <2>1, <2>3
    <3> QED
      BY <1>2, <1>4, <3>1
  <2> QED
    BY <2>2, <2>3
<1>10. CASE Exit
  BY <1>2, <1>4, <1>10 DEF Exit
<1>11. CASE Send
  BY <1>2, <1>4, <1>11 DEF Send
<1>12. CASE NoCommand
  BY <1>2, <1>4, <1>12 DEF NoCommand, server
<1>13. CASE NoSelection
  BY <1>2, <1>4, <1>13 DEF NoSelection
<1>14. CASE Selection
  <2>1. (Says({"request"}) \/ Says({"onlyOne"})) /\ UNCHANGED loggedIn
    BY <1>5, <1>6, <1>14 DEF Selection
  <2> QED
    BY <1>2, <1>4, <2>1
<1>15. CASE Cancelled \/ FileName \/ Dropped
  BY <1>3, <1>15 DEF Cancelled, FileName, Dropped, server
<1>16. CASE NoMessage
  BY <1>2, <1>4, <1>16 DEF NoMessage
<1>17. CASE Message
  <2>1. UNCHANGED loggedIn /\ (Says({"reply", "invalid"}) \/ SaysInTwo({"reply"}, {"reply"}))
    BY <1>5, <1>6, <1>17 DEF Message
  <2>2. SaysInTwo({"reply"}, {"reply"}) => toClient' = Append(Append(toClient, "reply"), "reply")
    BY DEF SaysInTwo
  <2> QED
    BY <1>2, <1>4, <2>1, <2>2 DEF Tells
<1>18. CASE FileRefused
  <2>1. Says({"reply", "invalid"}) /\ UNCHANGED loggedIn
    BY <1>5, <1>6, <1>18 DEF FileRefused
  <2> QED
    BY <1>2, <1>4, <2>1
<1>19. CASE FilePiece
  BY <1>2, <1>4, <1>19, <1>3 DEF FilePiece
<1>20. CASE FileEnd
  <2>1. Says({"reply"}) /\ UNCHANGED loggedIn
    BY <1>5, <1>6, <1>20 DEF FileEnd
  <2> QED
    BY <1>2, <1>4, <2>1
<1> QED
  BY <1>7, <1>8, <1>9, <1>10, <1>11, <1>12, <1>13, <1>14, <1>15, <1>16, <1>17, <1>18, <1>19, <1>20
     DEF Worker

(* Other clients, while all answers are heard: a chat, perhaps too long    *)
(* for one record, or a notice.                                            *)
LEMMA PeersTell ==
  ASSUME TypeOK, FromOthers, Heard, Peers
  PROVE  /\ UNCHANGED <<loggedIn, client, hazards>>
         /\ peerFile' \in {<<>>, <<"reply">>}
         /\ \/ UNCHANGED toClient
            \/ \E a \in Plain \ LoginTexts : toClient' = Append(toClient, a)
            \/ \E a, b \in Plain \ LoginTexts : toClient' = Append(Append(toClient, a), b)
<1>1. UNCHANGED <<loggedIn, client, hazards>>
  BY DEF Peers, Chat, BeginFile, PeerFile, OtherFile, Relayed, server
<1>2. "reply" \in Plain \ LoginTexts /\ ("chat" \in hazards => "Client_" \in Plain \ LoginTexts)
  BY SpokenAnswers DEF Plain, LoginTexts
<1>3. /\ "words" \notin hazards /\ "file" \notin hazards /\ "files" \notin hazards
      /\ peerFile \in {<<>>, <<"reply">>}
  BY DEF Heard, FromOthers
<1>4. CASE Chat
  <2>1. /\ "chat" \in hazards /\ peerFile' = peerFile
        /\ Says({"Client_"}) \/ SaysInTwo({"Client_"}, {"reply"})
    BY <1>3, <1>4 DEF Chat, Worded
  <2> QED
    BY <1>1, <1>2, <1>3, <2>1 DEF Says, SaysInTwo
<1>5. CASE BeginFile
  BY <1>1, <1>3, <1>5, FileIsSeq DEF BeginFile
<1>6. CASE PeerFile
  <2>1. Head(<<"reply">>) = "reply" /\ Tail(<<"reply">>) = <<>>
    OBVIOUS
  <2> QED
    BY <1>1, <1>2, <1>3, <1>6, <2>1 DEF PeerFile, Says
<1>7. ~OtherFile
  BY <1>3 DEF OtherFile
<1> QED
  BY <1>4, <1>5, <1>6, <1>7 DEF Peers

LEMMA FromOthersStep ==
  ASSUME TypeOK, FromOthers, [Next]_vars
  PROVE  FromOthers'
<1> SUFFICES ASSUME Heard
             PROVE  /\ ~isReceivingFileMode' /\ ~isSendingFileEnd'
                    /\ peerFile' \in {<<>>, <<"reply">>}
                    /\ toClient' \in Seq(Plain)
                    /\ InHand' => message' \in Spoken
  BY HazardsStay DEF FromOthers, Heard, Plain
<1>1. /\ ~isReceivingFileMode /\ ~isSendingFileEnd
      /\ peerFile \in {<<>>, <<"reply">>}
      /\ toClient \in Seq(Plain)
      /\ InHand => message \in Spoken
      /\ "echo" \notin hazards
  BY DEF FromOthers, Heard
<1>2. ASSUME NEW a \in Plain, NEW b \in Plain
      PROVE  /\ Append(toClient, a) \in Seq(Plain)
             /\ Append(Append(toClient, a), b) \in Seq(Plain)
  BY <1>1, <1>2, AppendProperties
<1>3. Spoken \subseteq Plain /\ "reply" \in Plain
  BY SpokenAnswers DEF Plain
<1>4. ASSUME UNCHANGED client
      PROVE  UNCHANGED <<isReceivingFileMode, isSendingFileEnd, recv, message>> /\ InHand' = InHand
  BY <1>4 DEF client, recvVars, flags, incoming, InHand
<1>5. CASE Worker
  <2>1. UNCHANGED <<client, peerFile>> /\ Tells
    BY <1>1, <1>5, WorkerTells
  <2>2. toClient' \in Seq(Plain)
    BY <1>1, <1>2, <1>3, <2>1 DEF Tells
  <2> QED
    BY <1>1, <1>4, <2>1, <2>2
<1>6. CASE Peers
  <2>1. UNCHANGED client /\ peerFile' \in {<<>>, <<"reply">>} /\ toClient' \in Seq(Plain)
    BY <1>1, <1>2, <1>6, PeersTell
  <2> QED
    BY <1>1, <1>4, <2>1
<1>7. ASSUME NEW m, Arrives(m)
      PROVE  m \in Plain /\ toClient' \in Seq(Plain) /\ peerFile' = peerFile /\ message' = m
  BY <1>1, <1>7, HeadTailProperties DEF Arrives
<1>8. Plain \cap FileTexts = {} /\ Plain \cap ChatTexts \subseteq {"Client_"}
  BY DEF Plain, Spoken, FileTexts, ChatTexts
<1>9. ~ReceiveFile
  BY <1>1, <1>7, <1>8 DEF ReceiveFile
<1>10. CASE ReceiveChat
  <2>1. PICK m \in ChatTexts :
          /\ Arrives(m) /\ recv' = (IF m = "Client_" THEN "read" ELSE "flags")
          /\ UNCHANGED <<isReceivingFileMode, isSendingFileEnd>>
    BY <1>10 DEF ReceiveChat
  <2>2. m = "Client_" /\ ~InHand'
    BY <1>7, <1>8, <2>1 DEF InHand
  <2> QED
    BY <1>1, <1>7, <2>1, <2>2
<1>11. CASE ReceiveAnswer
  <2>1. PICK m \in Spoken : Arrives(m) /\ UNCHANGED <<isReceivingFileMode, isSendingFileEnd>>
    BY <1>11 DEF ReceiveAnswer, Spoken
  <2> QED
    BY <1>1, <1>7, <2>1
<1>13. CASE FileEnded \/ Signal \/ SetFlags
  <2>1. /\ recv \in {"fileEnd", "signal", "flags"}
        /\ UNCHANGED <<toClient, peerFile, message, isReceivingFileMode>>
    BY <1>13 DEF FileEnded, Signal, SetFlags, incoming
  <2>2. ~isSendingFileEnd'
    <3>1. FileEnded => ~isSendingFileEnd'
      BY DEF FileEnded
    <3>2. Signal \/ SetFlags => isSendingFileEnd' = isSendingFileEnd
      BY DEF Signal, SetFlags, incoming
    <3> QED
      BY <1>1, <1>13, <3>1, <3>2
  <2>3. message \in Spoken
    BY <1>1, <2>1 DEF InHand
  <2> QED
    BY <1>1, <2>1, <2>2, <2>3
<1>14. CASE User \/ Program \/ UNCHANGED vars
  <2>1. UNCHANGED mainFrame
    BY <1>14, MainAside DEF mainFrame, vars, client, flags
  <2> QED
    BY <1>1, <2>1 DEF mainFrame, recvVars, incoming, InHand
<1> QED
  BY <1>5, <1>6, <1>9, <1>10, <1>11, <1>13, <1>14 DEF Next, Receiver

(* One more word at the end, or one less at the head.                      *)
LEMMA FollowsAppend ==
  ASSUME NEW q \in Seq(Answers), NEW a \in Answers, NEW v \in BOOLEAN, NEW w \in BOOLEAN,
         Follows(q, v, w), NEW u \in BOOLEAN,
         IF a \in LoginTexts THEN u <=> a = "loginOK" ELSE u <=> v
  PROVE  Follows(Append(q, a), u, w)
<1> DEFINE n == Len(q) + 1
           b == Append(q, a)
<1>1. /\ Len(q) \in Nat /\ DOMAIN q = 1 .. Len(q) /\ DOMAIN b = 1 .. n
      /\ \A i \in 1 .. Len(q) : b[i] = q[i]
      /\ b[n] = a
  BY AppendProperties, LenProperties
<1> HIDE DEF b
<1>2. \A i \in DOMAIN b : i \in DOMAIN q \/ i = n
  BY <1>1
<1>3. n \in DOMAIN b /\ \A i \in DOMAIN q : i \in DOMAIN b /\ n > i /\ ~(i > n)
  BY <1>1
<1>4. \A i \in DOMAIN q : b[i] = q[i]
  BY <1>1
<1> HIDE DEF n
<1>5. CASE a \in LoginTexts
  BY <1>1, <1>2, <1>3, <1>4, <1>5 DEF Follows, b
<1>6. CASE a \notin LoginTexts
  <2>1. ASSUME NEW i \in DOMAIN b, b[i] \in LoginTexts,
               \A j \in DOMAIN b : j > i => b[j] \notin LoginTexts
        PROVE  u <=> b[i] = "loginOK"
    <3>1. i \in DOMAIN q /\ q[i] \in LoginTexts
      BY <1>1, <1>2, <1>4, <1>6, <2>1
    <3>2. \A j \in DOMAIN q : j > i => q[j] \notin LoginTexts
      BY <1>3, <1>4, <2>1
    <3> QED
      BY <1>4, <1>6, <3>1, <3>2 DEF Follows
  <2>2. ASSUME \A i \in DOMAIN b : b[i] \notin LoginTexts
        PROVE  u <=> w
    <3>1. \A i \in DOMAIN q : q[i] \notin LoginTexts
      BY <1>3, <1>4, <2>2
    <3> QED
      BY <1>6, <3>1 DEF Follows
  <2> QED
    BY <2>1, <2>2 DEF Follows, b
<1> QED
  BY <1>5, <1>6

LEMMA FollowsTail ==
  ASSUME NEW q \in Seq(Answers), q # <<>>, NEW v \in BOOLEAN, NEW w \in BOOLEAN,
         Follows(q, v, w), NEW u \in BOOLEAN,
         IF Head(q) \in LoginTexts THEN u <=> Head(q) = "loginOK" ELSE u <=> w
  PROVE  Follows(Tail(q), v, u)
<1> DEFINE n == Len(q)
           b == Tail(q)
<1>1. /\ n \in Nat /\ n > 0 /\ DOMAIN q = 1 .. n /\ DOMAIN b = 1 .. (n - 1)
      /\ Head(q) = q[1]
      /\ \A i \in DOMAIN b : b[i] = q[i + 1]
  BY HeadTailProperties, LenProperties
<1> HIDE DEF b, n
<1>2. /\ 1 \in DOMAIN q
      /\ \A i \in DOMAIN b : i + 1 \in DOMAIN q /\ i + 1 > 1
      /\ \A i \in DOMAIN q : i = 1 \/ i - 1 \in DOMAIN b
      /\ \A i, j \in DOMAIN b : j + 1 > i + 1 => j > i
      /\ \A j \in DOMAIN q : ~(j > 1) => j = 1
      /\ \A i \in DOMAIN q : (i - 1) + 1 = i
      /\ \A i \in DOMAIN b : ~(1 > i + 1)
  BY <1>1
<1>3. \A i \in DOMAIN q : i = 1 \/ \E j \in DOMAIN b : i = j + 1 /\ q[i] = b[j]
  BY <1>1, <1>2
<1>4. ASSUME NEW i \in DOMAIN b, b[i] \in LoginTexts,
             \A j \in DOMAIN b : j > i => b[j] \notin LoginTexts
      PROVE  v <=> b[i] = "loginOK"
  <2>1. i + 1 \in DOMAIN q /\ q[i + 1] = b[i]
    BY <1>1, <1>2
  <2>2. \A j \in DOMAIN q : j > i + 1 => q[j] \notin LoginTexts
    BY <1>2, <1>3, <1>4
  <2> QED
    BY <1>4, <2>1, <2>2 DEF Follows
<1>5. ASSUME \A i \in DOMAIN b : b[i] \notin LoginTexts
      PROVE  v <=> u
  <2>1. \A j \in DOMAIN q : j > 1 => q[j] \notin LoginTexts
    BY <1>2, <1>3, <1>5
  <2>2. CASE Head(q) \in LoginTexts
    <3>1. v <=> q[1] = "loginOK"
      BY <1>1, <1>2, <2>1, <2>2 DEF Follows
    <3> QED
      BY <1>1, <2>2, <3>1
  <2>3. CASE Head(q) \notin LoginTexts
    <3>1. \A j \in DOMAIN q : q[j] \notin LoginTexts
      BY <1>1, <1>2, <2>1, <2>3
    <3> QED
      BY <2>3, <3>1 DEF Follows
  <2> QED
    BY <2>2, <2>3
<1> QED
  BY <1>4, <1>5 DEF Follows, b

LEMMA FollowsTwo ==
  ASSUME NEW q \in Seq(Answers), NEW a \in Answers \ LoginTexts, NEW b \in Answers \ LoginTexts,
         NEW v \in BOOLEAN, NEW w \in BOOLEAN, Follows(q, v, w)
  PROVE  Follows(Append(Append(q, a), b), v, w)
<1>1. Append(q, a) \in Seq(Answers)
  BY AppendProperties
<1>2. Follows(Append(q, a), v, w)
  BY FollowsAppend
<1> QED
  BY <1>1, <1>2, FollowsAppend

LEMMA LoginFollowsStep ==
  ASSUME TypeOK, FromOthers, LoginFollows, [Next]_vars
  PROVE  LoginFollows'
<1> SUFFICES ASSUME Heard
             PROVE  Follows(toClient, loggedIn, Announced)'
  BY HazardsStay DEF LoginFollows, Heard
<1>1. /\ toClient \in Seq(Answers) /\ loggedIn \in BOOLEAN
      /\ Follows(toClient, loggedIn, Announced)
  BY DEF LoginFollows, TypeOK
<1>2. Announced \in BOOLEAN /\ isLoginReady \in BOOLEAN
  BY DEF TypeOK, Announced
<1>3. UNCHANGED client => Announced' = Announced
  BY DEF client, recvVars, flags, Announced, InHand
<1>4. CASE Worker
  <2>1. Tells /\ Announced' = Announced
    BY <1>3, <1>4, WorkerTells DEF Heard
  <2>2. CASE UNCHANGED <<toClient, loggedIn>>
    BY <1>1, <2>1, <2>2
  <2>3. ASSUME NEW a \in Spoken, toClient' = Append(toClient, a),
               a \in LoginTexts => (loggedIn' <=> a = "loginOK"),
               a \notin LoginTexts => loggedIn' = loggedIn
        PROVE  Follows(toClient, loggedIn, Announced)'
    <3>1. a \in Answers
      BY DEF Spoken
    <3>2. loggedIn' \in BOOLEAN
      BY <1>4, TypeStep DEF Next, TypeOK
    <3>3. Follows(Append(toClient, a), loggedIn', Announced)
      BY <1>1, <1>2, <2>3, <3>1, <3>2, FollowsAppend
    <3> QED
      BY <2>1, <2>3, <3>3
  <2>4. CASE toClient' = Append(Append(toClient, "reply"), "reply") /\ loggedIn' = loggedIn
    <3>1. "reply" \in Answers /\ "reply" \notin LoginTexts
      BY AnAnswer DEF LoginTexts
    <3>2. Follows(Append(Append(toClient, "reply"), "reply"), loggedIn, Announced)
      BY <1>1, <1>2, <3>1, FollowsTwo
    <3> QED
      BY <2>1, <2>4, <3>2
  <2> QED
    BY <2>1, <2>2, <2>3, <2>4 DEF Tells
<1>5. CASE Peers
  <2>1. loggedIn' = loggedIn /\ Announced' = Announced
    BY <1>3, <1>5, PeersTell
  <2>2. Plain \subseteq Answers
    BY SpokenAnswers, AnAnswer DEF Plain
  <2>3. CASE UNCHANGED toClient
    BY <1>1, <2>1, <2>3
  <2>4. ASSUME NEW a \in Plain \ LoginTexts, toClient' = Append(toClient, a)
        PROVE  Follows(toClient, loggedIn, Announced)'
    <3>1. Follows(Append(toClient, a), loggedIn, Announced)
      BY <1>1, <1>2, <2>2, FollowsAppend
    <3> QED
      BY <2>1, <2>4, <3>1
  <2>5. ASSUME NEW a \in Plain \ LoginTexts, NEW b \in Plain \ LoginTexts,
               toClient' = Append(Append(toClient, a), b)
        PROVE  Follows(toClient, loggedIn, Announced)'
    <3>1. Follows(Append(Append(toClient, a), b), loggedIn, Announced)
      BY <1>1, <1>2, <2>2, FollowsTwo
    <3> QED
      BY <2>1, <2>5, <3>1
  <2> QED
    BY <1>5, <2>3, <2>4, <2>5, PeersTell
<1>7. ASSUME NEW m, Arrives(m), Announced' \in BOOLEAN,
             IF m \in LoginTexts THEN Announced' <=> m = "loginOK" ELSE Announced' <=> Announced
      PROVE  Follows(toClient, loggedIn, Announced)'
  <2>1. /\ toClient # <<>> /\ Head(toClient) = m /\ toClient' = Tail(toClient)
        /\ loggedIn' = loggedIn
    BY <1>7 DEF Arrives, server
  <2>2. Follows(Tail(toClient), loggedIn, Announced')
    BY <1>1, <1>2, <1>7, <2>1, FollowsTail
  <2> QED
    BY <2>1, <2>2
<1>8. ASSUME NEW m, Arrives(m) PROVE m \in Plain
  BY <1>8, HeadTailProperties DEF FromOthers, Arrives
<1>9. CASE ReceiveFile \/ ReceiveChat
  <2>1. ~ReceiveFile
    BY <1>8 DEF ReceiveFile, FromOthers, Plain, Spoken, FileTexts
  <2>2. Arrives("Client_") /\ recv = "read" /\ recv' = "read" /\ isLoginReady' = isLoginReady
    BY <1>8, <1>9, <2>1 DEF ReceiveChat, Arrives, Plain, Spoken
  <2>3. Announced = isLoginReady /\ Announced' = isLoginReady
    BY <2>2 DEF Announced, InHand
  <2>4. "Client_" \notin LoginTexts
    BY DEF LoginTexts
  <2> QED
    BY <1>2, <1>7, <2>2, <2>3, <2>4
<1>10. CASE ReceiveAnswer
  <2>1. PICK m : /\ Arrives(m) /\ recv = "read" /\ recv' \in {"fileEnd", "flags", "signal"}
                 /\ message' = m /\ isLoginReady' = isLoginReady
    BY <1>10 DEF ReceiveAnswer, Arrives
  <2>2. /\ Announced = isLoginReady
        /\ Announced' = IF m \in LoginTexts THEN m = "loginOK" ELSE isLoginReady
    BY <2>1 DEF Announced, InHand
  <2> QED
    BY <1>2, <1>7, <2>1, <2>2
<1>11. CASE FileEnded \/ Signal
  <2>1. /\ InHand /\ InHand' /\ UNCHANGED <<message, isLoginReady, toClient, loggedIn>>
    BY <1>11 DEF FileEnded, Signal, InHand, server
  <2>2. Announced' = Announced
    BY <2>1 DEF Announced
  <2> QED
    BY <1>1, <2>1, <2>2
<1>12. CASE SetFlags
  <2>1. /\ InHand /\ ~InHand' /\ UNCHANGED <<toClient, loggedIn>>
        /\ isLoginReady' = IF message = "logoutMsg" THEN FALSE
                           ELSE isLoginReady \/ message = "loginOK"
    <3>1. recv = "flags" /\ message # "Client_login"
      BY <1>12, SpokenAnswers DEF SetFlags, InHand, FromOthers
    <3> QED
      BY <1>12, <3>1 DEF SetFlags, InHand, server
  <2>2. Announced' = isLoginReady'
    BY <2>1 DEF Announced
  <2>3. isLoginReady' \in BOOLEAN /\ (isLoginReady' <=> Announced)
    BY <1>2, <2>1 DEF Announced, LoginTexts
  <2>4. Announced' = Announced
    BY <1>2, <2>2, <2>3
  <2> QED
    BY <1>1, <2>1, <2>4
<1>13. CASE User \/ Program \/ UNCHANGED vars
  <2>1. UNCHANGED mainFrame
    BY <1>13, MainAside DEF mainFrame, vars, client, flags
  <2>2. UNCHANGED <<toClient, loggedIn, recv, message, isLoginReady>>
    BY <2>1 DEF mainFrame, server, recvVars
  <2>3. Announced' = Announced
    BY <2>2 DEF Announced, InHand
  <2> QED
    BY <1>1, <2>2, <2>3
<1> QED
  BY <1>4, <1>5, <1>9, <1>10, <1>11, <1>12, <1>13 DEF Next, Receiver

-----------------------------------------------------------------------------
(* The theorems.                                                           *)

LEMMA StepTurn ==
  ASSUME TypeOK, Orderly, Turn, [Next]_vars
  PROVE  Turn' \/ Lost'
<1>1. PICK r \in Phases, own \in Spoken \cup {None} : Channel(r, own) /\ InTurn(r, own)
  BY DEF Turn
<1>2. Left /\ Phases' = Phases /\ hazards' = hazards
  BY HazardsStay DEF Turn, Phases
<1>3. CASE UNCHANGED <<toClient, peerFile>> /\ InTurn(r, own)'
  <2>1. Channel(r, own)' /\ Left'
    BY <1>1, <1>2, <1>3 DEF Channel, Left
  <2> QED
    BY <1>1, <1>2, <1>3, <2>1 DEF Turn
<1>4. CASE UNCHANGED vars
  <2>1. UNCHANGED <<toServer, server, client, hazards, toClient, peerFile>>
    BY <1>4 DEF vars
  <2> QED
    BY <1>1, <1>3, <2>1, Aside
<1>5. CASE Worker
  <2>1. peerFile' = peerFile
    BY <1>5
       DEF Worker, Register, Login, Logout, Exit, Send, NoCommand, Dropped, NoSelection, Selection,
           Cancelled, NoMessage, Message, FileName, FileRefused, FilePiece, FileEnd, Reads
  <2>2. Left'
    BY <1>2, <2>1 DEF Left
  <2>3. (\E x \in Spoken \cup {None} : Channel(r, x)' /\ InTurn(r, x)') \/ Lost'
    BY <1>1, <1>2, <1>5, WorkerStep
  <2> QED
    BY <1>2, <2>2, <2>3 DEF Turn
<1>6. CASE Peers
  <2>1. /\ UNCHANGED <<toServer, server, client, hazards>>
        /\ Phases' = Phases /\ Left' /\ Channel(r, own)'
    BY <1>1, <1>2, <1>6, PeerWrites
  <2>2. InTurn(r, own)'
    BY <1>1, <2>1, Aside
  <2> QED
    BY <1>1, <2>1, <2>2 DEF Turn
<1>7. CASE User \/ Program
  <2>1. \/ EmptyCommand \/ AskCommand \/ AskMode \/ AskMode_Wrong \/ AskMessage
        \/ CancelFile \/ AskFile
        \/ Program \/ DropMessage
    BY <1>7 DEF User, LongLine, Orderly
  <2>2. InTurn(r, own)'
    BY <1>1, <2>1, AskingStep, GoingOnStep
  <2> QED
    BY <1>3, <1>7, <2>2, MainAside DEF mainFrame
<1> QED
  BY <1>4, <1>5, <1>6, <1>7, ReceiverStep DEF Next

LEMMA Inductive == Spec => []IInv
<1>1. Init => IInv
  <2> SUFFICES ASSUME Init PROVE IInv
    OBVIOUS
  <2>1. /\ toClient = <<"welcome">> /\ DOMAIN toClient = {1} /\ toClient[1] = "welcome"
        /\ peerFile = <<>> /\ ~isReceivingFileMode /\ ~isSendingFileEnd
        /\ loggedIn = FALSE /\ isLoginReady = FALSE /\ recv = "read"
    BY DEF Init
  <2>2. FromOthers
    <3>1. "welcome" \in Plain
      BY SpokenAnswers DEF Plain
    <3>2. <<"welcome">> \in Seq(Plain)
      BY <3>1
    <3> QED
      BY <2>1, <3>2 DEF FromOthers, InHand
  <2>3. LoginFollows
    BY <2>1 DEF LoginFollows, Follows, Announced, InHand, LoginTexts
  <2> QED
    BY <2>2, <2>3, TypeInit, TurnInit DEF IInv
<1>2. IInv /\ [Next]_vars => IInv'
  <2>1. [Next]_vars => (Orderly' <=> Orderly)
    BY HazardsStay DEF Orderly
  <2> QED
    BY <2>1, TypeStep, FromOthersStep, LoginFollowsStep, StepTurn, LostStep DEF IInv
<1> QED
  BY <1>1, <1>2, PTL DEF Spec

(* Each text a client types is read by the worker at the question it was   *)
(* typed for (handleClient's order of SSL_reads and client.cpp's of sends) *)
(* - in orderly behaviours, though chats and whole files of others come    *)
(* over the same connection and swallow answers, and the receiver takes    *)
(* answers that repeat what was typed for files and chats.                 *)
THEOREM DialogueInStep == Spec => []InStep
<1>1. IInv => InStep
  <2> SUFFICES ASSUME TypeOK, Turn, toServer # <<>> PROVE Head(toServer).at = place
    BY DEF IInv, InStep, Lost, Quiet
  <2>1. toServer \in Seq(Text) /\ Chain(toServer, place, relayMsg)
    BY DEF TypeOK, Text, Turn, InTurn, QueueOK
  <2> QED
    BY <2>1, TextTaken
<1> QED
  BY <1>1, Inductive, PTL

(* When the user is asked for a command and all answers are in,            *)
(* isLoginReady is what the server says of the connection: because no      *)
(* answer is lost and nothing else says the same, or, in orderly           *)
(* behaviours, because main is not asked before the answer has come.       *)
THEOREM DialogueLoginAgrees == Spec => []LoginAgrees
<1>1. IInv => LoginAgrees
  <2> SUFFICES ASSUME IInv, Orderly \/ Heard,
                      main = "askCommand", recv = "read", toClient = <<>>
               PROVE  isLoginReady = loggedIn
    BY DEF LoginAgrees
  <2>1. CASE Heard
    <3>1. Follows(toClient, loggedIn, isLoginReady)
      BY <2>1 DEF IInv, LoginFollows, Announced, InHand
    <3>2. loggedIn \in BOOLEAN /\ isLoginReady \in BOOLEAN /\ DOMAIN toClient = {}
      BY DEF IInv, TypeOK
    <3> QED
      BY <3>1, <3>2 DEF Follows
  <2>2. CASE Orderly
    <3>1. PICK r \in Phases, own \in Spoken \cup {None} : InTurn(r, own)
      BY <2>2 DEF IInv, Turn, Lost, Quiet, Waits
    <3>2. Idle(r, own)
      BY <3>1 DEF InTurn, AtMain, AskingCommand
    <3>3. ~Fresh(own, "loginOK") /\ ~Fresh(own, "logoutMsg")
      BY <3>2, SpokenAnswers DEF Idle, Applied, Fresh
    <3> QED
      BY <3>1, <3>3 DEF InTurn, LoginOK, Waits
  <2> QED
    BY <2>1, <2>2
<1> QED
  BY <1>1, Inductive, PTL

(* With no hazard at all there is never a second answer on its way that    *)
(* messageReceived, one bit, would merge with the first.                   *)
THEOREM DialogueAnswersNotMerged == Spec => []AnswersNotMerged
<1>1. IInv => AnswersNotMerged
  <2> SUFFICES ASSUME TypeOK, FromOthers, Turn, hazards = {} PROVE Outstanding <= 1
    BY DEF IInv, AnswersNotMerged, Orderly, Lost, Quiet
  <2>1. /\ Len(toClient) \in Nat /\ DOMAIN toClient = 1 .. Len(toClient)
        /\ toClient \in Seq(Answers)
    BY LenProperties DEF TypeOK
  <2>2. \A i \in 1 .. Len(toClient) : toClient[i] # "Client_"
    <3>1. toClient \in Seq(Spoken)
      BY DEF FromOthers, Heard, Plain
    <3>2. \A i \in 1 .. Len(toClient) : toClient[i] \in Spoken
      BY <3>1, ElementOfSeq
    <3> QED
      BY <3>2, SpokenAnswers
  <2>3. Phases = {0}
    BY DEF Phases
  <2>4. PICK own \in Spoken \cup {None} : Channel(0, own) /\ InTurn(0, own)
    BY <2>3 DEF Turn
  <2>5. PICK ph \in [0 .. Len(toClient) -> {0}], k \in 0 .. Len(toClient) :
          /\ IF k = 0 THEN own = None ELSE own = toClient[k] /\ own \in Own
          /\ \A i \in 1 .. Len(toClient) :
               IF i = k THEN ph[i] = ph[i - 1] ELSE Passes(toClient[i], ph[i - 1], ph[i])
    BY <2>3, <2>4 DEF Channel, Way
  <2>6. \A i \in 1 .. Len(toClient) : i = k
    <3>1. SUFFICES ASSUME NEW i \in 1 .. Len(toClient), i # k PROVE FALSE
      OBVIOUS
    <3>2. i \in 0 .. Len(toClient) /\ i - 1 \in 0 .. Len(toClient)
      BY <2>1
    <3>3. ph[i] = 0 /\ ph[i - 1] = 0
      BY <3>2
    <3>4. Passes(toClient[i], 0, 0)
      BY <2>5, <3>1, <3>3
    <3> QED
      BY <2>2, <3>4 DEF Passes, NextPhase
  <2>7. \/ Len(toClient) = 0
        \/ Len(toClient) = 1 /\ k = 1
    <3>1. Len(toClient) >= 2 => 1 \in 1 .. Len(toClient) /\ 2 \in 1 .. Len(toClient)
      BY <2>1
    <3>2. Len(toClient) = 1 => 1 \in 1 .. Len(toClient)
      BY <2>1
    <3> QED
      BY <2>1, <2>6, <3>1, <3>2
  <2>8. recv # "fileEnd"
    BY <2>4 DEF InTurn, Receiving
  <2>9. CASE Len(toClient) = 0
    <3>1. recv = "signal" => ~messageReceived
      BY <2>4 DEF InTurn, OneAnswer
    <3> QED
      BY <2>8, <2>9, <3>1 DEF Outstanding
  <2>10. CASE Len(toClient) = 1 /\ k = 1
    <3>1. own # None
      BY <2>5, <2>10, SpokenAnswers
    <3>2. recv # "signal" /\ ~messageReceived
      BY <2>4, <3>1 DEF InTurn, OneAnswer, Waking
    <3> QED
      BY <2>8, <2>10, <3>2 DEF Outstanding
  <2> QED
    BY <2>7, <2>9, <2>10
<1> QED
  BY <1>1, Inductive, PTL
=============================================================================
