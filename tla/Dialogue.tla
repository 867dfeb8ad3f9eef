------------------------------ MODULE Dialogue ------------------------------
(***************************************************************************)
(* One client program and the worker that serves it: the main thread and   *)
(* the receiving thread of client.cpp, the command loop and the "send"     *)
(* conversation of ThreadPool::handleClient, and two ordered channels of   *)
(* TLS records between them.  A line the user types carries no mark of     *)
(* the question it answers: the worker interprets it by the place it is    *)
(* at, the client the responses by flags its two threads share.            *)
(*                                                                         *)
(* A text is reduced to what either end tells apart.  Mode "3" stands for  *)
(* 3 and 5, which differ in how the server plays what it has received.     *)
(***************************************************************************)
EXTENDS Naturals, Sequences

CONSTANTS
  Scenarios,    \* sets of what may happen beside the ordinary, see AllHazards
  MaxChunks,    \* bound, for each scenario: pieces of a file the user sends
  MaxInFlight   \* bound, for each: records in a channel; a write waits for room

(*   "race"   main runs on between cond_signal and the flags set after it  *)
(*   "chat"   a client sends this one a message                            *)
(*   "file"   a client sends this one a file                               *)
(*   "files"  a second client does so before the first is through          *)
(*   "bare"   a file for this one fails: of it only the notice comes       *)
(*   "words"  messages and notices hold words that the receiver looks for  *)
(*   "echo"   so do the names and texts that the worker's answers repeat   *)
(*   "long"   lines, answers and messages may be longer than a buffer      *)
(*   "refuse" the server refuses, or gives up, a file the client sends     *)
(*   "empty"  the user enters an empty line                                *)
(*   "SEND"   the user types a command in capitals                         *)
(*   "vanish" a file is gone when the client opens it to send it           *)
AllHazards == {"race", "chat", "file", "files", "bare", "words", "echo", "long",
               "refuse", "empty", "SEND", "vanish"}

ASSUME DialogueAssumption ==
  /\ Scenarios \subseteq SUBSET AllHazards
  /\ MaxChunks \in [Scenarios -> Nat]
  /\ MaxInFlight \in [Scenarios -> Nat \ {0}]

VARIABLES
  toServer,  \* what the client wrote: the text, and where it was asked for
  toClient,  \* what the worker and other workers wrote
  place,     \* the worker: what it takes the next text for
  mode,      \* the worker's relayMsg
  loggedIn,  \* userManager.isLoggedIn(clientSocket)
  main,      \* the client's main thread
  relayMsg,  \* the main thread's mode
  chunks,    \* pieces of the file not sent yet
  recv,      \* the client's receiving thread
  message,   \* the text it is at
  messageReceived, isSending, validSending, oneClientSending,
  isLoginReady, isReceivedMsg, isReceivingFileMode, isSendingFileEnd,
  peerFile,  \* what is left of a file another worker is passing on
  otherFile, \* and of a second one, see "files"
  hazards    \* what may happen in this behaviour; never changes

server   == <<place, mode, loggedIn>>
mainVars == <<main, relayMsg, chunks>>
recvVars == <<recv, message>>
sending  == <<isSending, validSending, oneClientSending>>
incoming == <<isReceivedMsg, isReceivingFileMode, isSendingFileEnd>>
flags    == <<messageReceived, sending, isLoginReady, incoming>>
client   == <<mainVars, recvVars, flags>>
vars     == <<toServer, toClient, server, client, peerFile, otherFile, hazards>>

Modes   == {"1", "2", "3", "4"}
Places  == {"command", "selection", "message", "file", "closed"}
Words   == {"send", "SEND", "login", "logout", "exit", "register"}
Lines   == {"send x", "text"}
Texts   == Words \cup Lines \cup Modes \cup {"option", "cancel", "chunk", "EOF", "long"}

(* What the receiver tells apart.  A text with the letters FILE:, INFO: or *)
(* EOF somewhere in it stands as "FILE:", what is exactly EOF as "EOF"; a  *)
(* "Client_" that also says Login successful!, or Receive failed., has a   *)
(* member of its own, and an answer that does is a "loginOK", or "invalid". *)
FileTexts == {"INFO:", "FILE:", "EOF"}
ChatTexts == {"Client_", "Client_login", "Client_failed"}
Answers   == {"welcome", "reply", "invalid", "loginOK", "logoutMsg", "goodByeMsg",
              "modePrompt", "request", "onlyOne"} \cup ChatTexts \cup FileTexts

(* A name may hold letters, and a message any of the words.                *)
NameWords == {"FILE:", "Client_"}
TextWords == {"FILE:", "invalid", "loginOK"} \cup ChatTexts

Init ==
  /\ hazards \in Scenarios
  /\ toServer = <<>> /\ toClient = <<"welcome">>
  /\ place = "command" /\ mode = "1" /\ loggedIn = FALSE
  /\ main = "top" /\ relayMsg = "1" /\ chunks = 0
  /\ recv = "read" /\ message = "welcome"
  /\ messageReceived = FALSE /\ isLoginReady = FALSE
  /\ isSending = FALSE /\ validSending = TRUE /\ oneClientSending = FALSE
  /\ isReceivedMsg = FALSE /\ isReceivingFileMode = FALSE /\ isSendingFileEnd = FALSE
  /\ peerFile = <<>> /\ otherFile = <<>>

-----------------------------------------------------------------------------
(* The worker.  It reads one text and, but for two exceptions, answers it. *)

Reads(p, texts) ==
  /\ place = p
  /\ toServer # <<>> /\ Head(toServer).text \in texts
  /\ toServer' = Tail(toServer)
  /\ UNCHANGED <<client, peerFile, otherFile, hazards>>

Says(answers) ==
  /\ Len(toClient) < MaxInFlight[hazards]
  /\ \E a \in answers : toClient' = Append(toClient, a)

(* One record, but more than the client's buffer holds: the rest is read   *)
(* as the next message.                                                    *)
SaysInTwo(first, second) ==
  /\ Len(toClient) < MaxInFlight[hazards]
  /\ \E a \in first, b \in second : toClient' = Append(Append(toClient, a), b)

(* An answer that repeats what the user has typed, or names of others.     *)
Echoes(words) == IF "echo" \in hazards THEN words ELSE {}

(* register, and every malformed command that is answered with its usage.  *)
Register ==
  /\ Reads("command", {"register"})
  /\ Says({"reply", "invalid"} \cup Echoes(NameWords))
  /\ UNCHANGED server

Login ==
  /\ Reads("command", {"login"})
  /\ \/ Says({"reply", "invalid"}) /\ UNCHANGED loggedIn
     \/ /\ ~loggedIn
        /\ Says({"loginOK"} \cup Echoes({"FILE:", "Client_login"}))
        /\ loggedIn' = TRUE
  /\ UNCHANGED <<place, mode>>

Logout ==
  /\ Reads("command", {"logout"})
  /\ Says({IF loggedIn THEN "logoutMsg" ELSE "reply"})
  /\ loggedIn' = FALSE
  /\ UNCHANGED <<place, mode>>

(* After goodByeMsg the loop is left and the connection closed.            *)
Exit ==
  /\ Reads("command", {"exit"})
  /\ Says({IF loggedIn THEN "reply" ELSE "goodByeMsg"})
  /\ place' = IF loggedIn THEN "command" ELSE "closed"
  /\ UNCHANGED <<mode, loggedIn>>

(* The first word is put in lower case, by the server only.                *)
Send ==
  /\ Reads("command", {"send", "SEND"})
  /\ Says({IF loggedIn THEN "modePrompt" ELSE "reply"})
  /\ place' = IF loggedIn THEN "selection" ELSE "command"
  /\ UNCHANGED <<mode, loggedIn>>

(* Whatever is no command: sendCommandInvalid or invalidCommand.           *)
NoCommand ==
  /\ Reads("command", Texts \ (Words \cup {"long"}))
  /\ Says({"invalid"})
  /\ UNCHANGED server

(* A text that fills the array is dropped without an answer.               *)
Dropped ==
  /\ Reads("command", {"long"})
  /\ UNCHANGED <<toClient, server>>

(* A selection that goes back to the commands without a word.              *)
NoSelection_Silent ==
  /\ Reads("selection", Texts \ Modes)
  /\ place' = "command"
  /\ UNCHANGED <<toClient, mode, loggedIn>>

NoSelection ==
  /\ Reads("selection", Texts \ Modes)
  /\ Says({"reply"})
  /\ place' = "command"
  /\ UNCHANGED <<mode, loggedIn>>

(* A selection that goes on although nobody else is on line.               *)
Selection_StaysForOne ==
  /\ Reads("selection", Modes)
  /\ mode' = Head(toServer).text
  /\ \/ Says({"request"})
     \/ mode' \in {"2", "4"} /\ Says({"onlyOne"})
  /\ place' = "message"
  /\ UNCHANGED loggedIn

(* Modes 2 and 4 need somebody else on line, and list who is.              *)
Selection ==
  /\ Reads("selection", Modes)
  /\ mode' = Head(toServer).text
  /\ \/ /\ Says({"request"} \cup (IF mode' \in {"2", "4"} THEN Echoes(NameWords) ELSE {}))
        /\ place' = "message"
     \/ mode' \in {"2", "4"} /\ Says({"onlyOne"}) /\ place' = "command"
  /\ UNCHANGED loggedIn

(* The client has cancelled a file: nothing is sent back.                  *)
Cancelled ==
  /\ Reads("message", {"cancel"})
  /\ mode \in {"3", "4"}
  /\ place' = "command"
  /\ UNCHANGED <<toClient, mode, loggedIn>>

(* The text does not begin with the word send.                             *)
NoMessage ==
  /\ Reads("message", Texts \ {"send", "SEND", "send x"})
  /\ ~(mode \in {"3", "4"} /\ Head(toServer).text = "cancel")
  /\ Says({"invalid"})
  /\ place' = "command"
  /\ UNCHANGED <<mode, loggedIn>>

(* Modes 1 and 2: an empty, too long or undeliverable message, or done;    *)
(* then the message is repeated.                                           *)
Message ==
  /\ Reads("message", {"send", "SEND", "send x", "long"})
  /\ mode \in {"1", "2"}
  /\ \/ Says({"reply", "invalid"} \cup Echoes(TextWords))
     \/ /\ "long" \in hazards
        /\ SaysInTwo({"reply"} \cup Echoes(TextWords), {"reply"} \cup Echoes(Answers))
  /\ place' = "command"
  /\ UNCHANGED <<mode, loggedIn>>

(* Modes 3 and 4 with a path: the file is awaited, without an answer ...   *)
FileName ==
  /\ Reads("message", {"send x", "long"})
  /\ mode \in {"3", "4"}
  /\ place' = "file"
  /\ UNCHANGED <<toClient, mode, loggedIn>>

(* ... or refused: no path, no directory, no such client, no such file; or *)
(* the path, which the answer repeats, cannot be opened.                   *)
FileRefused ==
  /\ Reads("message", {"send", "SEND", "send x", "long"})
  /\ "refuse" \in hazards \/ Head(toServer).text # "send x"
  /\ mode \in {"3", "4"}
  /\ Says({"reply", "invalid"} \cup (IF mode = "3" THEN Echoes(TextWords) ELSE {}))
  /\ place' = "command"
  /\ UNCHANGED <<mode, loggedIn>>

(* process_receive_server, receiveAndSendFile: pieces until EOF.           *)
FilePiece ==
  /\ Reads("file", Texts \ {"EOF"})
  /\ \/ UNCHANGED <<toClient, place>>
     \/ "refuse" \in hazards /\ Says({"reply"}) /\ place' = "command"
  /\ UNCHANGED <<mode, loggedIn>>

FileEnd ==
  /\ Reads("file", {"EOF"})
  /\ Says({"reply"} \cup (IF mode = "3" THEN Echoes(TextWords) ELSE {}))
  /\ place' = "command"
  /\ UNCHANGED <<mode, loggedIn>>

Worker ==
  \/ Register \/ Login \/ Logout \/ Exit \/ Send \/ NoCommand \/ Dropped
  \/ NoSelection \/ Selection
  \/ Cancelled \/ NoMessage \/ Message \/ FileName \/ FileRefused
  \/ FilePiece \/ FileEnd

-----------------------------------------------------------------------------
(* Other workers - or this one, for a client that writes to itself: what   *)
(* is relayed with mode 2 or mode 4 is written between the worker's        *)
(* answers.  Who it is for has been looked up before: it may have logged   *)
(* out since, or be the next client on the same descriptor.                *)

Relayed == UNCHANGED <<toServer, server, client, hazards>>

Worded(plain, words) == IF "words" \in hazards THEN plain \cup words ELSE plain

Chat ==
  /\ "chat" \in hazards /\ place # "closed"
  /\ LET texts == Worded({"Client_"}, {"FILE:"} \cup ChatTexts)
     IN  \/ Says(texts)
         \/ "long" \in hazards /\ SaysInTwo(texts, Worded({"reply"}, Answers))
  /\ UNCHANGED <<peerFile, otherFile>> /\ Relayed

(* A file that has come in whole, and the notice; or the notice alone.     *)
InFile  == <<"INFO:", "FILE:", "EOF", "reply">>
Notices == Worded({"reply"}, NameWords)

Passing == {<<"INFO:", "FILE:", "EOF", a>> : a \in Notices}
Failed  == {<<a>> : a \in Notices}

BeginFile ==
  /\ peerFile = <<>> /\ place # "closed"
  /\ \/ "file" \in hazards /\ peerFile' \in Passing
     \/ "bare" \in hazards /\ peerFile' \in Failed
  /\ UNCHANGED <<toClient, otherFile>> /\ Relayed

PeerFile ==
  /\ peerFile # <<>> /\ place # "closed"
  /\ Says({Head(peerFile)})
  /\ peerFile' = Tail(peerFile)
  /\ UNCHANGED otherFile /\ Relayed

OtherFile ==
  /\ "files" \in hazards /\ place # "closed"
  /\ \/ otherFile = <<>> /\ otherFile' \in Passing /\ UNCHANGED toClient
     \/ otherFile # <<>> /\ Says({Head(otherFile)}) /\ otherFile' = Tail(otherFile)
  /\ UNCHANGED peerFile /\ Relayed

Peers == Chat \/ BeginFile \/ PeerFile \/ OtherFile

-----------------------------------------------------------------------------
(* The receiving thread: receiveMessages.                                  *)

Arrives(m) ==
  /\ recv = "read"
  /\ toClient # <<>> /\ Head(toClient) = m
  /\ toClient' = Tail(toClient)
  /\ message' = m
  /\ UNCHANGED <<toServer, server, mainVars, messageReceived, sending, isLoginReady,
                   peerFile, otherFile, hazards>>

(* Anything at all is swallowed from the first piece of a file to its EOF. *)
ReceiveFile ==
  \E m \in Answers :
    /\ Arrives(m)
    /\ isReceivingFileMode \/ m \in FileTexts
    /\ isReceivingFileMode' = (m # "EOF")
    /\ isSendingFileEnd' = (m = "EOF" \/ (m \notin FileTexts /\ isSendingFileEnd))
    /\ UNCHANGED <<recv, isReceivedMsg>>

(* A message of another client, or what looks like one: main is not woken, *)
(* but the words that set flags are looked for.                            *)
ReceiveChat ==
  \E m \in ChatTexts :
    /\ Arrives(m)
    /\ ~isReceivingFileMode
    /\ isReceivedMsg' = TRUE
    /\ recv' = IF m = "Client_" THEN "read" ELSE "flags"
    /\ UNCHANGED <<isReceivingFileMode, isSendingFileEnd>>

(* An answer: isReceivedMsg is cleared first, ...                          *)
ReceiveAnswer ==
  \E m \in Answers \ (FileTexts \cup ChatTexts) :
    /\ Arrives(m)
    /\ ~isReceivingFileMode
    /\ isReceivedMsg' = FALSE
    /\ recv' = IF isSendingFileEnd THEN "fileEnd"
               ELSE IF m = "goodByeMsg" THEN "flags" ELSE "signal"
    /\ UNCHANGED <<isReceivingFileMode, isSendingFileEnd>>

(* ... and set again if a file has just ended: main is not woken either.   *)
FileEnded ==
  /\ recv = "fileEnd"
  /\ recv' = "flags"
  /\ isReceivedMsg' = TRUE /\ isSendingFileEnd' = FALSE
  /\ UNCHANGED <<toServer, toClient, server, mainVars, message, messageReceived,
                   sending, isLoginReady, isReceivingFileMode, peerFile, otherFile, hazards>>

(* mutexReceive is held by main while it asks for a message.               *)
Lock == main # "askMessage"

Signal ==
  /\ recv = "signal" /\ Lock
  /\ recv' = "flags"
  /\ messageReceived' = TRUE
  /\ UNCHANGED <<toServer, toClient, server, mainVars, message, sending, isLoginReady,
                   incoming, peerFile, otherFile, hazards>>

(* A receiver that forgets what logoutMsg means.                           *)
SetFlags_NoLogout ==
  /\ recv = "flags"
  /\ recv' = IF message = "goodByeMsg" THEN "exited" ELSE "read"
  /\ main' = IF message = "goodByeMsg" THEN "exited" ELSE main
  /\ isLoginReady' = (isLoginReady \/ message \in {"loginOK", "Client_login"})
  /\ validSending' = IF message \in {"invalid", "Client_failed"} THEN FALSE
                     ELSE validSending \/ message = "modePrompt"
  /\ isSending' = (isSending \/ message = "modePrompt")
  /\ oneClientSending' = (oneClientSending \/ message = "onlyOne")
  /\ UNCHANGED <<toServer, toClient, server, relayMsg, chunks, message, messageReceived,
                   incoming, peerFile, otherFile, hazards>>

(* The flags an answer sets, after main has been woken; goodByeMsg ends    *)
(* the program.                                                            *)
SetFlags ==
  /\ recv = "flags"
  /\ recv' = IF message = "goodByeMsg" THEN "exited" ELSE "read"
  /\ main' = IF message = "goodByeMsg" THEN "exited" ELSE main
  /\ isLoginReady' = IF message = "logoutMsg" THEN FALSE
                     ELSE isLoginReady \/ message \in {"loginOK", "Client_login"}
  /\ validSending' = IF message \in {"invalid", "Client_failed"} THEN FALSE
                     ELSE validSending \/ message = "modePrompt"
  /\ isSending' = (isSending \/ message = "modePrompt")
  /\ oneClientSending' = (oneClientSending \/ message = "onlyOne")
  /\ UNCHANGED <<toServer, toClient, server, relayMsg, chunks, message, messageReceived,
                   incoming, peerFile, otherFile, hazards>>

Receiver ==
  ReceiveFile \/ ReceiveChat \/ ReceiveAnswer \/ FileEnded \/ Signal \/ SetFlags

-----------------------------------------------------------------------------
(* The main thread.  Without "race" it runs on only when the receiver is   *)
(* through with the answer it has woken it for.                            *)

MainAt(p) ==
  /\ main = p
  /\ "race" \in hazards \/ recv # "flags"

Goto(p) == main' = p

Types(text, question) ==
  /\ Len(toServer) < MaxInFlight[hazards]
  /\ toServer' = Append(toServer, [text |-> text, at |-> question])

(* What a step of main never changes.                                      *)
mainFrame == <<toClient, server, recvVars, isLoginReady, incoming, peerFile, otherFile, hazards>>

(* The head of the loop: it spins as long as isReceivedMsg is set.         *)
Top ==
  /\ MainAt("top")
  /\ Goto(IF isReceivedMsg THEN "top" ELSE "await")
  /\ validSending' = TRUE /\ isSending' = FALSE /\ oneClientSending' = FALSE
  /\ UNCHANGED <<mainFrame, toServer, relayMsg, chunks, messageReceived>>

(* A wait that leaves messageReceived set for the next one.                *)
Await_KeepsFlag ==
  /\ MainAt("await") /\ messageReceived
  /\ Goto("askCommand")
  /\ UNCHANGED <<mainFrame, toServer, relayMsg, chunks, messageReceived, sending>>

Await ==
  /\ MainAt("await") /\ messageReceived
  /\ Goto("askCommand")
  /\ messageReceived' = FALSE
  /\ UNCHANGED <<mainFrame, toServer, relayMsg, chunks, sending>>

(* An empty line is not sent, and waited for an answer to.                 *)
EmptyCommand ==
  /\ "empty" \in hazards
  /\ MainAt("askCommand")
  /\ Goto("top")
  /\ UNCHANGED <<mainFrame, toServer, relayMsg, chunks, messageReceived, sending>>

(* A command; the mode dialogue follows "send", so spelled, after a login. *)
AskCommand ==
  /\ MainAt("askCommand")
  /\ \E word \in Words :
       /\ word = "SEND" => "SEND" \in hazards
       /\ Types(word, "command")
       /\ Goto(IF word = "send" /\ isLoginReady THEN "awaitMode" ELSE "top")
       /\ oneClientSending' = (oneClientSending /\ word # "send")
  /\ UNCHANGED <<mainFrame, relayMsg, chunks, messageReceived, isSending, validSending>>

AwaitMode ==
  /\ MainAt("awaitMode") /\ messageReceived
  /\ Goto("modeCheck")
  /\ messageReceived' = FALSE
  /\ UNCHANGED <<mainFrame, toServer, relayMsg, chunks, sending>>

ModeCheck ==
  /\ MainAt("modeCheck")
  /\ Goto(IF isSending THEN "askMode" ELSE "top")
  /\ UNCHANGED <<mainFrame, toServer, relayMsg, chunks, messageReceived, sending>>

(* A line that is none of the modes, sent all the same unless it is empty. *)
AskMode_Wrong ==
  /\ MainAt("askMode")
  /\ \/ Types("option", "selection")
     \/ "empty" \in hazards /\ UNCHANGED toServer
  /\ Goto("top")
  /\ UNCHANGED <<mainFrame, relayMsg, chunks, messageReceived, sending>>

AskMode ==
  /\ MainAt("askMode")
  /\ \E m \in Modes : relayMsg' = m /\ Types(m, "selection")
  /\ Goto(IF validSending THEN "awaitRequest" ELSE "top")
  /\ UNCHANGED <<mainFrame, chunks, messageReceived, sending>>

(* onlyOneClientOnline: break with messageReceived still set, and back.    *)
AwaitRequest ==
  /\ MainAt("awaitRequest") /\ messageReceived
  /\ Goto(IF relayMsg \in {"2", "4"} /\ oneClientSending THEN "top" ELSE "askMessage")
  /\ UNCHANGED <<mainFrame, toServer, relayMsg, chunks, messageReceived, sending>>

(* The flags are looked at again when the user has typed the message.      *)
DropMessage ==
  /\ MainAt("askMessage")
  /\ oneClientSending \/ ~validSending
  /\ Goto("top")
  /\ messageReceived' = FALSE
  /\ UNCHANGED <<mainFrame, toServer, relayMsg, chunks, sending>>

(* Modes 1 and 2: sent as it is; an empty one is not sent.                 *)
AskMessage ==
  /\ MainAt("askMessage") /\ ~oneClientSending /\ validSending
  /\ relayMsg \in {"1", "2"}
  /\ \/ \E t \in Lines : Types(t, "message")
     \/ "empty" \in hazards /\ UNCHANGED toServer
  /\ Goto("top")
  /\ messageReceived' = FALSE
  /\ UNCHANGED <<mainFrame, relayMsg, chunks, sending>>

(* Modes 3 and 4, a wrong format or file name: no answer is waited for.    *)
CancelFile ==
  /\ MainAt("askMessage") /\ ~oneClientSending /\ validSending
  /\ relayMsg \in {"3", "4"}
  /\ Types("cancel", "message")
  /\ Goto("top")
  /\ messageReceived' = TRUE
  /\ UNCHANGED <<mainFrame, relayMsg, chunks, sending>>

AskFile ==
  /\ MainAt("askMessage") /\ ~oneClientSending /\ validSending
  /\ relayMsg \in {"3", "4"}
  /\ Types("send x", "message")
  /\ Goto("sendFile")
  /\ chunks' \in 0 .. MaxChunks[hazards]
  /\ messageReceived' = FALSE
  /\ UNCHANGED <<mainFrame, relayMsg, sending>>

(* A sendFile that does not notice the end of the file.                    *)
SendChunk_OneMore ==
  /\ MainAt("sendFile") /\ chunks >= 0
  /\ Types("chunk", "file")
  /\ chunks' = chunks - 1
  /\ UNCHANGED <<mainFrame, main, relayMsg, messageReceived, sending>>

(* sendFile: the pieces, and EOF; it does not wait for the server.         *)
SendChunk ==
  /\ MainAt("sendFile") /\ chunks > 0
  /\ Types("chunk", "file")
  /\ chunks' = chunks - 1
  /\ UNCHANGED <<mainFrame, main, relayMsg, messageReceived, sending>>

SendEOF ==
  /\ MainAt("sendFile") /\ chunks = 0
  /\ Types("EOF", "file")
  /\ Goto("top")
  /\ UNCHANGED <<mainFrame, relayMsg, chunks, messageReceived, sending>>

(* The file cannot be opened: the server is not told.                      *)
FileVanished ==
  /\ "vanish" \in hazards
  /\ MainAt("sendFile")
  /\ Goto("top")
  /\ chunks' = 0
  /\ UNCHANGED <<mainFrame, toServer, relayMsg, messageReceived, sending>>

(* A line that fills the worker's array, which then reads the rest of it.  *)
LongLine ==
  /\ "long" \in hazards
  /\ \E question \in Places :
       /\ \/ MainAt("askCommand") /\ question = "command"
          \/ MainAt("askMode") /\ question = "selection"
          \/ MainAt("askMessage") /\ question = "message" /\ ~oneClientSending /\ validSending
       /\ Goto(IF question = "message" /\ relayMsg \in {"3", "4"} THEN "sendFile" ELSE "top")
       /\ messageReceived' = (messageReceived /\ question # "message")
       /\ \E rest \in {<<>>} \cup {<<[text |-> t, at |-> question]>> : t \in Words \cup {"text"}} :
            /\ Len(toServer) < MaxInFlight[hazards]
            /\ toServer' = Append(toServer, [text |-> "long", at |-> question]) \o rest
  /\ chunks' \in 0 .. (IF main' = "sendFile" THEN MaxChunks[hazards] ELSE 0)
  /\ UNCHANGED <<mainFrame, relayMsg, sending>>

User == AskCommand \/ EmptyCommand \/ AskMode \/ AskMode_Wrong \/ DropMessage
        \/ AskMessage \/ CancelFile \/ AskFile \/ LongLine

Program == Top \/ Await \/ AwaitMode \/ ModeCheck \/ AwaitRequest
           \/ SendChunk \/ SendEOF \/ FileVanished

Next == Worker \/ Peers \/ Receiver \/ User \/ Program

Spec == Init /\ [][Next]_vars

(* Every thread that can go on does, and the user answers a prompt.        *)
Fairness == WF_vars(Worker) /\ WF_vars(Receiver) /\ WF_vars(Program) /\ WF_vars(User)

FairSpec == Spec /\ Fairness

-----------------------------------------------------------------------------
(* Type invariant.                                                         *)
TypeOK ==
  /\ toServer \in Seq([text : Texts, at : Places])
  /\ toClient \in Seq(Answers)
  /\ Len(toServer) <= MaxInFlight[hazards] + 1 /\ Len(toClient) <= MaxInFlight[hazards] + 1
  /\ place \in Places /\ mode \in Modes /\ relayMsg \in Modes
  /\ main \in {"top", "await", "askCommand", "awaitMode", "modeCheck", "askMode",
               "awaitRequest", "askMessage", "sendFile", "exited"}
  /\ chunks \in 0 .. MaxChunks[hazards]
  /\ recv \in {"read", "fileEnd", "signal", "flags", "exited"}
  /\ message \in Answers
  /\ {messageReceived, isSending, validSending, oneClientSending, isLoginReady,
      isReceivedMsg, isReceivingFileMode, isSendingFileEnd, loggedIn} \subseteq BOOLEAN
  /\ peerFile \in Seq(Answers) /\ otherFile \in Seq(Answers)
  /\ hazards \in Scenarios

(* The worker answers every text for what it is, and main every answer:    *)
(* no file is refused, the user does not write SEND, no line, answer or    *)
(* message exceeds a buffer, and main does not outrun the receiver; what   *)
(* other clients send holds none of the words the receiver looks for, and  *)
(* their files come whole and one at a time.                               *)
Orderly == hazards \cap {"refuse", "SEND", "long", "race", "words", "bare", "files"} = {}

(* The worker takes every text for what the user was asked for: a mode is  *)
(* never read as a command, nor a piece of a file as either - whatever     *)
(* chats and files are written between its answers, and though the name or *)
(* text that an answer repeats make the receiver swallow it.               *)
InStep ==
  Orderly => (toServer # <<>> /\ place # "closed" => Head(toServer).at = place)

(* messageReceived is one bit: with no hazard there is never a second      *)
(* answer on its way that it would merge with the first.  (A peer's notice *)
(* is one, and so is the rest of an answer longer than the buffer.)        *)
Outstanding ==
  Len(toClient) + (IF recv \in {"fileEnd", "signal"} THEN 1 ELSE 0)
                + (IF messageReceived /\ main # "askMessage" THEN 1 ELSE 0)

AnswersNotMerged == hazards = {} => Outstanding <= 1

(* No loginOK or logoutMsg is swallowed, and nothing else says the same:   *)
(* nobody sends a file, and neither chats nor answers hold any such words. *)
Heard == hazards \cap {"file", "files", "words", "echo"} = {}

(* When the user is asked for a command and all answers are in, the        *)
(* client's isLoginReady is what the server says: out of step as well, if  *)
(* all that the server says of it is heard; and in order even if not, as   *)
(* only an answer too many would bring main back.                          *)
LoginAgrees ==
  Orderly \/ Heard =>
    (main = "askCommand" /\ recv = "read" /\ toClient = <<>> => isLoginReady = loggedIn)

(* With no hazard the program goes on to ask for commands until it ends:   *)
(* worker, receiver and main never wait for each other, nor does main spin *)
(* on isReceivedMsg.  Nobody else writes, the user's names and texts are   *)
(* free of the words the receiver looks for, and fit the buffers.          *)
PromptReturns ==
  (hazards = {} /\ main # "askCommand") ~> (main \in {"askCommand", "exited"})
=============================================================================
