---------------------------- MODULE FileTransfer ----------------------------
(***************************************************************************)
(* Files: clients that send them (sendFile, process_send), the workers     *)
(* that store them in serverFile (mode 3: receiveFileServer) or pass them  *)
(* on to one receiving client (mode 4: receiveAndSendFile), and that       *)
(* client (FileReceiver).  How a transfer is asked for is in Dialogue; a   *)
(* transfer here begins when the worker reads "send <name>".               *)
(*                                                                         *)
(* A write reaches the disk when the stream's buffer is full, at any time, *)
(* or when the stream is closed.                                           *)
(***************************************************************************)
EXTENDS FileReceiver, FiniteSets, SequencesExt

CONSTANTS
  Senders,
  Scenarios,  \* what the senders send, one file after the other, and a text
              \* (or the rest of one, after a first read) of another client
  MaxPieces,  \* MAX_FILE_SIZE, in pieces
  MaxSecond,  \* bound: the clock
  MaxLost     \* bound: senders that disappear in the middle of a file

(* A file has a name, a type that decides its FileReader, and contents.    *)
File_ == [name : STRING \ {NoName}, audio : BOOLEAN, pieces : Seq(STRING)]

(* What the receiving client looks for in a text.                          *)
Mentions == {"nothing", "EOF", "FILE"} \cup DOMAIN Claims

(* The notice of a file repeats the receiver's name and the file's.        *)
Job == [mode : {"3", "4"}, file : File_, notice : Mentions]

(* What the senders have to send is finite, the type is in the name        *)
(* (parseFileType), and no hash can be in a notice: a file name has no "|".*)
ASSUME FileAssumption ==
  /\ Scenarios \subseteq [mention : Mentions, plan : [Senders -> Seq(Job)]]
  /\ DOMAIN Claims \cap {"nothing", "EOF", "FILE", "EOF~", "NUL~"} = {}
  /\ \A c \in Scenarios : \A s \in Senders : \A j \in Range(c.plan[s]) :
       j.notice \in DOMAIN Claims => Claims[j.notice] = [name |-> NoName, hash |-> NoHash]
  /\ \A c \in Scenarios : \A s, t \in Senders :
       \A j \in Range(c.plan[s]), k \in Range(c.plan[t]) :
         j.file.name = k.file.name => j.file.audio = k.file.audio
  /\ MaxPieces \in Nat /\ MaxSecond \in Nat \ {0} /\ MaxLost \in Nat

VARIABLES
  plan, mention,  \* of this behaviour; they never change
  said,           \* has the other client written its text?
  turn,           \* how many transfers a sender has begun
  left,           \* the pieces it has not written yet
  gone,           \* the senders that have disappeared
  wire,           \* the records on their way to the worker
  place,          \* of the worker: "command", "receiving", "relaying", "notice", "closed"
  job,            \* what it is receiving
  got,            \* the pieces it has received
  path,           \* the file it has opened ...
  linked,         \* ... if nobody has removed it
  stored,         \* how many of its pieces have left the stream's buffer
  outbox,         \* what it has to write to the receiver
  serverDisk,     \* the files in serverFile: path -> contents
  verdict,        \* history: how each transfer ended, and what was answered
  opened,         \* history: which transfer opened which path
  announced       \* history: which transfers wrote anything to the receiver

frozen  == <<plan, mention>>
senders == <<turn, left, gone>>
worker  == <<place, job, got, outbox>>
disk    == <<path, linked, stored, serverDisk, opened>>
vars    == <<now, toTarget, receiver, frozen, said, senders, wire, worker, disk,
             verdict, announced>>

HasEOF(piece) == piece \in {"EOF", "EOF~"}

NoJob == [mode |-> "3", file |-> [name |-> NoName, audio |-> FALSE, pieces |-> <<>>],
          notice |-> "nothing"]

Init ==
  /\ ReceiverInit
  /\ now = 1
  /\ \E c \in Scenarios : plan = c.plan /\ mention = c.mention
  /\ said = FALSE
  /\ turn = [s \in Senders |-> 0] /\ left = [s \in Senders |-> <<>>] /\ gone = {}
  /\ wire = [s \in Senders |-> <<>>]
  /\ place = [s \in Senders |-> "command"] /\ job = [s \in Senders |-> NoJob]
  /\ got = [s \in Senders |-> <<>>] /\ outbox = [s \in Senders |-> <<>>]
  /\ path = [s \in Senders |-> <<0, NoName>>] /\ linked = [s \in Senders |-> FALSE]
  /\ stored = [s \in Senders |-> 0] /\ serverDisk = <<>>
  /\ verdict = [s \in Senders |-> <<>>] /\ opened = {} /\ announced = {}

-----------------------------------------------------------------------------
(* The sending client.                                                     *)

Answered(s) == left[s] = <<>> /\ Len(verdict[s]) >= turn[s]

(* A client that sends nothing at all for an empty file.                   *)
StartTransfer_NoEOFAlone(s) ==
  /\ s \notin gone /\ Answered(s) /\ turn[s] < Len(plan[s])
  /\ LET j == plan[s][turn[s] + 1]
     IN  /\ wire' = [wire EXCEPT ![s] = Append(@, [is |-> "name", job |-> j])]
         /\ left' = [left EXCEPT ![s] = IF j.file.audio THEN <<>> ELSE IF j.file.pieces = <<>> THEN <<>> ELSE Append(j.file.pieces, "EOF")]
  /\ turn' = [turn EXCEPT ![s] = @ + 1]
  /\ UNCHANGED <<now, toTarget, receiver, frozen, said, gone, worker, disk, verdict, announced>>

(* It writes the name and goes on to sendFile, which for an audio file     *)
(* throws before it has sent anything.                                     *)
StartTransfer(s) ==
  /\ s \notin gone /\ Answered(s) /\ turn[s] < Len(plan[s])
  /\ LET j == plan[s][turn[s] + 1]
     IN  /\ wire' = [wire EXCEPT ![s] = Append(@, [is |-> "name", job |-> j])]
         /\ left' = [left EXCEPT ![s] = IF j.file.audio THEN <<>> ELSE Append(j.file.pieces, "EOF")]
  /\ turn' = [turn EXCEPT ![s] = @ + 1]
  /\ UNCHANGED <<now, toTarget, receiver, frozen, said, gone, worker, disk, verdict, announced>>

(* process_send: a piece, or EOF.                                          *)
SendPiece(s) ==
  /\ left[s] # <<>> /\ s \notin gone
  /\ wire[s] = <<>>
  /\ wire' = [wire EXCEPT ![s] = <<[is |-> "piece", text |-> Head(left[s])]>>]
  /\ left' = [left EXCEPT ![s] = Tail(@)]
  /\ UNCHANGED <<now, toTarget, receiver, frozen, said, turn, gone, worker, disk, verdict, announced>>

(* The program is killed while it sends.                                   *)
Disappear(s) ==
  /\ left[s] # <<>> /\ s \notin gone
  /\ Cardinality(gone) < MaxLost
  /\ gone' = gone \cup {s}
  /\ UNCHANGED <<now, toTarget, receiver, frozen, said, turn, left, wire, worker, disk, verdict, announced>>

-----------------------------------------------------------------------------
(* The disk of the server.                                                 *)

(* Writing pieces at an offset, over what is there or beyond its end.      *)
WriteAt(contents, offset, pieces) ==
  [i \in 1 .. (IF offset + Len(pieces) > Len(contents) THEN offset + Len(pieces) ELSE Len(contents)) |->
    IF i > offset /\ i <= offset + Len(pieces) THEN pieces[i - offset]
    ELSE IF i <= Len(contents) THEN contents[i] ELSE "zeroes"]

(* What the stream of s has not written yet.                               *)
Flushed(s, pieces) ==
  IF linked[s]
  THEN [serverDisk EXCEPT ![path[s]] = WriteAt(@, stored[s], SubSeq(pieces, stored[s] + 1, Len(pieces)))]
  ELSE serverDisk

Open(s, p) ==
  /\ path' = [path EXCEPT ![s] = p]
  /\ linked' = [linked EXCEPT ![s] = TRUE]
  /\ stored' = [stored EXCEPT ![s] = 0]
  /\ serverDisk' = Store(serverDisk, p, <<>>)
  /\ opened' = opened \cup {<<p, s, turn[s]>>}

(* remove(); streams that have the file open go on writing to nowhere.     *)
RemoveFile(p) ==
  /\ serverDisk' = Restrict(serverDisk, DOMAIN serverDisk \ {p})
  /\ linked' = [t \in Senders |-> linked[t] /\ path[t] # p]
  /\ UNCHANGED <<path, stored, opened>>

-----------------------------------------------------------------------------
(* The worker.                                                             *)

Reads(s, at, kind) ==
  /\ place[s] = at
  /\ wire[s] # <<>> /\ Head(wire[s]).is = kind
  /\ wire' = [wire EXCEPT ![s] = Tail(@)]
  /\ UNCHANGED <<now, receiver, frozen, said, senders>>

Goto(s, to) == place' = [place EXCEPT ![s] = to]

Ends(s, j, how) ==
  verdict' = [verdict EXCEPT ![s] = Append(@, [job |-> j, how |-> how, path |-> path[s]])]

(* Mode 3: the path is named after the second; the file is created, unless *)
(* its FileReader cannot receive one.                                      *)
BeginUpload(s) ==
  /\ Reads(s, "command", "name")
  /\ LET j == Head(wire[s]).job
         p == <<now, j.file.name>>
     IN  /\ j.mode = "3"
         /\ job' = [job EXCEPT ![s] = j]
         /\ IF j.file.audio
            THEN Ends(s, j, "failed") /\ RemoveFile(p) /\ UNCHANGED <<place, got>>
            ELSE /\ Open(s, p)
                 /\ got' = [got EXCEPT ![s] = <<>>]
                 /\ Goto(s, "receiving")
                 /\ UNCHANGED verdict
  /\ UNCHANGED <<toTarget, outbox, announced>>

BeginRelay(s) ==
  /\ Reads(s, "command", "name")
  /\ LET j == Head(wire[s]).job
     IN  /\ j.mode = "4"
         /\ job' = [job EXCEPT ![s] = j]
         /\ IF j.file.audio
            THEN Ends(s, j, "failed") /\ Goto(s, "notice")
            ELSE Goto(s, "receiving") /\ UNCHANGED verdict
         /\ got' = [got EXCEPT ![s] = <<>>]
  /\ UNCHANGED <<toTarget, outbox, disk, announced>>

(* What is left of a file that was given up is read as commands.           *)
ReadStray(s) ==
  /\ Reads(s, "command", "piece")
  /\ UNCHANGED <<toTarget, worker, disk, verdict, announced>>

Piece(s) == Head(wire[s]).text

UploadFails(s) ==
  /\ RemoveFile(path[s])
  /\ Ends(s, job[s], "failed")
  /\ got' = [got EXCEPT ![s] = <<>>]

(* A worker that counts a piece after it has been written.                 *)
UploadPiece_CountsLate(s) ==
  /\ Reads(s, "receiving", "piece")
  /\ job[s].mode = "3" /\ ~HasEOF(Piece(s))
  /\ IF Len(got[s]) > MaxPieces
     THEN UploadFails(s) /\ Goto(s, "command")
     ELSE /\ got' = [got EXCEPT ![s] = Append(@, Piece(s))]
          /\ UNCHANGED <<place, disk, verdict>>
  /\ UNCHANGED <<toTarget, job, outbox, announced>>

UploadPiece(s) ==
  /\ Reads(s, "receiving", "piece")
  /\ job[s].mode = "3" /\ ~HasEOF(Piece(s))
  /\ IF Len(got[s]) + 1 > MaxPieces
     THEN UploadFails(s) /\ Goto(s, "command")
     ELSE LET pieces == Append(got[s], Piece(s))
          IN  /\ got' = [got EXCEPT ![s] = pieces]
              /\ \/ UNCHANGED <<stored, serverDisk>>
                 \/ /\ serverDisk' = Flushed(s, pieces)
                    /\ stored' = [stored EXCEPT ![s] = Len(pieces)]
              /\ UNCHANGED <<place, path, linked, opened, verdict>>
  /\ UNCHANGED <<toTarget, job, outbox, announced>>

(* Any piece with the letters EOF is the end: close, and tell the client.  *)
UploadEnd(s) ==
  /\ Reads(s, "receiving", "piece")
  /\ job[s].mode = "3" /\ HasEOF(Piece(s))
  /\ serverDisk' = Flushed(s, got[s])
  /\ linked' = [linked EXCEPT ![s] = FALSE]
  /\ Ends(s, job[s], "saved")
  /\ Goto(s, "command")
  /\ UNCHANGED <<toTarget, job, got, outbox, path, stored, opened, announced>>

(* A worker that leaves the half of a file.                                *)
UploadBroken_FileLeft(s) ==
  /\ place[s] = "receiving" /\ job[s].mode = "3"
  /\ s \in gone /\ wire[s] = <<>>
  /\ serverDisk' = Flushed(s, got[s])
  /\ linked' = [linked EXCEPT ![s] = FALSE]
  /\ Ends(s, job[s], "failed")
  /\ Goto(s, "closed")
  /\ UNCHANGED <<now, toTarget, receiver, frozen, said, senders, wire, job, got, outbox, path, stored,
                 opened, announced>>

(* The sender is gone: an exception, and the file is removed.              *)
UploadBroken(s) ==
  /\ place[s] = "receiving" /\ job[s].mode = "3"
  /\ s \in gone /\ wire[s] = <<>>
  /\ UploadFails(s)
  /\ Goto(s, "closed")
  /\ UNCHANGED <<now, toTarget, receiver, frozen, said, senders, wire, job, outbox, announced>>

RelayPiece(s) ==
  /\ Reads(s, "receiving", "piece")
  /\ job[s].mode = "4" /\ ~HasEOF(Piece(s))
  /\ IF Len(got[s]) + 1 > MaxPieces
     THEN /\ got' = [got EXCEPT ![s] = <<>>]
          /\ Ends(s, job[s], "failed") /\ Goto(s, "notice")
     ELSE /\ got' = [got EXCEPT ![s] = Append(@, Piece(s))]
          /\ UNCHANGED <<place, verdict>>
  /\ UNCHANGED <<toTarget, job, outbox, disk, announced>>

Records(name, pieces) ==
  <<Info(name, Hash(pieces))>> \o [i \in 1 .. Len(pieces) |-> File(pieces[i])] \o <<End>>

(* The whole file is there: the hash is complete, and passing on begins.   *)
RelayEnd(s) ==
  /\ Reads(s, "receiving", "piece")
  /\ job[s].mode = "4" /\ HasEOF(Piece(s))
  /\ outbox' = [outbox EXCEPT ![s] = Records(job[s].file.name, got[s])]
  /\ Goto(s, "relaying")
  /\ UNCHANGED <<toTarget, job, got, disk, verdict, announced>>

(* The sender is gone: nothing is passed on but the notice.                *)
RelayBroken(s) ==
  /\ place[s] = "receiving" /\ job[s].mode = "4"
  /\ s \in gone /\ wire[s] = <<>>
  /\ got' = [got EXCEPT ![s] = <<>>]
  /\ Ends(s, job[s], "failed") /\ Goto(s, "notice")
  /\ UNCHANGED <<now, toTarget, receiver, frozen, said, senders, wire, job, outbox, disk, announced>>

(* A worker that leaves out the mark of the end.                           *)
RelayWrite_NoEOF(s) ==
  /\ place[s] = "relaying" /\ outbox[s] # <<>>
  /\ toTarget' = IF Head(outbox[s]) = End THEN toTarget ELSE Append(toTarget, Head(outbox[s]))
  /\ outbox' = [outbox EXCEPT ![s] = Tail(@)]
  /\ announced' = announced \cup {<<s, turn[s]>>}
  /\ UNCHANGED <<now, receiver, frozen, said, senders, wire, place, job, got, disk, verdict>>

(* One SSL_write to the receiver, to whom other workers may write between. *)
RelayWrite(s) ==
  /\ place[s] = "relaying" /\ outbox[s] # <<>>
  /\ toTarget' = Append(toTarget, Head(outbox[s]))
  /\ outbox' = [outbox EXCEPT ![s] = Tail(@)]
  /\ announced' = announced \cup {<<s, turn[s]>>}
  /\ UNCHANGED <<now, receiver, frozen, said, senders, wire, place, job, got, disk, verdict>>

RelayAnswer(s) ==
  /\ place[s] = "relaying" /\ outbox[s] = <<>>
  /\ Ends(s, job[s], "relayed") /\ Goto(s, "notice")
  /\ UNCHANGED <<now, toTarget, receiver, frozen, said, senders, wire, job, got, outbox, disk, announced>>

(* "... sent a file called ... to you", whether one was passed on or not.  *)
Notice(s) ==
  /\ place[s] = "notice"
  /\ toTarget' = Append(toTarget, Text(job[s].notice))
  /\ Goto(s, "command")
  /\ UNCHANGED <<now, receiver, frozen, said, senders, wire, job, got, outbox, disk, verdict, announced>>

Upload(s) == BeginUpload(s) \/ UploadPiece(s) \/ UploadEnd(s) \/ UploadBroken(s)

Relay(s) == BeginRelay(s) \/ RelayPiece(s) \/ RelayEnd(s) \/ RelayBroken(s)
            \/ RelayWrite(s) \/ RelayAnswer(s) \/ Notice(s)

Worker(s) == Upload(s) \/ Relay(s) \/ ReadStray(s)

-----------------------------------------------------------------------------
(* Mode 2 of some other client: a text for the receiver.                   *)
Mention ==
  /\ ~said /\ mention # "nothing"
  /\ said' = TRUE
  /\ toTarget' = Append(toTarget, Text(mention))
  /\ UNCHANGED <<now, receiver, frozen, senders, wire, worker, disk, verdict, announced>>

Receives ==
  /\ Receive
  /\ UNCHANGED <<frozen, said, senders, wire, worker, disk, verdict, announced>>

Tick ==
  /\ now < MaxSecond
  /\ now' = now + 1
  /\ UNCHANGED <<toTarget, receiver, frozen, said, senders, wire, worker, disk, verdict, announced>>

Next ==
  \/ \E s \in Senders : StartTransfer(s) \/ SendPiece(s) \/ Disappear(s) \/ Worker(s)
  \/ Receives \/ Mention \/ Tick

Spec == Init /\ [][Next]_vars

(* Programs that can go on do.                                             *)
Fairness ==
  /\ \A s \in Senders : WF_vars(StartTransfer(s) \/ SendPiece(s)) /\ WF_vars(Worker(s))
  /\ WF_vars(Receives)

FairSpec == Spec /\ Fairness

-----------------------------------------------------------------------------
(* Properties.                                                             *)

Jobs == UNION {UNION {Range(c.plan[s]) : s \in Senders} : c \in Scenarios}

Pieces == (UNION {Range(j.file.pieces) : j \in Jobs}) \cup {"chat", "cut", "EOF"}

(* The state of every part: the positions, the records on the wires, and   *)
(* no more pieces in memory than the limit allows.                         *)
TypeOK ==
  /\ now \in 1 .. MaxSecond /\ [plan |-> plan, mention |-> mention] \in Scenarios
  /\ said \in BOOLEAN /\ isReceivingFileMode \in BOOLEAN
  /\ gone \subseteq Senders /\ Cardinality(gone) <= MaxLost
  /\ \A s \in Senders :
       /\ turn[s] \in 0 .. Len(plan[s]) /\ Len(verdict[s]) <= turn[s]
       /\ left[s] \in Seq(Pieces) /\ got[s] \in Seq(Pieces)
       /\ Len(got[s]) <= MaxPieces /\ stored[s] \in 0 .. MaxPieces
       /\ place[s] \in {"command", "receiving", "relaying", "notice", "closed"}
       /\ job[s] \in Jobs \cup {NoJob}
       /\ linked[s] => path[s] \in DOMAIN serverDisk
  /\ fileBuffer \in Seq(Pieces)
  /\ \A p \in DOMAIN clientDisk : clientDisk[p] \in Seq(Pieces)

UpToEOF(pieces) ==
  LET ends == {i \in 1 .. Len(pieces) : HasEOF(pieces[i])}
  IN  IF ends = {} THEN pieces ELSE SubSeq(pieces, 1, Min(ends) - 1)

Verdicts(s) == Range(verdict[s])

(* Two files of one name begun in one second have one path.                *)
Shared(p) == Cardinality({o \in opened : o[1] = p}) > 1

(* serverFile holds what the clients were told.  A file reported as        *)
(* "received successfully and saved at" is there with all its pieces up to *)
(* the first letters EOF in it, unless two files got the same path; and    *)
(* any file there is one that was reported, or is still being received: of *)
(* a transfer that failed nothing stays.                                   *)
SavedAsSaid ==
  /\ \A s \in Senders : \A v \in Verdicts(s) :
       v.how = "saved" /\ ~Shared(v.path) =>
         /\ v.path \in DOMAIN serverDisk
         /\ serverDisk[v.path] = UpToEOF(v.job.file.pieces)
  /\ \A p \in DOMAIN serverDisk :
       \E s \in Senders :
         \/ \E v \in Verdicts(s) : v.how = "saved" /\ v.path = p
         \/ place[s] = "receiving" /\ job[s].mode = "3" /\ path[s] = p

(* A file of this name and these contents was passed on; or a piece or a   *)
(* text that was written states this name and the hash of these contents.  *)
Sent(name, contents) ==
  \E a \in announced :
    LET j == plan[a[1]][a[2]]
    IN  j.file.name = name /\ contents = UpToEOF(j.file.pieces)

Written(letters) ==
  \/ said /\ mention = letters
  \/ \E a \in announced : letters \in Range(plan[a[1]][a[2]].file.pieces)

Claimed(name, contents) ==
  \E q \in DOMAIN Claims :
    Written(q) /\ Claims[q].name = name /\ Claims[q].hash = Hash(contents)

(* What a receiving client keeps is, under its own name, one of the files  *)
(* passed on to it, whole, however files, texts and notices are mixed on   *)
(* the way; unless a piece or a text with INFO: in it itself states the    *)
(* name and the hash of what is kept (receiveMessages).                    *)
KeptIsSource ==
  \A p \in DOMAIN clientDisk : Sent(p[2], clientDisk[p]) \/ Claimed(p[2], clientDisk[p])

Relays(s) == {j \in Range(plan[s]) : j.mode = "4"}

PlainRelays ==
  /\ said => mention \in {"nothing", "EOF"}
  /\ \A s, t \in Senders : Relays(s) # {} /\ Relays(t) # {} => s = t
  /\ \A s \in Senders : \A j \in Relays(s) :
       /\ j.notice \in {"nothing", "EOF"}
       /\ Range(j.file.pieces) \cap (DOMAIN Claims \cup {"NUL~"}) = {}
  /\ \A s \in Senders : \A j, k \in Relays(s) : j.file.name = k.file.name => j = k

(* When one client alone sends files to the receiver, no text or notice    *)
(* is taken for a part of them, and they have no special letters, then     *)
(* each file reported as passed on is kept once all has arrived.           *)
SoleRelayKept ==
  PlainRelays /\ toTarget = <<>> =>
    \A s \in Senders : \A v \in Verdicts(s) : v.how = "relayed" =>
      \E p \in DOMAIN clientDisk :
        p[2] = v.job.file.name /\ clientDisk[p] = UpToEOF(v.job.file.pieces)

(* A receiver in the middle of a file gets to the end of it and shows      *)
(* texts again, however the files of several senders are mixed; unless a   *)
(* text of another client, or a notice with EOF, FILE: or INFO: in one of  *)
(* the names it repeats, put it into that state (client.cpp:150).          *)
PlainNotices == \A s \in Senders : \A j \in Relays(s) : j.notice = "nothing"

FileModeEnds ==
  PlainNotices /\ ~said /\ isReceivingFileMode ~> ~isReceivingFileMode

(* A transfer that was begun is answered, unless its sender disappears:    *)
(* sender and worker agree on where each file ends, even when one piece    *)
(* looks like the end or the worker gives up.                              *)
EveryTransferAnswered ==
  \A s \in Senders : \A n \in 1 .. 3 :
    turn[s] = n ~> Len(verdict[s]) >= n \/ s \in gone
=============================================================================
