---------------------------- MODULE FileReceiver ----------------------------
(***************************************************************************)
(* The receiving thread of a client to which files are passed on           *)
(* (client.cpp: receiveMessages and the globals above it).  What arrives   *)
(* is told apart by the letters in it: a text in which another client has  *)
(* written EOF, FILE: or INFO: counts as part of a file.                   *)
(*                                                                         *)
(* The contents of a file are the sequence of its pieces, of up to         *)
(* CHUNK_SIZE bytes; a piece is an ordinary string or one of               *)
(*   "EOF"    the mark of the end, and                                     *)
(*   "EOF~"   a piece of a file with these letters in it                   *)
(*   in DOMAIN Claims: a piece with the letters INFO: in it                *)
(*   "NUL~"   a piece with a zero byte in it, and "cut" what is before it  *)
(* A hash stands for the contents it was computed from.                    *)
(***************************************************************************)
EXTENDS Naturals, Sequences, Functions

CONSTANT
  Claims  \* the name and the hash that this program reads in a piece, or in a
          \* text, that has INFO: in it

VARIABLES
  now,         \* time(nullptr): the second
  toTarget,    \* the records on their way to this client
  isReceivingFileMode, filename, fileBuffer,
  hash,        \* hashValueArray[0]
  clientDisk   \* the files in clientFile_<user>: path -> contents

receiver == <<isReceivingFileMode, filename, fileBuffer, hash, clientDisk>>

NoName == "none"   \* the empty string

NoHash == [known |-> FALSE, of |-> <<>>]

Hash(contents) == [known |-> TRUE, of |-> contents]

(* The records a worker writes to the client.                              *)
Info(name, h) == [is |-> "INFO", name |-> name, hash |-> h]
File(piece)   == [is |-> "FILE", piece |-> piece]
End           == [is |-> "EOF"]
Text(letters) == [is |-> "text", has |-> letters]   \* "nothing", "EOF", "FILE" or one of Claims

ReceiverInit ==
  /\ toTarget = <<>>
  /\ isReceivingFileMode = FALSE
  /\ filename = NoName /\ fileBuffer = <<>> /\ hash = NoHash
  /\ clientDisk = <<>>

-----------------------------------------------------------------------------
(* The kinds of message, in the order the code asks for them.              *)
InfoIn(m) ==
  \/ m.is = "INFO"
  \/ m.is = "FILE" /\ m.piece \in DOMAIN Claims
  \/ m.is = "text" /\ m.has \in DOMAIN Claims

PieceIn(m) ==
  \/ m.is = "FILE" /\ m.piece \notin DOMAIN Claims
  \/ m.is = "text" /\ m.has = "FILE"

(* A file of these contents on a disk, in place of any of this path.       *)
Store(files, path, contents) ==
  [p \in DOMAIN files \cup {path} |-> IF p = path THEN contents ELSE files[p]]

Arrives(m) ==
  /\ toTarget # <<>> /\ m = Head(toTarget)
  /\ toTarget' = Tail(toTarget)

(* What is read after the first five letters, whatever these are.          *)
Announces(m) ==
  CASE m.is = "INFO" -> [name |-> m.name, hash |-> m.hash]
    [] m.is = "FILE" -> Claims[m.piece]
    [] m.is = "text" -> Claims[m.has]

(* An announcement, or what is taken for one.                              *)
ReceiveInfo(m) ==
  /\ InfoIn(m)
  /\ isReceivingFileMode' = TRUE
  /\ filename' = Announces(m).name
  /\ hash' = Announces(m).hash
  /\ UNCHANGED <<fileBuffer, clientDisk>>

(* A piece, which the conversion to a string ends at a zero byte.          *)
ReceivePiece(m) ==
  /\ PieceIn(m)
  /\ isReceivingFileMode' = TRUE
  /\ fileBuffer' = Append(fileBuffer,
       IF m.is = "text" THEN "chat" ELSE IF m.piece = "NUL~" THEN "cut" ELSE m.piece)
  /\ UNCHANGED <<filename, hash, clientDisk>>

(* A client that takes the file as it came.                                *)
ReceiveEOF_Unverified(m) ==
  /\ m.is = "EOF" /\ filename # NoName
  /\ isReceivingFileMode' = FALSE
  /\ clientDisk' = Store(clientDisk, <<now, filename>>, fileBuffer)
  /\ filename' = NoName /\ fileBuffer' = <<>> /\ hash' = NoHash

(* A client that keeps the pieces when it has stored them.                 *)
ReceiveEOF_BufferKept(m) ==
  /\ m.is = "EOF" /\ filename # NoName
  /\ isReceivingFileMode' = FALSE
  /\ LET path == <<now, filename>>
     IN  clientDisk' = IF hash = Hash(fileBuffer)
                       THEN Store(clientDisk, path, fileBuffer)
                       ELSE Restrict(clientDisk, DOMAIN clientDisk \ {path})
  /\ filename' = NoName /\ hash' = NoHash
  /\ UNCHANGED fileBuffer

(* The end of a file: it is stored, hashed as it is stored, and removed    *)
(* again if the hash is not the announced one.                             *)
ReceiveEOF(m) ==
  /\ m.is = "EOF" /\ filename # NoName
  /\ isReceivingFileMode' = FALSE
  /\ LET path == <<now, filename>>
     IN  clientDisk' = IF hash = Hash(fileBuffer)
                       THEN Store(clientDisk, path, fileBuffer)
                       ELSE Restrict(clientDisk, DOMAIN clientDisk \ {path})
  /\ filename' = NoName /\ fileBuffer' = <<>> /\ hash' = NoHash

(* An end without a name, or rather without a type in the name:            *)
(* createFileReader throws, and nothing is cleared.                        *)
ReceiveEOF_Throws(m) ==
  /\ m.is = "EOF" /\ filename = NoName
  /\ isReceivingFileMode' = FALSE
  /\ UNCHANGED <<filename, fileBuffer, hash, clientDisk>>

(* A text that stops the client from showing texts.                        *)
ReceiveMention(m) ==
  /\ m.is = "text" /\ m.has = "EOF"
  /\ isReceivingFileMode' = TRUE
  /\ UNCHANGED <<filename, fileBuffer, hash, clientDisk>>

(* Shown, or dropped when in the middle of a file.                         *)
ReceiveText(m) ==
  /\ m.is = "text" /\ m.has = "nothing"
  /\ UNCHANGED receiver

Receive ==
  \E m \in {toTarget[i] : i \in 1 .. Len(toTarget)} :
    /\ Arrives(m)
    /\ \/ ReceiveInfo(m) \/ ReceivePiece(m)
       \/ ReceiveEOF(m) \/ ReceiveEOF_Throws(m)
       \/ ReceiveMention(m) \/ ReceiveText(m)
    /\ UNCHANGED now
=============================================================================
