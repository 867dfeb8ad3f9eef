--------------------------- MODULE MessageBuffer ---------------------------
(***************************************************************************)
(* How a worker gets a message into its hands: memset, SSL_read, and the   *)
(* construction of a std::string from the bytes up to the first NUL.  The  *)
(* buffer is a global array (ThreadPool.cpp, clientMsgBuffer; and, for the *)
(* mode of a send command, clientMsgBufferForSelection): all the workers   *)
(* use the same one.                                                       *)
(*                                                                         *)
(* Each of the three is one step.  On real memory they overlap byte by     *)
(* byte too, which adds outcomes of the same kind to those seen here.      *)
(***************************************************************************)
EXTENDS Naturals, Sequences

CONSTANTS
  Workers,   \* threads inside handleClient
  Chars,     \* the bytes clients send
  Nul,       \* the byte 0
  BufferSize \* BUFFER_SIZE

ASSUME BufferAssumption == Nul \notin Chars /\ BufferSize \in Nat \ {0}

VARIABLES
  buffer,  \* the global array
  pc,      \* "clear", "read", "copy", "execute"
  sent,    \* history: what the worker's client has sent
  got      \* receivedMsg, the string the worker parses

vars == <<buffer, pc, sent, got>>

Cells == 1..BufferSize
Messages == UNION {[1..n -> Chars] : n \in Cells}
Blank == [i \in Cells |-> Nul]

(* The std::string of a C string: the bytes before the first NUL.          *)
Terminated(b) == \E i \in Cells : b[i] = Nul
CString(b) ==
  LET end == CHOOSE i \in Cells : b[i] = Nul /\ \A j \in 1..(i-1) : b[j] # Nul
  IN  SubSeq(b, 1, end - 1)

Init ==
  /\ buffer = Blank
  /\ pc = [w \in Workers |-> "clear"]
  /\ sent = [w \in Workers |-> <<>>]
  /\ got = [w \in Workers |-> <<>>]

At(w, place) == pc[w] = place
Goto(w, to)  == pc' = [pc EXCEPT ![w] = to]

(* A loop that does not clear the buffer.                                  *)
Clear_Skipped(w) ==
  /\ At(w, "clear") /\ Goto(w, "read")
  /\ UNCHANGED <<buffer, sent, got>>

Clear(w) ==
  /\ At(w, "clear") /\ Goto(w, "read")
  /\ buffer' = Blank
  /\ UNCHANGED <<sent, got>>

(* SSL_read: the bytes of the message go over the front of the array.      *)
Read(w) ==
  /\ At(w, "read") /\ Goto(w, "copy")
  /\ \E m \in Messages :
       /\ sent' = [sent EXCEPT ![w] = m]
       /\ buffer' = [i \in Cells |-> IF i <= Len(m) THEN m[i] ELSE buffer[i]]
  /\ UNCHANGED got

(* No NUL in the array: the string is at least BUFFER_SIZE long whatever   *)
(* follows the array, and the message is dropped without an answer.        *)
CopyTooLong(w) ==
  /\ At(w, "copy") /\ ~Terminated(buffer)
  /\ Goto(w, "clear")
  /\ UNCHANGED <<buffer, sent, got>>

Copy(w) ==
  /\ At(w, "copy") /\ Terminated(buffer)
  /\ Goto(w, "execute")
  /\ got' = [got EXCEPT ![w] = CString(buffer)]
  /\ UNCHANGED <<buffer, sent>>

(* The command is carried out and answered.                                *)
Execute(w) ==
  /\ At(w, "execute") /\ Goto(w, "clear")
  /\ UNCHANGED <<buffer, sent, got>>

Next == \E w \in Workers : Clear(w) \/ Read(w) \/ CopyTooLong(w) \/ Copy(w) \/ Execute(w)

Spec == Init /\ [][Next]_vars

-----------------------------------------------------------------------------
(* The command a worker executes is the one its own client has sent.       *)
ExecutesOwnMessage == \A w \in Workers : At(w, "execute") => got[w] = sent[w]
=============================================================================
