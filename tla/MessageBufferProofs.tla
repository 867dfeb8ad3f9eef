------------------------- MODULE MessageBufferProofs -------------------------
(***************************************************************************)
(* Theorem about MessageBuffer: with one worker, for any alphabet and any  *)
(* size of the array.  (With two it does not hold: MessageBufferShared.)   *)
(***************************************************************************)
EXTENDS MessageBuffer, SequenceTheorems, TLAPS

-----------------------------------------------------------------------------
(* The inductive invariant: what is in the array at each place of the loop *)
(* is what the worker has put there, up to the last byte.                  *)

Filled(m) == [i \in Cells |-> IF i <= Len(m) THEN m[i] ELSE Nul]

InHand(w) ==
  /\ pc \in [Workers -> {"clear", "read", "copy", "execute"}]
  /\ sent \in [Workers -> Seq(Chars)] /\ got \in [Workers -> Seq(Chars \cup {Nul})]
  /\ pc[w] = "read" => buffer = Blank
  /\ pc[w] = "copy" => sent[w] \in Messages /\ buffer = Filled(sent[w])
  /\ pc[w] = "execute" => got[w] = sent[w]

-----------------------------------------------------------------------------
(* A message is a sequence of at least one byte and of at most a buffer.   *)
LEMMA MessageIsSeq ==
  ASSUME NEW m \in Messages
  PROVE  m \in Seq(Chars) /\ Len(m) \in Cells /\ \A i \in 1 .. Len(m) : m[i] \in Chars
<1>1. PICK n \in Cells : m \in [1 .. n -> Chars]
  BY DEF Messages
<1>2. n \in Nat
  BY <1>1, BufferAssumption DEF Cells
<1>3. m \in Seq(Chars)
  BY <1>1, <1>2
<1>4. Len(m) = n
  BY <1>1, <1>2, <1>3, LenProperties
<1> QED
  BY <1>1, <1>3, <1>4

(* The bytes before the first NUL of a message alone in the array are the  *)
(* message, however short it is.                                           *)
LEMMA CStringOfFilled ==
  ASSUME NEW m \in Messages, Terminated(Filled(m))
  PROVE  CString(Filled(m)) = m
<1> DEFINE b == Filled(m)
           n == Len(m)
           First(i) == b[i] = Nul /\ \A j \in 1 .. (i - 1) : b[j] # Nul
<1>1. /\ m \in Seq(Chars) /\ n \in Cells /\ n \in Nat /\ BufferSize \in Nat
      /\ \A i \in 1 .. n : m[i] \in Chars /\ m[i] # Nul
  BY MessageIsSeq, BufferAssumption DEF Cells
<1>2. \A i \in Cells : b[i] = IF i <= n THEN m[i] ELSE Nul
  BY DEF Filled
<1>3. PICK z \in Cells : b[z] = Nul
  BY DEF Terminated
<1> HIDE DEF b, n
<1>4. n + 1 \in Cells
  BY <1>1, <1>2, <1>3 DEF Cells
<1>5. First(n + 1)
  BY <1>1, <1>2, <1>4 DEF Cells
<1>6. ASSUME NEW k \in Cells, First(k) PROVE k = n + 1
  <2>1. ~(k <= n)
    BY <1>1, <1>2, <1>6 DEF Cells
  <2>2. ~(k > n + 1)
    BY <1>1, <1>5, <1>6 DEF Cells
  <2> QED
    BY <1>1, <2>1, <2>2 DEF Cells
<1>7. (CHOOSE k \in Cells : First(k)) = n + 1
  BY <1>4, <1>5, <1>6
<1>8. CString(b) = SubSeq(b, 1, (CHOOSE k \in Cells : First(k)) - 1)
  BY DEF CString
<1>9. CString(b) = SubSeq(b, 1, n)
  <2>1. (n + 1) - 1 = n
    BY <1>1
  <2> HIDE DEF First
  <2> QED
    BY <1>7, <1>8, <2>1
<1>10. b \in Seq(Chars \cup {Nul}) /\ Len(b) = BufferSize
  <2>1. b \in [1 .. BufferSize -> Chars \cup {Nul}]
    BY <1>1 DEF b, n, Filled, Cells
  <2>2. b \in Seq(Chars \cup {Nul})
    BY <1>1, <2>1
  <2> QED
    BY <1>1, <2>1, <2>2, LenProperties
<1>11. /\ SubSeq(b, 1, n) \in Seq(Chars \cup {Nul})
       /\ Len(SubSeq(b, 1, n)) = n
       /\ \A i \in 1 .. n : SubSeq(b, 1, n)[i] = b[i]
  <2>1. \A i \in 1 .. n : b[i] \in Chars \cup {Nul}
    BY <1>1, <1>2 DEF Cells
  <2>2. 1 \in Int /\ n \in Int
    BY <1>1
  <2> QED
    BY <1>1, <2>1, <2>2, SubSeqProperties
<1>12. \A i \in 1 .. n : SubSeq(b, 1, n)[i] = m[i]
  <2>1. \A i \in 1 .. n : i \in Cells /\ i <= n
    BY <1>1 DEF Cells
  <2>2. \A i \in 1 .. n : b[i] = m[i]
    BY <1>2, <2>1
  <2> QED
    BY <1>11, <2>2
<1>13. SubSeq(b, 1, n) = m
  <2>1. m \in Seq(Chars \cup {Nul}) /\ Len(m) = n
    BY <1>1 DEF n
  <2> QED
    BY <1>11, <1>12, <2>1, SeqEqual
<1> QED
  BY <1>9, <1>13 DEF b

-----------------------------------------------------------------------------
LEMMA InHandStep ==
  ASSUME NEW w \in Workers, Workers = {w}, InHand(w), [Next]_vars
  PROVE  InHand(w)'
<1> USE DEF InHand, At, Goto
<1>1. CASE Clear(w)
  BY <1>1 DEF Clear
<1>2. CASE Read(w)
  <2>1. PICK m \in Messages :
          /\ sent' = [sent EXCEPT ![w] = m]
          /\ buffer' = [i \in Cells |-> IF i <= Len(m) THEN m[i] ELSE buffer[i]]
    BY <1>2 DEF Read
  <2>2. m \in Seq(Chars)
    BY MessageIsSeq
  <2>3. \A i \in Cells : buffer[i] = Nul
    BY <1>2 DEF Read, Blank
  <2>4. buffer' = Filled(m)
    BY <2>1, <2>3 DEF Filled
  <2> QED
    BY <1>2, <2>1, <2>2, <2>4 DEF Read
<1>3. CASE CopyTooLong(w)
  BY <1>3 DEF CopyTooLong
<1>4. CASE Copy(w)
  <2>1. sent[w] \in Messages /\ CString(buffer) = sent[w]
    BY <1>4, CStringOfFilled DEF Copy
  <2>2. CString(buffer) \in Seq(Chars \cup {Nul})
    BY <2>1, MessageIsSeq
  <2> QED
    BY <1>4, <2>1, <2>2 DEF Copy
<1>5. CASE Execute(w)
  BY <1>5 DEF Execute
<1>6. CASE UNCHANGED vars
  BY <1>6 DEF vars
<1> QED
  BY <1>1, <1>2, <1>3, <1>4, <1>5, <1>6 DEF Next

(* With one worker, the string taken out of the array is the message its   *)
(* client sent, whatever was in the array before and whatever its length:  *)
(* memset leaves no rest, and a message that fills the array is dropped.   *)
THEOREM SoleWorkerExecutesOwn ==
  ASSUME NEW w \in Workers, Workers = {w}
  PROVE  Spec => []ExecutesOwnMessage
<1>1. Init => InHand(w)
  <2>1. <<>> \in Seq(Chars) /\ <<>> \in Seq(Chars \cup {Nul})
    BY EmptySeq
  <2> QED
    BY <2>1 DEF Init, InHand
<1>2. InHand(w) /\ [Next]_vars => InHand(w)'
  BY InHandStep
<1>3. InHand(w) => ExecutesOwnMessage
  BY DEF InHand, ExecutesOwnMessage, At
<1> QED
  BY <1>1, <1>2, <1>3, PTL DEF Spec
=============================================================================
