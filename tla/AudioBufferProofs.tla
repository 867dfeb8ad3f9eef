------------------------- MODULE AudioBufferProofs -------------------------
(***************************************************************************)
(* Theorems about AudioBuffer: for any recordings and any size of the      *)
(* buffer that PortAudio asks for.                                         *)
(***************************************************************************)
EXTENDS AudioBuffer, SequenceTheorems, TLAPS

-----------------------------------------------------------------------------
(* The inductive invariant, in named parts.                                *)

(* How many samples have been played and erased.                           *)
Erased == Len(played) - Len(playing)

(* What is being inserted is being inserted, and nothing else is lost.     *)
InsertionOK == place # "insert" => insertion = <<>>

(* What was received is what has been erased, the buffer and what is being *)
(* inserted; the samples that an erasure has moved already are those that  *)
(* come behind what is being played.                                       *)
Meet ==
  /\ Len(playing) <= Len(audioBuffer)
  /\ moved <= Kept /\ (playing = <<>> => moved = 0)
  /\ Erased >= 0
  /\ Len(received) = Erased + Len(audioBuffer) + Len(insertion)
  /\ \A i \in moved + 1 .. Len(audioBuffer) : received[Erased + i] = audioBuffer[i]
  /\ \A i \in 1 .. moved : received[Erased + Len(playing) + i] = audioBuffer[i]
  /\ \A i \in 1 .. Len(insertion) : received[Erased + Len(audioBuffer) + i] = insertion[i]
  /\ \A i \in 1 .. Len(played) : played[i] = received[i]

(* The file is the buffer as long as no callback has moved its samples or  *)
(* made it shorter.                                                        *)
Writing ==
  place = "save" =>
    /\ onDisk /\ Len(audioBuffer) <= count
    /\ Len(audioBuffer) = count /\ moved = 0 => \A i \in 1 .. Len(wav) : wav[i] = audioBuffer[i]

(* The file is the end of what was received.                               *)
Ending ==
  LET k == Len(received) - Len(wav)
  IN  k >= 0 /\ Len(played) >= k /\ \A i \in 1 .. Len(wav) : wav[i] = received[k + i]

SavedOK == place = "close" \/ answer = "saved" => onDisk /\ (~raced /\ ~mixed => Ending)

IInv ==
  /\ TypeOK /\ InsertionOK /\ (~raced => Meet) /\ Writing /\ SavedOK
  /\ FailedLeavesNothing

-----------------------------------------------------------------------------
(* A part of a sequence, element by element.                               *)
LEMMA Part ==
  ASSUME NEW S, NEW s \in Seq(S), NEW m \in 1 .. Len(s) + 1, NEW n \in 0 .. Len(s)
  PROVE  /\ SubSeq(s, m, n) \in Seq(S)
         /\ Len(SubSeq(s, m, n)) = IF m <= n THEN n - m + 1 ELSE 0
         /\ \A i \in 1 .. n - m + 1 : SubSeq(s, m, n)[i] = s[m + i - 1]
<1>1. Len(s) \in Nat
  BY LenProperties
<1>2. \A i \in m .. n : s[i] \in S
  BY <1>1, ElementOfSeq
<1>3. m \in Int /\ n \in Int
  BY <1>1
<1> QED
  BY <1>2, <1>3, SubSeqProperties

-----------------------------------------------------------------------------
(* Type correctness.                                                       *)

LEMMA InitType ==
  ASSUME Init
  PROVE  TypeOK
<1>1. recording \in Seq(Frames) /\ EndMark \in Frames
  <2>1. <<>> \in Seq(Samples)
    OBVIOUS
  <2> QED
    BY <2>1, AudioAssumption DEF Init, EndMark, Frame, Frames
<1>2. incoming \in Seq(Frames)
  BY <1>1, AppendProperties DEF Init
<1>3. /\ audioBuffer \in Seq(Samples) /\ insertion \in Seq(Samples) /\ playing \in Seq(Samples)
      /\ wav \in Seq(Samples) /\ received \in Seq(Samples) /\ played \in Seq(Samples)
  BY EmptySeq DEF Init
<1>4. Len(playing) <= FramesPerBuffer /\ Len(wav) <= count
  <2>1. playing = <<>> /\ wav = <<>> /\ count = 0 /\ Len(<<>>) = 0
    BY DEF Init
  <2> QED
    BY <2>1, AudioAssumption
<1>5. /\ recording \in Recordings /\ ending \in Endings /\ lost \in BOOLEAN
      /\ stream \in {"null", "open", "running", "closed"} /\ raced \in BOOLEAN
      /\ moved \in Nat /\ mixed \in BOOLEAN /\ count \in Nat /\ onDisk \in BOOLEAN
  BY DEF Init
<1>6. place = "init" /\ answer = ""
  BY DEF Init
<1> QED
  BY <1>2, <1>3, <1>4, <1>5, <1>6 DEF TypeOK

LEMMA TypeStep ==
  ASSUME TypeOK, [Next]_vars
  PROVE  TypeOK'
<1>1. CASE Disappear
  <2>1. PICK n \in 0 .. Len(incoming) - 1 : incoming' = SubSeq(incoming, 1, n)
    BY <1>1 DEF Disappear
  <2>2. incoming \in Seq(Frames) /\ Len(incoming) \in Nat
    BY LenProperties DEF TypeOK
  <2>3. 1 \in 1 .. Len(incoming) + 1 /\ n \in 0 .. Len(incoming)
    BY <2>1, <2>2
  <2>4. incoming' \in Seq(Frames)
    BY <2>1, <2>2, <2>3, Part
  <2> QED
    BY <1>1, <2>4 DEF Disappear, TypeOK
<1>2. CASE InitAudio \/ StartPlayback
  BY <1>2 DEF InitAudio, StartPlayback, Goto, TypeOK, callback
<1>3. CASE ReceiveFrame
  <2>1. incoming \in Seq(Frames) /\ incoming # <<>> /\ received \in Seq(Samples)
    BY <1>3 DEF ReceiveFrame, TypeOK
  <2>2. Head(incoming) \in Frames /\ Tail(incoming) \in Seq(Frames)
    BY <2>1, HeadTailProperties
  <2>3. Head(incoming).samples \in Seq(Samples)
    BY <2>2 DEF Frames
  <2>4. received \o Head(incoming).samples \in Seq(Samples)
    BY <2>1, <2>3, ConcatProperties
  <2> QED
    BY <1>3, <2>2, <2>3, <2>4 DEF ReceiveFrame, Goto, TypeOK, callback
<1>4. CASE AddAudioData
  <2>1. audioBuffer \o insertion \in Seq(Samples)
    BY ConcatProperties DEF TypeOK
  <2>2. audioBuffer' \in Seq(Samples) /\ raced' \in BOOLEAN
    BY <1>4, <2>1 DEF AddAudioData, TypeOK
  <2>3. insertion' = <<>> /\ <<>> \in Seq(Samples)
    BY <1>4 DEF AddAudioData
  <2> QED
    BY <1>4, <2>2, <2>3 DEF AddAudioData, Goto, TypeOK, callback
<1>5. CASE OpenFile
  <2>1. Tail(incoming) \in Seq(Frames) /\ Len(audioBuffer) \in Nat
    BY <1>5, HeadTailProperties, LenProperties DEF OpenFile, TypeOK
  <2>2. wav' \in Seq(Samples) /\ Len(wav') <= count' /\ count' \in Nat
    BY <1>5, <2>1, EmptySeq DEF OpenFile
  <2> QED
    BY <1>5, <2>1, <2>2 DEF OpenFile, Goto, TypeOK, callback
<1>6. CASE SaveSample
  <2> DEFINE i == Len(wav) + 1
             e == IF i <= Len(audioBuffer) THEN audioBuffer[i] ELSE 0
  <2>1. wav \in Seq(Samples) /\ audioBuffer \in Seq(Samples) /\ Len(wav) \in Nat /\ Len(audioBuffer) \in Nat
        /\ count \in Nat /\ Len(wav) < count
    BY <1>6, LenProperties DEF SaveSample, TypeOK
  <2>2. e \in Samples
    BY <2>1, ElementOfSeq DEF Samples
  <2>3. wav' = Append(wav, e)
    BY <1>6 DEF SaveSample
  <2>4. wav' \in Seq(Samples) /\ Len(wav') = Len(wav) + 1
    BY <2>1, <2>2, <2>3, AppendProperties
  <2>5. Len(wav') <= count' /\ count' \in Nat
    BY <1>6, <2>1, <2>4 DEF SaveSample
  <2> QED
    BY <1>6, <2>4, <2>5 DEF SaveSample, TypeOK, callback
<1>7. CASE CheckSize \/ ReadFails
  BY <1>7 DEF CheckSize, ReadFails, GiveUp, TypeOK, callback
<1>8. CASE CloseAudio
  BY <1>8 DEF CloseAudio, Goto, TypeOK, callback
<1>9. CASE PlaySamples
  <2> DEFINE n == IF Len(audioBuffer) < FramesPerBuffer THEN Len(audioBuffer) ELSE FramesPerBuffer
  <2>1. audioBuffer \in Seq(Samples) /\ Len(audioBuffer) \in Nat /\ FramesPerBuffer \in Nat \ {0}
        /\ played \in Seq(Samples)
    BY LenProperties, AudioAssumption DEF TypeOK
  <2>2. 1 \in 1 .. Len(audioBuffer) + 1 /\ n \in 0 .. Len(audioBuffer) /\ n <= FramesPerBuffer /\ n \in Nat
    BY <2>1
  <2>3. playing' = SubSeq(audioBuffer, 1, n)
    BY <1>9 DEF PlaySamples
  <2>4. playing' \in Seq(Samples) /\ Len(playing') = n
    BY <2>1, <2>2, <2>3, Part
  <2>5. played' \in Seq(Samples)
    BY <1>9, <2>1, <2>4, ConcatProperties DEF PlaySamples
  <2> QED
    BY <1>9, <2>2, <2>4, <2>5 DEF PlaySamples, TypeOK, worker
<1>10. CASE MoveSample
  <2> DEFINE e == audioBuffer[Len(playing) + moved + 1]
  <2>1. /\ audioBuffer \in Seq(Samples) /\ Len(audioBuffer) \in Nat /\ Len(playing) \in Nat
        /\ moved \in Nat /\ moved < Len(audioBuffer) - Len(playing)
    BY <1>10, LenProperties DEF MoveSample, Kept, TypeOK
  <2>2. e \in Samples
    <3>1. Len(playing) + moved + 1 \in 1 .. Len(audioBuffer)
      BY <2>1
    <3> QED
      BY <2>1, <3>1, ElementOfSeq
  <2>3. audioBuffer' = [audioBuffer EXCEPT ![moved + 1] = e]
    BY <1>10 DEF MoveSample
  <2>4. audioBuffer' \in Seq(Samples)
    BY <2>1, <2>2, <2>3, ExceptSeq
  <2>5. moved' \in Nat
    BY <1>10, <2>1 DEF MoveSample
  <2>6. UNCHANGED <<recording, ending, lost, stream, playing, raced, mixed, played, worker>>
    BY <1>10 DEF MoveSample
  <2> HIDE DEF e
  <2> QED
    BY <2>4, <2>5, <2>6 DEF TypeOK, worker
<1>11. CASE LowerSize
  <2> DEFINE rest == SubSeq(audioBuffer, 1, Kept)
  <2>1. audioBuffer \in Seq(Samples) /\ Len(audioBuffer) \in Nat /\ Len(playing) \in Nat
    BY LenProperties DEF TypeOK
  <2>2. rest \in Seq(Samples)
    BY <2>1 DEF Kept
  <2>3. audioBuffer' \in Seq(Samples) /\ raced' \in BOOLEAN
    BY <1>11, <2>2 DEF LowerSize, TypeOK
  <2>4. playing' \in Seq(Samples) /\ Len(playing') <= FramesPerBuffer /\ moved' \in Nat
    BY <1>11, EmptySeq, AudioAssumption DEF LowerSize
  <2> QED
    BY <1>11, <2>3, <2>4 DEF LowerSize, TypeOK, worker
<1>12. CASE UNCHANGED vars
  BY <1>12 DEF vars, TypeOK
<1> QED
  BY <1>1, <1>2, <1>3, <1>4, <1>5, <1>6, <1>7, <1>8, <1>9, <1>10, <1>11, <1>12 DEF Next, Worker

(* Buffer, file and worker keep their shape; a callback never takes more   *)
(* than PortAudio asks for, nor the file more than the size it was given.  *)
THEOREM AudioTypeOK == Spec => []TypeOK
  BY InitType, TypeStep, PTL DEF Spec

-----------------------------------------------------------------------------
(* The buffer, the callback and the file.                                  *)

LEMMA Lengths ==
  ASSUME TypeOK
  PROVE  /\ Len(audioBuffer) \in Nat /\ Len(insertion) \in Nat /\ Len(playing) \in Nat
         /\ Len(wav) \in Nat /\ Len(received) \in Nat /\ Len(played) \in Nat
BY LenProperties DEF TypeOK

LEMMA InsertionStep ==
  ASSUME InsertionOK, [Next]_vars
  PROVE  InsertionOK'
BY DEF InsertionOK, Next, vars, Disappear, Worker, InitAudio, StartPlayback, ReceiveFrame, AddAudioData,
       OpenFile, SaveSample, CheckSize, GiveUp, CloseAudio, ReadFails, PlaySamples, MoveSample, LowerSize, Goto,
       worker, callback

SameSamples == UNCHANGED <<audioBuffer, insertion, playing, moved, played, received>>

(* What is received is on its way to the buffer.                           *)
LEMMA ReceiveMeet ==
  ASSUME TypeOK, InsertionOK, Meet, ReceiveFrame
  PROVE  Meet'
<1>0. moved \in Nat
  BY DEF TypeOK
<1>1. incoming \in Seq(Frames) /\ incoming # <<>> /\ received \in Seq(Samples)
  BY DEF ReceiveFrame, TypeOK
<1>2. Head(incoming).samples \in Seq(Samples)
  <2>1. Head(incoming) \in Frames
    BY <1>1, HeadTailProperties
  <2> QED
    BY <2>1 DEF Frames
<1> DEFINE new == Head(incoming).samples
<1> HIDE DEF new
<1>3. /\ insertion = <<>> /\ insertion' = new /\ received' = received \o new
      /\ UNCHANGED <<audioBuffer, playing, moved, played>>
  BY DEF ReceiveFrame, InsertionOK, Goto, callback, new
<1>4. Len(insertion) = 0 /\ Len(new) \in Nat
  BY <1>2, <1>3, LenProperties DEF new
<1>5. /\ Len(received') = Len(received) + Len(new)
      /\ \A i \in 1 .. Len(received) : received'[i] = received[i]
      /\ \A i \in 1 .. Len(new) : received'[Len(received) + i] = new[i]
  <2>1. new \in Seq(Samples)
    BY <1>2 DEF new
  <2>2. Len(received) \in Nat
    BY <1>1, LenProperties
  <2>3. /\ Len(received \o new) = Len(received) + Len(new)
        /\ \A i \in 1 .. Len(received) + Len(new) :
             (received \o new)[i] = IF i <= Len(received) THEN received[i] ELSE new[i - Len(received)]
    BY <1>1, <2>1, ConcatProperties
  <2> QED
    BY <1>3, <1>4, <2>2, <2>3
<1>6. Erased \in Nat /\ Erased' = Erased
  BY <1>3, Lengths DEF Meet, Erased
<1>7. Len(received) = Erased + Len(audioBuffer)
  BY <1>4, <1>6, Lengths DEF Meet
<1>8. ASSUME NEW i \in moved' + 1 .. Len(audioBuffer')
      PROVE  received'[Erased' + i] = audioBuffer'[i]
  <2>1. Erased + i \in 1 .. Len(received) /\ i \in moved + 1 .. Len(audioBuffer)
    BY <1>0, <1>3, <1>6, <1>7, <1>8, Lengths
  <2> QED
    BY <1>3, <1>5, <1>6, <2>1 DEF Meet
<1>9. ASSUME NEW i \in 1 .. moved'
      PROVE  received'[Erased' + Len(playing') + i] = audioBuffer'[i]
  <2>1. Erased + Len(playing) + i \in 1 .. Len(received) /\ i \in 1 .. moved
    BY <1>0, <1>3, <1>6, <1>7, <1>9, Lengths DEF Meet, Kept
  <2> QED
    BY <1>3, <1>5, <1>6, <2>1 DEF Meet
<1>10. ASSUME NEW i \in 1 .. Len(played')
       PROVE  played'[i] = received'[i]
  <2>1. Len(played) <= Len(received) /\ i \in 1 .. Len(received)
    BY <1>3, <1>6, <1>7, <1>10, Lengths DEF Meet, Erased
  <2> QED
    BY <1>3, <1>5, <1>10, <2>1 DEF Meet
<1>11. \A i \in 1 .. Len(insertion') : received'[Erased' + Len(audioBuffer') + i] = insertion'[i]
  BY <1>3, <1>5, <1>6, <1>7
<1>12. Len(received') = Erased' + Len(audioBuffer') + Len(insertion')
  BY <1>3, <1>5, <1>6, <1>7
<1>13. Len(playing') <= Len(audioBuffer') /\ moved' <= Kept' /\ (playing' = <<>> => moved' = 0)
  BY <1>3 DEF Meet, Kept
<1> QED
  BY <1>6, <1>8, <1>9, <1>10, <1>11, <1>12, <1>13 DEF Meet

(* Without an overlap, the buffer grows by what is inserted.               *)
LEMMA AddMeet ==
  ASSUME TypeOK, Meet, AddAudioData, ~raced'
  PROVE  Meet'
<1>1. /\ audioBuffer' = audioBuffer \o insertion /\ insertion' = <<>> /\ playing = <<>>
      /\ UNCHANGED <<playing, moved, played, received>>
  BY DEF AddAudioData, callback
<1>2. /\ Len(audioBuffer') = Len(audioBuffer) + Len(insertion) /\ Len(insertion') = 0
      /\ \A i \in 1 .. Len(audioBuffer) + Len(insertion) :
           audioBuffer'[i] = IF i <= Len(audioBuffer) THEN audioBuffer[i] ELSE insertion[i - Len(audioBuffer)]
  BY <1>1, ConcatProperties DEF TypeOK
<1>3. Erased \in Int /\ Erased' = Erased /\ moved = 0 /\ Len(playing) = 0
  BY <1>1, Lengths DEF Erased, Meet
<1>4. ASSUME NEW i \in moved' + 1 .. Len(audioBuffer')
      PROVE  received'[Erased' + i] = audioBuffer'[i]
  <2>1. CASE i <= Len(audioBuffer)
    <3>1. i \in moved + 1 .. Len(audioBuffer)
      BY <1>1, <1>3, <1>4, <2>1, Lengths
    <3> QED
      BY <1>1, <1>2, <1>3, <3>1, Lengths DEF Meet
  <2>2. CASE i > Len(audioBuffer)
    <3>1. i - Len(audioBuffer) \in 1 .. Len(insertion)
      BY <1>1, <1>2, <1>3, <1>4, <2>2, Lengths
    <3>2. Erased + Len(audioBuffer) + (i - Len(audioBuffer)) = Erased + i
      BY <1>3, Lengths
    <3>3. received[Erased + Len(audioBuffer) + (i - Len(audioBuffer))] = insertion[i - Len(audioBuffer)]
      BY <3>1 DEF Meet
    <3>4. audioBuffer'[i] = insertion[i - Len(audioBuffer)]
      BY <1>1, <1>2, <1>3, <1>4, <2>2, Lengths
    <3> QED
      BY <1>1, <1>3, <3>2, <3>3, <3>4
  <2> QED
    BY <1>1, <1>2, <1>3, <2>1, <2>2, Lengths
<1>5. /\ moved' = 0 /\ Len(playing') = 0 /\ Len(playing') <= Len(audioBuffer') /\ moved' <= Kept'
  BY <1>1, <1>2, <1>3, Lengths DEF Kept
<1>6. Len(received') = Erased' + Len(audioBuffer') + Len(insertion') /\ Erased' >= 0
  BY <1>1, <1>2, <1>3, Lengths DEF Meet
<1>7. \A i \in 1 .. Len(played') : played'[i] = received'[i]
  BY <1>1 DEF Meet
<1> QED
  BY <1>2, <1>4, <1>5, <1>6, <1>7 DEF Meet

(* What is heard next is what was received next.                           *)
LEMMA PlayMeet ==
  ASSUME TypeOK, Meet, PlaySamples
  PROVE  Meet'
<1> DEFINE n == IF Len(audioBuffer) < FramesPerBuffer THEN Len(audioBuffer) ELSE FramesPerBuffer
<1>1. n \in 0 .. Len(audioBuffer) /\ n \in Nat /\ audioBuffer \in Seq(Samples)
  <2>1. audioBuffer \in Seq(Samples)
    BY DEF TypeOK
  <2> QED
    BY <2>1, Lengths, AudioAssumption
<1>2. /\ playing = <<>> /\ playing' = SubSeq(audioBuffer, 1, n) /\ played' = played \o playing'
      /\ moved = 0 /\ UNCHANGED <<audioBuffer, moved, insertion, received>>
  BY DEF PlaySamples, worker, Meet
<1> HIDE DEF n
<1>3. /\ playing' \in Seq(Samples) /\ Len(playing') = n
      /\ \A i \in 1 .. n : playing'[i] = audioBuffer[i]
  <2>1. 1 \in 1 .. Len(audioBuffer) + 1
    BY Lengths
  <2>2. /\ playing' \in Seq(Samples) /\ Len(playing') = IF 1 <= n THEN n - 1 + 1 ELSE 0
        /\ \A i \in 1 .. n - 1 + 1 : playing'[i] = audioBuffer[1 + i - 1]
    BY <1>1, <1>2, <2>1, Part
  <2> QED
    BY <1>1, <2>2
<1>4. /\ Len(played') = Len(played) + n
      /\ \A i \in 1 .. Len(played) + n : played'[i] = IF i <= Len(played) THEN played[i] ELSE playing'[i - Len(played)]
  <2>1. played \in Seq(Samples)
    BY DEF TypeOK
  <2> QED
    BY <1>2, <1>3, <2>1, ConcatProperties
<1>5. Len(playing) = 0 /\ Erased = Len(played) /\ Erased' = Len(played)
  BY <1>1, <1>2, <1>3, <1>4, Lengths DEF Erased
<1>6. ASSUME NEW i \in 1 .. Len(played')
      PROVE  played'[i] = received'[i]
  <2>1. CASE i <= Len(played)
    BY <1>1, <1>2, <1>4, <1>6, <2>1, Lengths DEF Meet
  <2>2. CASE i > Len(played)
    <3>1. i - Len(played) \in 1 .. n /\ i - Len(played) \in moved + 1 .. Len(audioBuffer)
      BY <1>1, <1>2, <1>4, <1>6, <2>2, Lengths
    <3>2. received[Erased + (i - Len(played))] = audioBuffer[i - Len(played)]
      BY <3>1 DEF Meet
    <3>3. Erased + (i - Len(played)) = i
      BY <1>4, <1>1, <1>5, <1>6, Lengths
    <3> QED
      BY <1>1, <1>2, <1>3, <1>4, <1>6, <2>2, <3>1, <3>2, <3>3, Lengths
  <2> QED
    BY <1>1, <1>4, <2>1, <2>2, Lengths
<1>7. /\ Len(playing') <= Len(audioBuffer') /\ moved' = 0 /\ moved' <= Kept'
  BY <1>1, <1>2, <1>3, Lengths DEF Kept
<1>8. \A i \in moved' + 1 .. Len(audioBuffer') : received'[Erased' + i] = audioBuffer'[i]
  BY <1>2, <1>5 DEF Meet
<1>9. \A i \in 1 .. Len(insertion') : received'[Erased' + Len(audioBuffer') + i] = insertion'[i]
  BY <1>2, <1>5 DEF Meet
<1>10. Erased' >= 0 /\ Len(received') = Erased' + Len(audioBuffer') + Len(insertion')
  BY <1>2, <1>5, Lengths DEF Meet
<1> QED
  BY <1>6, <1>7, <1>8, <1>9, <1>10 DEF Meet

(* A sample that is moved is the one that comes behind what is played.     *)
LEMMA MoveMeet ==
  ASSUME TypeOK, Meet, MoveSample
  PROVE  Meet'
<1> DEFINE m == Len(playing)
           e == audioBuffer[m + moved + 1]
<1>1. /\ audioBuffer \in Seq(Samples) /\ m \in Nat /\ moved \in Nat /\ Len(audioBuffer) \in Nat
      /\ moved < Len(audioBuffer) - m /\ playing # <<>>
  BY Lengths DEF MoveSample, TypeOK, Kept
<1>2. m > 0
  <2>1. playing \in Seq(Samples)
    BY DEF TypeOK
  <2> QED
    BY <1>1, <2>1, EmptySeq
<1>3. /\ audioBuffer' = [audioBuffer EXCEPT ![moved + 1] = e] /\ moved' = moved + 1
      /\ UNCHANGED <<playing, insertion, played, received>>
  BY DEF MoveSample, worker
<1>4. e \in Samples
  <2>1. m + moved + 1 \in 1 .. Len(audioBuffer)
    BY <1>1
  <2> QED
    BY <1>1, <2>1, ElementOfSeq
<1> HIDE DEF e
<1>5. /\ Len(audioBuffer') = Len(audioBuffer)
      /\ \A i \in 1 .. Len(audioBuffer) : audioBuffer'[i] = IF i = moved + 1 THEN e ELSE audioBuffer[i]
  <2>1. moved + 1 \in 1 .. Len(audioBuffer)
    BY <1>1, <1>2
  <2> QED
    BY <1>1, <1>3, <1>4, <2>1, ExceptSeq
<1>6. Erased' = Erased /\ Erased \in Int
  BY <1>3, Lengths DEF Erased
<1>7. \A i \in moved' + 1 .. Len(audioBuffer') : received'[Erased' + i] = audioBuffer'[i]
  BY <1>1, <1>3, <1>5, <1>6 DEF Meet
<1>8. ASSUME NEW i \in 1 .. moved'
      PROVE  received'[Erased' + Len(playing') + i] = audioBuffer'[i]
  <2>1. CASE i = moved + 1
    <3>1. m + moved + 1 \in moved + 1 .. Len(audioBuffer)
      BY <1>1
    <3>2. received[Erased + (m + moved + 1)] = e
      BY <3>1 DEF Meet, e
    <3>3. Erased + (m + moved + 1) = Erased + m + i
      BY <1>1, <1>6, <2>1
    <3> QED
      BY <1>1, <1>2, <1>3, <1>5, <1>6, <2>1, <3>2, <3>3
  <2>2. CASE i # moved + 1
    <3>1. i \in 1 .. moved /\ i \in 1 .. Len(audioBuffer)
      BY <1>1, <1>3, <1>8, <2>2
    <3>2. received[Erased + m + i] = audioBuffer[i]
      BY <3>1 DEF Meet
    <3> QED
      BY <1>3, <1>5, <1>6, <2>2, <3>1, <3>2
  <2> QED
    BY <2>1, <2>2
<1>9. Len(playing') <= Len(audioBuffer') /\ moved' <= Kept' /\ (playing' = <<>> => moved' = 0)
  BY <1>1, <1>3, <1>5 DEF Kept
<1>10. Erased' >= 0 /\ Len(received') = Erased' + Len(audioBuffer') + Len(insertion')
  BY <1>3, <1>5, <1>6 DEF Meet
<1>11. \A i \in 1 .. Len(insertion') : received'[Erased' + Len(audioBuffer') + i] = insertion'[i]
  BY <1>3, <1>5, <1>6 DEF Meet
<1>12. \A i \in 1 .. Len(played') : played'[i] = received'[i]
  BY <1>3 DEF Meet
<1> QED
  BY <1>7, <1>8, <1>9, <1>10, <1>11, <1>12 DEF Meet

(* What is erased is what has been played, as long as nothing overlaps.    *)
LEMMA LowerMeet ==
  ASSUME TypeOK, Meet, LowerSize, ~raced'
  PROVE  Meet'
<1> DEFINE m == Len(playing)
<1>1. m \in Nat /\ m <= Len(audioBuffer) /\ audioBuffer \in Seq(Samples) /\ moved \in Nat
  BY Lengths DEF TypeOK, Meet
<1>2. /\ audioBuffer' = SubSeq(audioBuffer, 1, Kept) /\ playing' = <<>> /\ moved' = 0
      /\ moved >= Kept /\ UNCHANGED <<insertion, played, received>>
  BY DEF LowerSize, worker
<1>3. Kept = Len(audioBuffer) - m /\ moved = Len(audioBuffer) - m
  BY <1>1, <1>2, Lengths DEF Kept, Meet
<1>4. Erased \in Int /\ Erased' = Erased + m /\ Len(playing') = 0
  BY <1>2, Lengths DEF Erased
<1> HIDE DEF m
<1>5. /\ Len(audioBuffer') = Len(audioBuffer) - m
      /\ \A i \in 1 .. Len(audioBuffer) - m : audioBuffer'[i] = audioBuffer[i]
  <2>1. 1 \in 1 .. Len(audioBuffer) + 1 /\ Kept \in 0 .. Len(audioBuffer)
    BY <1>1, <1>3, Lengths
  <2>2. /\ Len(audioBuffer') = IF 1 <= Kept THEN Kept - 1 + 1 ELSE 0
        /\ \A i \in 1 .. Kept - 1 + 1 : audioBuffer'[i] = audioBuffer[1 + i - 1]
    BY <1>1, <1>2, <2>1, Part
  <2> QED
    BY <1>1, <1>3, <2>2, Lengths
<1>6. ASSUME NEW i \in moved' + 1 .. Len(audioBuffer')
      PROVE  received'[Erased' + i] = audioBuffer'[i]
  <2>1. i \in 1 .. moved /\ i \in 1 .. Len(audioBuffer) - m
    BY <1>1, <1>2, <1>3, <1>5, <1>6, Lengths
  <2>2. received[Erased + m + i] = audioBuffer[i]
    BY <2>1 DEF Meet, m
  <2> QED
    BY <1>2, <1>4, <1>5, <2>1, <2>2
<1>7. Erased' + Len(audioBuffer') = Erased + Len(audioBuffer)
  BY <1>1, <1>4, <1>5, Lengths
<1>8. ASSUME NEW i \in 1 .. Len(insertion')
      PROVE  received'[Erased' + Len(audioBuffer') + i] = insertion'[i]
  <2>1. received[Erased + Len(audioBuffer) + i] = insertion[i]
    BY <1>2, <1>8 DEF Meet
  <2> QED
    BY <1>2, <1>7, <2>1
<1>9. Erased' >= 0 /\ Len(received') = Erased' + Len(audioBuffer') + Len(insertion')
  <2>1. Len(received) = Erased + Len(audioBuffer) + Len(insertion) /\ Erased >= 0
    BY DEF Meet
  <2>2. Len(received') = Len(received) /\ Len(insertion') = Len(insertion)
    BY <1>2
  <2>3. Erased' >= 0
    BY <1>1, <1>4, <2>1
  <2> QED
    BY <1>7, <2>1, <2>2, <2>3
<1>10. \A i \in 1 .. Len(played') : played'[i] = received'[i]
  BY <1>2 DEF Meet
<1>11. Len(playing') <= Len(audioBuffer') /\ moved' = 0 /\ moved' <= Kept'
  BY <1>1, <1>2, <1>4, <1>5, Lengths DEF Kept
<1>12. \A i \in 1 .. moved' : received'[Erased' + Len(playing') + i] = audioBuffer'[i]
  BY <1>2
<1> QED
  BY <1>6, <1>8, <1>9, <1>10, <1>11, <1>12 DEF Meet

LEMMA MeetStep ==
  ASSUME TypeOK, InsertionOK, ~raced => Meet, [Next]_vars, ~raced'
  PROVE  Meet'
<1>1. ~raced
  BY DEF Next, vars, Disappear, Worker, InitAudio, StartPlayback, ReceiveFrame, AddAudioData,
         OpenFile, SaveSample, CheckSize, CloseAudio, ReadFails, PlaySamples, MoveSample, LowerSize
<1>2. CASE ReceiveFrame
  BY <1>1, <1>2, ReceiveMeet
<1>3. CASE AddAudioData
  BY <1>1, <1>3, AddMeet
<1>4. CASE PlaySamples
  BY <1>1, <1>4, PlayMeet
<1>5. CASE MoveSample
  BY <1>1, <1>5, MoveMeet
<1>6. CASE LowerSize
  BY <1>1, <1>6, LowerMeet
<1>7. CASE Disappear \/ InitAudio \/ StartPlayback \/ OpenFile \/ SaveSample \/ CheckSize \/ CloseAudio
           \/ ReadFails \/ UNCHANGED vars
  <2>1. SameSamples
    BY <1>7 DEF SameSamples, Disappear, InitAudio, StartPlayback, OpenFile, SaveSample, CheckSize,
                CloseAudio, ReadFails, vars, callback
  <2> QED
    BY <1>1, <2>1 DEF SameSamples, Meet, Erased, Kept
<1> QED
  BY <1>2, <1>3, <1>4, <1>5, <1>6, <1>7 DEF Next, Worker

(* While the file is written the callback can only make the buffer shorter *)
(* than the count; then the file is given up.                              *)
LEMMA WritingStep ==
  ASSUME TypeOK, Writing, [Next]_vars
  PROVE  Writing'
<1>1. CASE OpenFile
  <2>1. onDisk' /\ Len(audioBuffer') <= count' /\ wav' = <<>>
    BY <1>1, Lengths DEF OpenFile
  <2>2. Len(wav') = 0
    BY <2>1
  <2>3. \A i \in 1 .. Len(wav') : wav'[i] = audioBuffer'[i]
    BY <2>2
  <2> QED
    BY <2>1, <2>3 DEF Writing
<1>2. CASE SaveSample
  <2> DEFINE e == IF Len(wav) + 1 <= Len(audioBuffer) THEN audioBuffer[Len(wav) + 1] ELSE 0
  <2>1. /\ place = "save" /\ Len(wav) < count /\ UNCHANGED <<place, audioBuffer, moved, count, onDisk>>
        /\ wav' = Append(wav, e) /\ wav \in Seq(Samples) /\ count \in Nat
    BY <1>2 DEF SaveSample, TypeOK, callback
  <2>2. e \in Samples
    <3>1. audioBuffer \in Seq(Samples)
      BY DEF TypeOK
    <3> QED
      BY <3>1, Lengths, ElementOfSeq DEF Samples
  <2>3. /\ Len(wav') = Len(wav) + 1 /\ wav'[Len(wav) + 1] = e
        /\ \A i \in 1 .. Len(wav) : wav'[i] = wav[i]
    BY <2>1, <2>2, AppendProperties
  <2>4. ASSUME Len(audioBuffer) = count, moved = 0, NEW i \in 1 .. Len(wav')
        PROVE  wav'[i] = audioBuffer[i]
    <3>1. i \in 1 .. Len(wav) \/ i = Len(wav) + 1
      BY <2>3, <2>4, Lengths
    <3>2. e = audioBuffer[Len(wav) + 1]
      BY <2>1, <2>4, Lengths
    <3>3. \A k \in 1 .. Len(wav) : wav[k] = audioBuffer[k]
      BY <2>1, <2>4 DEF Writing
    <3> QED
      BY <2>3, <3>1, <3>2, <3>3
  <2> QED
    BY <2>1, <2>4 DEF Writing
<1>3. CASE MoveSample
  <2>1. /\ moved' = moved + 1 /\ moved \in Nat /\ UNCHANGED <<place, count, onDisk, wav>>
        /\ Len(audioBuffer') = Len(audioBuffer)
    <3>0. audioBuffer \in Seq(Samples) /\ moved \in Nat /\ moved < Len(audioBuffer) - Len(playing)
      BY <1>3 DEF MoveSample, Kept, TypeOK
    <3>1. Len(playing) + moved + 1 \in 1 .. Len(audioBuffer) /\ moved + 1 \in 1 .. Len(audioBuffer)
      BY <3>0, Lengths
    <3>2. audioBuffer[Len(playing) + moved + 1] \in Samples
      BY <3>0, <3>1, ElementOfSeq
    <3>3. Len(audioBuffer') = Len(audioBuffer)
      BY <1>3, <3>0, <3>1, <3>2, ExceptSeq DEF MoveSample
    <3> QED
      BY <1>3, <3>0, <3>3 DEF MoveSample, worker
  <2> QED
    BY <2>1 DEF Writing
<1>4. CASE LowerSize
  <2>1. CASE place = "save"
    <3>1. /\ audioBuffer' = SubSeq(audioBuffer, 1, Kept)
          /\ UNCHANGED <<place, count, onDisk, wav>> /\ playing # <<>>
      BY <1>4, <2>1 DEF LowerSize, worker
    <3>2. Len(playing) > 0
      <4>1. playing \in Seq(Samples)
        BY DEF TypeOK
      <4> QED
        BY <3>1, <4>1, EmptySeq
    <3>3. audioBuffer \in Seq(Samples)
      BY DEF TypeOK
    <3>4. Len(audioBuffer') < Len(audioBuffer) \/ Len(audioBuffer') = 0
      <4>1. CASE 1 <= Kept
        <5>1. 1 \in 1 .. Len(audioBuffer) + 1 /\ Kept \in 0 .. Len(audioBuffer)
          BY <3>2, <4>1, Lengths DEF Kept
        <5>2. Len(audioBuffer') = Kept - 1 + 1
          BY <3>1, <3>3, <4>1, <5>1, Part
        <5> QED
          BY <3>2, <5>2, Lengths DEF Kept
      <4>2. CASE 1 > Kept
        <5>1. audioBuffer' = <<>>
          BY <3>1, <4>2, Lengths, SubSeqEmpty DEF Kept
        <5> QED
          BY <5>1
      <4> QED
        BY <4>1, <4>2, Lengths DEF Kept
    <3>5. /\ Len(audioBuffer) \in Nat /\ Len(wav) \in Nat /\ count \in Nat
          /\ Len(audioBuffer) <= count /\ Len(wav) <= count
      BY <2>1, Lengths DEF Writing, TypeOK
    <3>6. Len(audioBuffer') <= count
      BY <3>4, <3>5
    <3>7. Len(audioBuffer') = count => Len(wav) = 0
      BY <3>4, <3>5
    <3>8. Len(audioBuffer') = count => \A i \in 1 .. Len(wav) : wav[i] = audioBuffer'[i]
      BY <3>7
    <3>9. place' = "save" /\ onDisk' /\ Len(audioBuffer') <= count'
      BY <2>1, <3>1, <3>6 DEF Writing
    <3> QED
      BY <3>1, <3>8, <3>9 DEF Writing
  <2>2. CASE place # "save"
    BY <1>4, <2>2 DEF LowerSize, worker, Writing
  <2> QED
    BY <2>1, <2>2
<1>5. CASE Disappear \/ PlaySamples \/ UNCHANGED vars
  BY <1>5 DEF Disappear, PlaySamples, vars, worker, Writing
<1>6. CASE InitAudio \/ StartPlayback \/ ReceiveFrame \/ AddAudioData \/ CheckSize \/ CloseAudio \/ ReadFails
  BY <1>6 DEF InitAudio, StartPlayback, ReceiveFrame, AddAudioData, CheckSize, GiveUp, CloseAudio,
              ReadFails, Goto, Writing
<1> QED
  BY <1>1, <1>2, <1>3, <1>4, <1>5, <1>6 DEF Next, Worker

(* A file of the same size as the buffer is the buffer, and that is all    *)
(* that has been received but what has been erased.                        *)
LEMMA CheckedFile ==
  ASSUME TypeOK, InsertionOK, Meet, Writing, place = "save", Len(wav) = count, Len(audioBuffer) = count,
         moved = 0
  PROVE  Ending
<1>1. Len(insertion) = 0
  BY DEF InsertionOK
<1>2. Erased \in Nat /\ Len(received) = Erased + Len(wav) /\ Erased <= Len(played)
  BY <1>1, Lengths DEF Meet, Erased
<1>3. Len(received) - Len(wav) = Erased
  BY <1>2, Lengths
<1>4. \A i \in 1 .. Len(wav) : wav[i] = received[Erased + i]
  <2>1. \A i \in 1 .. Len(audioBuffer) : received[Erased + i] = audioBuffer[i]
    BY DEF Meet
  <2> QED
    BY <2>1 DEF Writing
<1> QED
  BY <1>2, <1>3, <1>4 DEF Ending

(* After that, only what has been played grows.                            *)
LEMMA EndingKept ==
  ASSUME TypeOK, TypeOK', Ending, [Next]_vars, UNCHANGED <<wav, received>>
  PROVE  Ending'
<1>1. Len(played') >= Len(played)
  <2>1. CASE PlaySamples
    <3>1. played' = played \o playing' /\ played \in Seq(Samples) /\ playing' \in Seq(Samples)
      BY <2>1 DEF PlaySamples, TypeOK
    <3>2. Len(played') = Len(played) + Len(playing') /\ Len(playing') \in Nat /\ Len(played) \in Nat
      BY <3>1, ConcatProperties, LenProperties
    <3> QED
      BY <3>2
  <2>2. CASE ~PlaySamples
    <3>1. played' = played
      BY <2>2 DEF Next, Worker, Disappear, InitAudio, StartPlayback, ReceiveFrame, AddAudioData, OpenFile,
                  SaveSample, CheckSize, CloseAudio, ReadFails, MoveSample, LowerSize, vars, callback
    <3> QED
      BY <3>1, Lengths
  <2> QED
    BY <2>1, <2>2
<1>2. Len(played') \in Nat
  BY LenProperties DEF TypeOK
<1> QED
  BY <1>1, <1>2, Lengths DEF Ending

LEMMA SavedStep ==
  ASSUME TypeOK, TypeOK', InsertionOK, ~raced => Meet, Writing, SavedOK, [Next]_vars
  PROVE  SavedOK'
<1>1. CASE CheckSize /\ Len(audioBuffer) = count
  <2>1. /\ place = "save" /\ Len(wav) = count /\ UNCHANGED <<onDisk, raced, wav, received, answer>>
        /\ place' = "close" /\ mixed' = (moved # 0)
    BY <1>1 DEF CheckSize
  <2>2. onDisk /\ (~raced /\ ~mixed' => Ending)
    BY <1>1, <2>1, CheckedFile DEF Writing
  <2> QED
    BY <2>1, <2>2, EndingKept DEF SavedOK
<1>2. CASE CheckSize /\ Len(audioBuffer) # count
  BY <1>2 DEF CheckSize, GiveUp, SavedOK
<1>3. CASE ReadFails
  BY <1>3 DEF ReadFails, GiveUp, SavedOK
<1>4. CASE CloseAudio
  <2>1. place = "close" /\ UNCHANGED <<onDisk, raced, mixed, wav, received>>
    BY <1>4 DEF CloseAudio, Goto
  <2> QED
    BY <2>1, EndingKept DEF SavedOK
<1>5. CASE InitAudio \/ StartPlayback \/ ReceiveFrame \/ AddAudioData \/ OpenFile \/ SaveSample
  BY <1>5 DEF InitAudio, StartPlayback, ReceiveFrame, AddAudioData, OpenFile, SaveSample, Goto, SavedOK, TypeOK
<1>6. CASE Disappear \/ PlaySamples \/ MoveSample \/ LowerSize \/ UNCHANGED vars
  <2>1. UNCHANGED <<place, answer, onDisk, mixed, wav, received>> /\ (~raced' => ~raced)
    BY <1>6 DEF Disappear, PlaySamples, MoveSample, LowerSize, vars, worker
  <2> QED
    BY <2>1, EndingKept DEF SavedOK
<1> QED
  BY <1>1, <1>2, <1>3, <1>4, <1>5, <1>6 DEF Next, Worker

LEMMA FailedStep ==
  ASSUME TypeOK, FailedLeavesNothing, [Next]_vars
  PROVE  FailedLeavesNothing'
BY DEF FailedLeavesNothing, TypeOK, Next, vars, Disappear, Worker, InitAudio, StartPlayback, ReceiveFrame,
       AddAudioData, OpenFile, SaveSample, CheckSize, GiveUp, CloseAudio, ReadFails, PlaySamples, MoveSample, LowerSize,
       Goto, worker, callback

LEMMA InitInv ==
  ASSUME Init
  PROVE  IInv
<1>1. /\ audioBuffer = <<>> /\ insertion = <<>> /\ playing = <<>> /\ received = <<>> /\ played = <<>>
      /\ place = "init" /\ answer = "" /\ moved = 0
  BY DEF Init
<1>2. /\ Len(audioBuffer) = 0 /\ Len(insertion) = 0 /\ Len(playing) = 0 /\ Len(received) = 0
      /\ Len(played) = 0
  BY <1>1
<1>3. Erased = 0
  BY <1>2 DEF Erased
<1>4. Meet
  <2>0. Kept = 0
    BY <1>2 DEF Kept
  <2>1. Kept = 0 /\ moved = 0
    BY <2>0 DEF Init
  <2>2. /\ Len(playing) <= Len(audioBuffer) /\ moved <= Kept /\ Erased >= 0
        /\ Len(received) = Erased + Len(audioBuffer) + Len(insertion)
    BY <1>2, <1>3, <2>1
  <2>3. /\ \A i \in moved + 1 .. Len(audioBuffer) : received[Erased + i] = audioBuffer[i]
        /\ \A i \in 1 .. moved : received[Erased + Len(playing) + i] = audioBuffer[i]
        /\ \A i \in 1 .. Len(insertion) : received[Erased + Len(audioBuffer) + i] = insertion[i]
        /\ \A i \in 1 .. Len(played) : played[i] = received[i]
    BY <1>2, <2>1
  <2> QED
    BY <2>1, <2>2, <2>3 DEF Meet
<1> QED
  BY <1>1, <1>4, InitType DEF IInv, InsertionOK, Writing, SavedOK, FailedLeavesNothing

LEMMA InvHolds == Spec => []IInv
<1>1. IInv /\ [Next]_vars => IInv'
  BY TypeStep, InsertionStep, MeetStep, WritingStep, SavedStep, FailedStep DEF IInv
<1> QED
  BY InitInv, <1>1, PTL DEF Spec

(* Callback and worker meet without a lock: what is heard is the beginning *)
(* of what was received, unless an insertion and an erasure overlap.       *)
THEOREM AudioPlayedInOrder == Spec => []PlayedInOrder
<1>1. ASSUME IInv, ~raced
      PROVE  IsPrefix(played, received)
  <2>1. /\ played \in Seq(Samples) /\ received \in Seq(Samples)
        /\ Len(played) \in Nat /\ Len(received) \in Nat
    BY <1>1, Lengths DEF IInv, TypeOK
  <2>2. Len(played) <= Len(received) /\ \A i \in 1 .. Len(played) : played[i] = received[i]
    BY <1>1, Lengths DEF IInv, Meet, Erased
  <2>3. SubSeq(received, 1, Len(played)) = SubSeq(played, 1, Len(played))
    BY <2>1, <2>2
  <2> QED
    BY <2>2, <2>3 DEF IsPrefix
<1> QED
  BY <1>1, InvHolds, PTL DEF PlayedInOrder

(* Of a file ending in ".wav" that is reported as failed nothing is left.  *)
THEOREM AudioFailedLeavesNothing == Spec => []FailedLeavesNothing
<1>1. IInv => FailedLeavesNothing
  BY DEF IInv
<1> QED
  BY <1>1, InvHolds, PTL

(* A file that is reported as saved is the end of what was received, and   *)
(* what came before has been played, although the callback may move the    *)
(* samples while they are written: the sizes then differ, unless they are  *)
(* compared before the callback has lowered the size.                      *)
THEOREM AudioSavedIsRest == Spec => []SavedIsRest
<1>1. ASSUME IInv, answer = "saved", ~raced, ~mixed
      PROVE  /\ onDisk /\ IsSuffix(wav, received)
             /\ Len(wav) + Len(played) >= Len(received)
  <2>1. /\ wav \in Seq(Samples) /\ received \in Seq(Samples)
        /\ Len(wav) \in Nat /\ Len(received) \in Nat /\ Len(played) \in Nat
    BY <1>1, Lengths DEF IInv, TypeOK
  <2> DEFINE k == Len(received) - Len(wav)
  <2>2. /\ onDisk /\ k \in Nat /\ Len(played) >= k
        /\ \A i \in 1 .. Len(wav) : wav[i] = received[k + i]
    BY <1>1, <2>1 DEF IInv, SavedOK, Ending
  <2>3. /\ Reverse(wav) \in Seq(Samples) /\ Len(Reverse(wav)) = Len(wav)
        /\ \A i \in 1 .. Len(wav) : Reverse(wav)[i] = wav[Len(wav) - i + 1]
    BY <2>1 DEF Reverse
  <2>4. /\ Reverse(received) \in Seq(Samples) /\ Len(Reverse(received)) = Len(received)
        /\ \A i \in 1 .. Len(received) : Reverse(received)[i] = received[Len(received) - i + 1]
    BY <2>1 DEF Reverse
  <2>5. ASSUME NEW i \in 1 .. Len(wav)
        PROVE  Reverse(wav)[i] = Reverse(received)[i]
    <3>1. Len(wav) - i + 1 \in 1 .. Len(wav) /\ i \in 1 .. Len(received)
      BY <2>1, <2>2, <2>5
    <3>2. k + (Len(wav) - i + 1) = Len(received) - i + 1
      BY <2>1, <2>5
    <3> QED
      BY <2>2, <2>3, <2>4, <2>5, <3>1, <3>2
  <2>6. SubSeq(Reverse(wav), 1, Len(wav)) = SubSeq(Reverse(received), 1, Len(wav))
    BY <2>1, <2>2, <2>3, <2>4, <2>5
  <2>7. IsPrefix(Reverse(wav), Reverse(received))
    BY <2>1, <2>2, <2>3, <2>4, <2>6 DEF IsPrefix
  <2> QED
    BY <2>1, <2>2, <2>7 DEF IsSuffix
<1> QED
  BY <1>1, InvHolds, PTL DEF SavedIsRest
=============================================================================
