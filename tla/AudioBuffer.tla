---------------------------- MODULE AudioBuffer ----------------------------
(***************************************************************************)
(* One audio file sent to the server (mode 5): the worker that receives    *)
(* it (receiveAndSaveAudioFileServer), and the thread in which PortAudio   *)
(* calls paCallback, which plays and erases the front of audioBuffer while *)
(* the worker appends to it and finally saves what is left.  Neither takes *)
(* a lock.                                                                 *)
(*                                                                         *)
(* A record on the wire is a frame of samples; "marked" says that the      *)
(* letters EOF are in its bytes: the mark of the end, or a frame that      *)
(* happens to contain them.                                                *)
(***************************************************************************)
EXTENDS Naturals, FiniteSets, SequencesExt

CONSTANTS
  Recordings,       \* what senders may send, without the mark of the end
  FramesPerBuffer   \* FRAME_SIZE, in samples: what a callback may ask for

Samples == Nat    \* 0 is also what lies behind the end of the buffer

Frames == [samples : Seq(Samples), marked : BOOLEAN]

Frame(samples, marked) == [samples |-> samples, marked |-> marked]

EndMark == Frame(<<>>, TRUE)

Endings == {".wav", ".WAV", ".mp3"}

ASSUME AudioAssumption ==
  /\ Recordings \subseteq Seq(Frames)
  /\ FramesPerBuffer \in Nat \ {0}

VARIABLES
  recording,    \* what is sent in this behaviour
  ending,       \* of serverFilePath, as the sender has spelt it
  incoming,     \* the records not yet read
  lost,         \* has the sender disappeared?
  stream,       \* the PortAudio stream: "null", "open", "running", "closed"
  place,        \* of the worker
  audioBuffer,
  insertion,    \* the samples addAudioData is appending
  playing,      \* the samples paCallback has copied and not yet erased
  moved,        \* how many samples the erasure has moved to the front
  raced,        \* have an insertion and an erasure overlapped?
  mixed,        \* were the sizes compared in the middle of an erasure?
  count,        \* the size handed to sf_write_float
  onDisk, wav,  \* is there a file, its name ending in .wav, and its samples
  answer,       \* "", "saved" or "error"
  received, played   \* history

worker   == <<incoming, place, insertion, count, onDisk, wav, answer, received>>
callback == <<playing, moved, played>>
vars     == <<recording, ending, incoming, lost, stream, place, audioBuffer, insertion, playing, moved,
              raced, mixed, count, onDisk, wav, answer, received, played>>

Init ==
  /\ recording \in Recordings /\ incoming = Append(recording, EndMark)
  /\ ending \in Endings /\ lost = FALSE
  /\ stream = "null" /\ place = "init"
  /\ audioBuffer = <<>> /\ insertion = <<>> /\ playing = <<>>
  /\ moved = 0 /\ raced = FALSE /\ mixed = FALSE
  /\ count = 0 /\ onDisk = FALSE /\ wav = <<>> /\ answer = ""
  /\ received = <<>> /\ played = <<>>

Goto(from, to) == place = from /\ place' = to

(* The sender is killed before all is sent.                                *)
Disappear ==
  /\ ~lost /\ incoming # <<>>
  /\ lost' = TRUE
  /\ \E n \in 0 .. Len(incoming) - 1 : incoming' = SubSeq(incoming, 1, n)
  /\ UNCHANGED <<recording, ending, stream, place, audioBuffer, insertion, playing, moved, raced,
                 mixed, count, onDisk, wav, answer, received, played>>

-----------------------------------------------------------------------------
(* The worker.                                                             *)

(* A server without an audio device goes on without a stream.              *)
InitAudio ==
  /\ Goto("init", "start")
  /\ stream' \in {"null", "open"}
  /\ UNCHANGED <<recording, ending, incoming, lost, audioBuffer, insertion, raced, mixed, count, onDisk,
                 wav, answer, received, callback>>

StartPlayback ==
  /\ Goto("start", "receive")
  /\ stream' = IF stream = "open" THEN "running" ELSE stream
  /\ UNCHANGED <<recording, ending, incoming, lost, audioBuffer, insertion, raced, mixed, count, onDisk,
                 wav, answer, received, callback>>

ReceiveFrame ==
  /\ Goto("receive", "insert")
  /\ incoming # <<>> /\ ~Head(incoming).marked
  /\ incoming' = Tail(incoming)
  /\ insertion' = Head(incoming).samples
  /\ received' = received \o Head(incoming).samples
  /\ UNCHANGED <<recording, ending, lost, stream, audioBuffer, raced, mixed, count, onDisk, wav,
                 answer, callback>>

(* audioBuffer.insert: when paCallback is between its first and its last   *)
(* access, either change may be lost (bound: once in a behaviour).         *)
AddAudioData ==
  /\ Goto("insert", "receive")
  /\ LET all == audioBuffer \o insertion
     IN  IF playing = <<>> \/ raced
         THEN audioBuffer' = all /\ UNCHANGED raced
         ELSE audioBuffer' \in {all, audioBuffer} /\ raced' = TRUE
  /\ insertion' = <<>>
  /\ UNCHANGED <<recording, ending, incoming, lost, stream, mixed, count, onDisk, wav, answer,
                 received, callback>>

(* saveAudioFile: the size is read, the file is created ...                *)
OpenFile ==
  /\ Goto("receive", "save")
  /\ incoming # <<>> /\ Head(incoming).marked
  /\ incoming' = Tail(incoming)
  /\ count' = Len(audioBuffer)
  /\ onDisk' = TRUE /\ wav' = <<>>
  /\ UNCHANGED <<recording, ending, lost, stream, audioBuffer, insertion, raced, mixed, answer,
                 received, callback>>

(* ... and sf_write_float copies that many samples, reading behind the end *)
(* of what the callback has made shorter ...                               *)
SaveSample ==
  /\ place = "save" /\ Len(wav) < count
  /\ LET i == Len(wav) + 1
     IN  wav' = Append(wav, IF i <= Len(audioBuffer) THEN audioBuffer[i] ELSE 0)
  /\ UNCHANGED <<recording, ending, incoming, lost, stream, place, audioBuffer, insertion, raced,
                 mixed, count, onDisk, answer, received, callback>>

(* A worker that removes nothing.                                          *)
GiveUp_FileLeft ==
  /\ answer' = "error"
  /\ place' = "done"
  /\ UNCHANGED onDisk

(* An exception: the worker removes serverFilePath, which is the name of   *)
(* the file only if the sender's ended in just ".wav"; parseFileType takes *)
(* ".WAV" for a wav file too.  The stream is not closed.                   *)
GiveUp ==
  /\ onDisk' = (onDisk /\ ending # ".wav")
  /\ answer' = "error"
  /\ place' = "done"

(* A worker that does not compare the sizes.                               *)
CheckSize_Never ==
  /\ place = "save" /\ Len(wav) = count
  /\ place' = "close" /\ mixed' = (moved # 0) /\ UNCHANGED <<onDisk, answer>>
  /\ UNCHANGED <<recording, ending, incoming, lost, stream, audioBuffer, insertion, raced, count,
                 wav, received, callback>>

(* ... after which the size is read again, and must be the same.           *)
CheckSize ==
  /\ place = "save" /\ Len(wav) = count
  /\ IF Len(audioBuffer) = count
     THEN place' = "close" /\ UNCHANGED <<onDisk, answer>>
     ELSE GiveUp
  /\ mixed' = (moved # 0)
  /\ UNCHANGED <<recording, ending, incoming, lost, stream, audioBuffer, insertion, raced, count,
                 wav, received, callback>>

(* Pa_StopStream waits for the callback.                                   *)
CloseAudio ==
  /\ Goto("close", "done")
  /\ playing = <<>>
  /\ stream' = IF stream = "running" THEN "closed" ELSE stream
  /\ answer' = "saved"
  /\ UNCHANGED <<recording, ending, incoming, lost, audioBuffer, insertion, raced, mixed, count,
                 onDisk, wav, received, callback>>

ReadFails ==
  /\ place = "receive" /\ lost /\ incoming = <<>>
  /\ GiveUp
  /\ UNCHANGED <<recording, ending, incoming, lost, stream, audioBuffer, insertion, raced, mixed,
                 count, wav, received, callback>>

Worker ==
  \/ InitAudio \/ StartPlayback \/ ReceiveFrame \/ AddAudioData \/ OpenFile \/ SaveSample
  \/ CheckSize \/ CloseAudio \/ ReadFails

-----------------------------------------------------------------------------
(* paCallback; with an empty buffer it plays silence.                      *)

PlaySamples ==
  /\ stream = "running" /\ place # "done"
  /\ playing = <<>> /\ audioBuffer # <<>>
  /\ LET n == IF Len(audioBuffer) < FramesPerBuffer THEN Len(audioBuffer) ELSE FramesPerBuffer
     IN  playing' = SubSeq(audioBuffer, 1, n)
  /\ played' = played \o playing'
  /\ UNCHANGED <<recording, ending, lost, stream, audioBuffer, moved, raced, mixed, worker>>

(* How many samples erase keeps.                                           *)
Kept == Len(audioBuffer) - Len(playing)

(* vector::erase moves the samples behind the erased ones to the front,    *)
(* one after the other ...                                                 *)
MoveSample ==
  /\ playing # <<>> /\ place # "done" /\ moved < Kept
  /\ audioBuffer' = [audioBuffer EXCEPT ![moved + 1] = audioBuffer[Len(playing) + moved + 1]]
  /\ moved' = moved + 1
  /\ UNCHANGED <<recording, ending, lost, stream, playing, raced, mixed, played, worker>>

(* A callback that erases full buffers only.                               *)
LowerSize_WhenFull ==
  /\ playing # <<>> /\ place # "done" /\ moved >= Kept
  /\ audioBuffer' = IF Len(playing) < FramesPerBuffer THEN audioBuffer ELSE SubSeq(audioBuffer, 1, Kept)
  /\ playing' = <<>> /\ moved' = 0
  /\ UNCHANGED <<recording, ending, lost, stream, raced, mixed, played, worker>>

(* ... and then lowers the size.                                           *)
LowerSize ==
  /\ playing # <<>> /\ place # "done" /\ moved >= Kept
  /\ LET rest == SubSeq(audioBuffer, 1, Kept)
     IN  IF place # "insert" \/ raced
         THEN audioBuffer' = rest /\ UNCHANGED raced
         ELSE audioBuffer' \in {rest, audioBuffer} /\ raced' = TRUE
  /\ playing' = <<>> /\ moved' = 0
  /\ UNCHANGED <<recording, ending, lost, stream, mixed, played, worker>>

Next == Disappear \/ Worker \/ PlaySamples \/ MoveSample \/ LowerSize

Spec == Init /\ [][Next]_vars

-----------------------------------------------------------------------------
(* Properties.                                                             *)

(* The buffer, the file and the place of the worker.                       *)
TypeOK ==
  /\ recording \in Recordings /\ ending \in Endings /\ lost \in BOOLEAN
  /\ stream \in {"null", "open", "running", "closed"}
  /\ place \in {"init", "start", "receive", "insert", "save", "close", "done"}
  /\ incoming \in Seq(Frames) /\ received \in Seq(Samples) /\ played \in Seq(Samples)
  /\ audioBuffer \in Seq(Samples) /\ insertion \in Seq(Samples)
  /\ playing \in Seq(Samples) /\ Len(playing) <= FramesPerBuffer
  /\ moved \in Nat /\ raced \in BOOLEAN /\ mixed \in BOOLEAN /\ count \in Nat
  /\ onDisk \in BOOLEAN /\ wav \in Seq(Samples) /\ Len(wav) <= count
  /\ answer \in {"", "saved", "error"} /\ (place = "done" <=> answer # "")

(* What is heard is what was received, in order, without gaps and without  *)
(* repetitions, as long as no insertion overlaps with an erasure: the      *)
(* front of audioBuffer and what paCallback has copied always meet.        *)
PlayedInOrder == ~raced => IsPrefix(played, received)

(* A file reported as saved is the end of what was received, and what is   *)
(* missing of its beginning has been played: no sample is lost between the *)
(* callback and saveAudioFile, and of an erasure that moves samples while  *)
(* they are written the file never has both sides, because it has lowered  *)
(* the size by the time the sizes are compared - unless it is then still   *)
(* between moving and lowering (mixed), when the comparison misses it.     *)
SavedIsRest ==
  answer = "saved" /\ ~raced /\ ~mixed =>
    /\ onDisk
    /\ IsSuffix(wav, received)
    /\ Len(wav) + Len(played) >= Len(received)

(* Of a file whose name ends in ".wav" and that the sender was told has    *)
(* failed nothing is left, not even when playing on has made the sizes     *)
(* differ after all was written.  (Of an mp3 file, and of one that ends in *)
(* ".WAV", the file is left: it was written under another name.)           *)
FailedLeavesNothing == answer = "error" /\ ending = ".wav" => ~onDisk
=============================================================================
