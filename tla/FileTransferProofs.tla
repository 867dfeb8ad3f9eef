------------------------- MODULE FileTransferProofs -------------------------
(***************************************************************************)
(* Proofs about FileTransfer: for any senders, plans, sizes, clocks and    *)
(* losses, TypeOK, SavedAsSaid, KeptIsSource and SoleRelayKept hold.       *)
(***************************************************************************)
EXTENDS FileTransfer, FiniteSetTheorems, SequenceTheorems, TLAPS

(***************************************************************************)
(* The inductive invariant.                                                *)
(***************************************************************************)

(* The values of the variables.                                            *)
FileNames == {j.file.name : j \in Jobs}

Paths == (0 .. MaxSecond) \X (FileNames \cup {NoName})

Hashes == [known : BOOLEAN, of : Seq(Pieces)] \cup {Claims[q].hash : q \in DOMAIN Claims}

Names == FileNames \cup {NoName} \cup {Claims[q].name : q \in DOMAIN Claims}

WireRecord == [is : {"piece"}, text : Pieces] \cup [is : {"name"}, job : Jobs]

ClientRecord ==
  [is : {"INFO"}, name : FileNames, hash : Hashes]
  \cup [is : {"FILE"}, piece : Pieces] \cup {End} \cup [is : {"text"}, has : Mentions]

Outcome == [job : Jobs, how : {"saved", "failed", "relayed"}, path : Paths]

SenderTypes ==
  /\ plan \in [Senders -> Seq(Jobs)] /\ mention \in Mentions
  /\ [plan |-> plan, mention |-> mention] \in Scenarios
  /\ said \in BOOLEAN /\ now \in 1 .. MaxSecond
  /\ turn \in [Senders -> Nat] /\ left \in [Senders -> Seq(Pieces)]
  /\ gone \subseteq Senders /\ IsFiniteSet(gone) /\ Cardinality(gone) <= MaxLost

WorkerTypes ==
  /\ wire \in [Senders -> Seq(WireRecord)]
  /\ place \in [Senders -> {"command", "receiving", "relaying", "notice", "closed"}]
  /\ job \in [Senders -> Jobs \cup {NoJob}] /\ got \in [Senders -> Seq(Pieces)]
  /\ outbox \in [Senders -> Seq(ClientRecord)] /\ verdict \in [Senders -> Seq(Outcome)]
  /\ announced \subseteq Senders \X Nat

DiskTypes ==
  /\ path \in [Senders -> Paths] /\ linked \in [Senders -> BOOLEAN]
  /\ stored \in [Senders -> 0 .. MaxPieces]
  /\ opened \subseteq Paths \X Senders \X Nat /\ IsFiniteSet(opened)

ReceiverTypes ==
  /\ toTarget \in Seq(ClientRecord)
  /\ isReceivingFileMode \in BOOLEAN /\ filename \in Names
  /\ fileBuffer \in Seq(Pieces) /\ hash \in Hashes
  /\ \A p \in DOMAIN clientDisk : clientDisk[p] \in Seq(Pieces)

Types == SenderTypes /\ WorkerTypes /\ DiskTypes /\ ReceiverTypes

(* Where a sender and its worker are with the transfer the sender began    *)
(* last: answered; asked for; the pieces being received; or passed on.     *)
Current(s) == plan[s][turn[s]]

Letters(f) == Append(f.pieces, "EOF")

AtRest(s) ==
  /\ Len(verdict[s]) = turn[s]
  /\ place[s] \in {"command", "notice", "closed"}
  /\ place[s] = "closed" => s \in gone
  /\ Len(wire[s]) <= 1 /\ \A i \in 1 .. Len(wire[s]) : wire[s][i].is = "piece"

Asked(s) ==
  /\ Len(verdict[s]) + 1 = turn[s]
  /\ place[s] \in {"command", "notice"}
  /\ Len(wire[s]) \in {1, 2}
  /\ wire[s][Len(wire[s])] = [is |-> "name", job |-> Current(s)]
  /\ Len(wire[s]) = 2 => wire[s][1].is = "piece"
  /\ left[s] = IF Current(s).file.audio THEN <<>> ELSE Letters(Current(s).file)

(* What was received, is on the wire and is left to send is the file.      *)
InPieces(L, g, w, l) ==
  /\ Len(w) <= 1 /\ Len(g) + Len(w) + Len(l) = Len(L)
  /\ \A i \in 1 .. Len(g) : g[i] = L[i] /\ ~HasEOF(L[i])
  /\ Len(w) = 1 => w[1] = [is |-> "piece", text |-> L[Len(g) + 1]]
  /\ \A i \in 1 .. Len(l) : l[i] = L[Len(g) + Len(w) + i]

Receiving(s) ==
  /\ Len(verdict[s]) + 1 = turn[s]
  /\ place[s] = "receiving"
  /\ job[s] = Current(s) /\ ~job[s].file.audio
  /\ Len(got[s]) <= MaxPieces
  /\ InPieces(Letters(job[s].file), got[s], wire[s], left[s])

(* out is what is left of the records of a file.                           *)
RestOf(R, out) ==
  Len(out) <= Len(R) /\ \A i \in 1 .. Len(out) : out[i] = R[Len(R) - Len(out) + i]

Relaying(s) ==
  /\ Len(verdict[s]) + 1 = turn[s]
  /\ place[s] = "relaying"
  /\ job[s] = Current(s) /\ job[s].mode = "4"
  /\ Len(got[s]) <= MaxPieces
  /\ Len(wire[s]) <= 1 /\ \A i \in 1 .. Len(wire[s]) : wire[s][i].is = "piece"
  /\ got[s] = UpToEOF(job[s].file.pieces)
  /\ \A i \in 1 .. Len(got[s]) : got[s][i] \in Range(job[s].file.pieces)
  /\ RestOf(Records(job[s].file.name, got[s]), outbox[s])

Stage(s) ==
  /\ turn[s] <= Len(plan[s]) /\ Len(got[s]) <= MaxPieces
  /\ AtRest(s) \/ Asked(s) \/ Receiving(s) \/ Relaying(s)

(* The disk of the server.                                                 *)
Uploading(s) == place[s] = "receiving" /\ job[s].mode = "3"

(* Every path was opened by a transfer that is answered or goes on.        *)
OpenedOK ==
  \A o \in opened :
    /\ plan[o[2]][o[3]].file.name = o[1][2] /\ ~plan[o[2]][o[3]].file.audio
    /\ o[3] \in 1 .. turn[o[2]]
    /\ o[3] <= Len(verdict[o[2]]) \/ (Uploading(o[2]) /\ o[1] = path[o[2]])

(* A file being received is on the disk as far as its stream was emptied,  *)
(* if its path is its own.                                                 *)
AsReceived(s) ==
  /\ <<path[s], s, turn[s]>> \in opened /\ stored[s] <= Len(got[s])
  /\ ~Shared(path[s]) =>
       /\ linked[s] /\ path[s] \in DOMAIN serverDisk
       /\ serverDisk[path[s]] = SubSeq(got[s], 1, stored[s])

StreamOK ==
  \A s \in Senders :
    /\ linked[s] => path[s] \in DOMAIN serverDisk
    /\ Uploading(s) => AsReceived(s)

(* What was reported as saved is there, if its path is its own.            *)
OnDisk(p, f) ==
  ~Shared(p) => p \in DOMAIN serverDisk /\ serverDisk[p] = UpToEOF(f.pieces)

SavedAt(s, i) ==
  /\ <<verdict[s][i].path, s, i>> \in opened
  /\ OnDisk(verdict[s][i].path, verdict[s][i].job.file)

SavedOK ==
  \A s \in Senders : \A i \in 1 .. Len(verdict[s]) : verdict[s][i].how = "saved" => SavedAt(s, i)

NothingElse ==
  \A p \in DOMAIN serverDisk :
    \E s \in Senders :
      \/ \E v \in Verdicts(s) : v.how = "saved" /\ v.path = p
      \/ Uploading(s) /\ path[s] = p

DiskOK == OpenedOK /\ StreamOK /\ SavedOK /\ NothingElse

(* What is announced to the receiver was sent, or is stated in a piece or  *)
(* a text that was written.                                                *)
Stated(name, contents) == Sent(name, contents) \/ Claimed(name, contents)

MayBe(name, h) == \A c : h = Hash(c) => Stated(name, c)

AnnouncedOK ==
  /\ \A i \in 1 .. Len(toTarget) :
       InfoIn(toTarget[i]) => MayBe(Announces(toTarget[i]).name, Announces(toTarget[i]).hash)
  /\ MayBe(filename, hash)
  /\ KeptIsSource

(* A worker with a notice to write has passed on a file, or failed to.     *)
NoticeOK == \A s \in Senders : place[s] = "notice" => job[s] \in Relays(s)

(* A sole sender: what the receiver will have after each record that is on *)
(* its way.                                                                *)
Held == [name : Names, pieces : Seq(Pieces), hash : Hashes]

Idle == [name |-> NoName, pieces |-> <<>>, hash |-> NoHash]

After(r, m) ==
  CASE m.is = "INFO" -> [name |-> m.name, pieces |-> r.pieces, hash |-> m.hash]
    [] m.is = "FILE" -> [r EXCEPT !.pieces = Append(@, m.piece)]
    [] m.is = "EOF"  -> Idle
    [] OTHER         -> r

HasFile(r, f) ==
  r.name = f.name /\ r.pieces = UpToEOF(f.pieces) /\ r.hash = Hash(r.pieces)

(* What it will have when all that was written has arrived.                *)
Halfway(s) ==
  place[s] = "relaying" /\ outbox[s] # <<>> /\ Len(outbox[s]) < Len(got[s]) + 2

AtSource(s, r) ==
  IF Halfway(s)
  THEN /\ r.name = job[s].file.name /\ r.hash = Hash(got[s])
       /\ r.pieces = SubSeq(got[s], 1, Len(got[s]) + 1 - Len(outbox[s]))
  ELSE r = Idle

Special == DOMAIN Claims \cup {"NUL~"}

Kept(f) ==
  \E p \in DOMAIN clientDisk : p[2] = f.name /\ clientDisk[p] = UpToEOF(f.pieces)

Arriving(st, f) ==
  \E i \in 1 .. Len(toTarget) : toTarget[i] = End /\ HasFile(st[i], f)

Safe(st, f) == Kept(f) \/ Arriving(st, f)

Way(st) ==
  /\ Len(st) = Len(toTarget) + 1
  /\ st[1] = [name |-> filename, pieces |-> fileBuffer, hash |-> hash]
  /\ \A i \in 1 .. Len(toTarget) :
       /\ st[i + 1] = After(st[i], toTarget[i])
       /\ toTarget[i].is = "text" => toTarget[i].has \in {"nothing", "EOF"}
       /\ toTarget[i].is = "FILE" => toTarget[i].piece \notin Special
       /\ toTarget[i] = End =>
            \E s \in Senders : \E j \in Relays(s) : HasFile(st[i], j.file)

Course(st) ==
  /\ Way(st)
  /\ \A s \in Senders : Relays(s) # {} => AtSource(s, st[Len(st)])
  /\ \A s \in Senders : \A v \in Verdicts(s) :
       v.how = "relayed" => v.job \in Relays(s) /\ Safe(st, v.job.file)
  /\ \A s \in Senders : place[s] = "relaying" /\ outbox[s] = <<>> => Safe(st, job[s].file)

SoleOK == PlainRelays => \E st \in Seq(Held) : Course(st)

InTurn == \A s \in Senders : Stage(s)

(* A step in which sender t and its worker take no part.                   *)
Untouched(t) ==
  /\ turn'[t] = turn[t] /\ verdict'[t] = verdict[t] /\ place'[t] = place[t] /\ job'[t] = job[t]
  /\ got'[t] = got[t] /\ path'[t] = path[t] /\ stored'[t] = stored[t]

-----------------------------------------------------------------------------
(* The constants, and the operators the model is built from.               *)

LEMMA Bounds ==
  MaxPieces \in Nat /\ MaxSecond \in Nat /\ 1 <= MaxSecond /\ MaxLost \in Nat
  BY FileAssumption

LEMMA NothingYet ==
  ASSUME NEW S, NEW T
  PROVE  [s \in S |-> <<>>] \in [S -> Seq(T)]
<1>1. <<>> \in Seq(T)
  OBVIOUS
<1> QED
  BY <1>1, Zenon

LEMMA OwnPieces == "chat" \in Pieces /\ "cut" \in Pieces /\ "EOF" \in Pieces
<1> DEFINE Planned == UNION {Range(j.file.pieces) : j \in Jobs}
<1>1. Pieces = Planned \cup {"chat", "cut", "EOF"}
  BY DEF Pieces
<1> HIDE DEF Planned
<1> QED
  BY <1>1

LEMMA JobTyped ==
  ASSUME NEW j \in Jobs
  PROVE  /\ j \in Job /\ j.mode \in {"3", "4"}
         /\ j.file.name \in FileNames /\ j.file.name # NoName /\ j.file.audio \in BOOLEAN
         /\ j.file.pieces \in Seq(Pieces) /\ Letters(j.file) \in Seq(Pieces)
         /\ j.notice \in Mentions
         /\ j.notice \in DOMAIN Claims => Claims[j.notice] = [name |-> NoName, hash |-> NoHash]
<1>1. PICK c \in Scenarios, s \in Senders : j \in Range(c.plan[s])
  BY DEF Jobs
<1>2. c.plan[s] \in Seq(Job)
  BY FileAssumption
<1>3. j \in Job
  BY <1>1, <1>2 DEF Range
<1>4. j.file.pieces \in Seq(STRING)
  BY <1>3 DEF Job, File_
<1>5. \A i \in 1 .. Len(j.file.pieces) : j.file.pieces[i] \in Pieces
  <2>1. Range(j.file.pieces) \subseteq Pieces
    BY Zenon DEF Pieces
  <2> QED
    BY <1>4, <2>1 DEF Range
<1>6. j.file.pieces \in Seq(Pieces)
  BY <1>4, <1>5
<1>7. Letters(j.file) \in Seq(Pieces)
  BY <1>6, OwnPieces DEF Letters
<1>8. j.notice \in DOMAIN Claims => Claims[j.notice] = [name |-> NoName, hash |-> NoHash]
  BY <1>1, FileAssumption
<1>9. j.notice \in Mentions
  BY <1>3 DEF Job
<1> QED
  BY <1>3, <1>6, <1>7, <1>8, <1>9 DEF Job, File_, FileNames

LEMMA PlanTyped ==
  ASSUME NEW c \in Scenarios
  PROVE  c.plan \in [Senders -> Seq(Jobs)] /\ c.mention \in Mentions
<1>1. c.plan \in [Senders -> Seq(Job)] /\ c.mention \in Mentions
  BY FileAssumption
<1>2. ASSUME NEW s \in Senders
      PROVE  c.plan[s] \in Seq(Jobs)
  <2>1. c.plan[s] \in Seq(Job)
    BY <1>1
  <2>2. \A i \in 1 .. Len(c.plan[s]) : c.plan[s][i] \in Jobs
    BY <2>1 DEF Jobs, Range
  <2> QED
    BY <2>1, <2>2
<1> QED
  BY <1>1, <1>2

(* The part of a file that is passed on or saved: the pieces before the    *)
(* first one with the letters EOF.                                         *)
LEMMA UpToEOFIs ==
  ASSUME NEW S, NEW p \in Seq(S), NEW g \in Seq(S), Len(g) <= Len(p),
         \A i \in 1 .. Len(g) : g[i] = p[i] /\ ~HasEOF(p[i]),
         Len(g) = Len(p) \/ HasEOF(p[Len(g) + 1])
  PROVE  UpToEOF(p) = g
<1> DEFINE ends == {i \in 1 .. Len(p) : HasEOF(p[i])}
           n == Len(g) + 1
<1>1. CASE Len(g) = Len(p)
  <2>1. ends = {}
    BY <1>1
  <2>2. g = p
    BY <1>1
  <2> QED
    BY <2>1, <2>2 DEF UpToEOF
<1>2. CASE Len(g) # Len(p)
  <2>1. n \in ends /\ \A i \in ends : n <= i
    BY <1>2
  <2>2. Min(ends) = n
    <3> HIDE DEF n
    <3>0. ends \subseteq Int
      OBVIOUS
    <3>1. \E x \in ends : \A y \in ends : x =< y
      BY <2>1
    <3>2. Min(ends) \in ends /\ \A y \in ends : Min(ends) =< y
      BY <3>1 DEF Min
    <3>3. PICK k : k = Min(ends)
      OBVIOUS
    <3>4. k \in ends /\ k <= n /\ n <= k /\ k \in Int /\ n \in Int
      BY <2>1, <3>0, <3>2, <3>3
    <3>5. k = n
      BY <3>4
    <3> QED
      BY <3>3, <3>5
  <2>3. ends # {}
    BY <2>1
  <2>4. UpToEOF(p) = SubSeq(p, 1, Min(ends) - 1)
    BY <2>3, Zenon DEF UpToEOF
  <2>5. SubSeq(p, 1, Len(g)) = g
    OBVIOUS
  <2> HIDE DEF ends
  <2> QED
    BY <2>2, <2>4, <2>5
<1> QED
  BY <1>1, <1>2

-----------------------------------------------------------------------------
(* Types.                                                                  *)

LEMMA InitTypes == Init => Types
<1> SUFFICES ASSUME Init
             PROVE  Types
  OBVIOUS
<1>1. PICK c \in Scenarios : plan = c.plan /\ mention = c.mention
  BY DEF Init
<1>2. c = [plan |-> plan, mention |-> mention]
  BY <1>1, FileAssumption
<1>3. plan \in [Senders -> Seq(Jobs)] /\ mention \in Mentions
  BY <1>1, PlanTyped
<1>4. SenderTypes
  <2>1. [plan |-> plan, mention |-> mention] \in Scenarios
    BY <1>2
  <2>2. left \in [Senders -> Seq(Pieces)] /\ turn \in [Senders -> Nat]
    BY NothingYet DEF Init
  <2>3. gone \subseteq Senders /\ IsFiniteSet(gone) /\ Cardinality(gone) <= MaxLost
    BY Bounds, FS_EmptySet DEF Init
  <2>4. now = 1 /\ said = FALSE
    BY DEF Init
  <2>5. now \in 1 .. MaxSecond
    BY <2>4, Bounds
  <2> QED
    BY <1>3, <2>1, <2>2, <2>3, <2>4, <2>5 DEF SenderTypes
<1>5. WorkerTypes
  <2> DEFINE none == [s \in Senders |-> <<>>]
  <2>1. /\ none \in [Senders -> Seq(WireRecord)] /\ none \in [Senders -> Seq(Pieces)]
        /\ none \in [Senders -> Seq(ClientRecord)] /\ none \in [Senders -> Seq(Outcome)]
    BY NothingYet
  <2>2. wire = none /\ got = none /\ outbox = none /\ verdict = none
    BY DEF Init
  <2> HIDE DEF none
  <2> QED
    BY <2>1, <2>2 DEF Init, WorkerTypes
<1>6. DiskTypes
  <2>1. <<0, NoName>> \in Paths
    <3>1. 0 \in 0 .. MaxSecond
      BY Bounds
    <3> QED
      BY <3>1 DEF Paths
  <2>2. path \in [Senders -> Paths]
    BY <2>1 DEF Init
  <2>3. linked \in [Senders -> BOOLEAN] /\ stored \in [Senders -> 0 .. MaxPieces]
    BY Bounds DEF Init
  <2>4. opened \subseteq Paths \X Senders \X Nat /\ IsFiniteSet(opened)
    BY FS_EmptySet DEF Init
  <2> QED
    BY <2>2, <2>3, <2>4 DEF DiskTypes
<1>7. ReceiverTypes
  <2>1. toTarget \in Seq(ClientRecord) /\ fileBuffer \in Seq(Pieces)
    BY DEF Init, ReceiverInit
  <2>2. hash \in Hashes
    BY DEF Init, ReceiverInit, NoHash, Hashes
  <2>3. isReceivingFileMode \in BOOLEAN /\ filename \in Names
    BY DEF Init, ReceiverInit, Names
  <2>4. \A p \in DOMAIN clientDisk : clientDisk[p] \in Seq(Pieces)
    BY DEF Init, ReceiverInit
  <2> QED
    BY <2>1, <2>2, <2>3, <2>4 DEF ReceiverTypes
<1> QED
  BY <1>4, <1>5, <1>6, <1>7 DEF Types

LEMMA SenderTypesKept ==
  ASSUME Types, Next
  PROVE  SenderTypes'
<1> USE DEF Types, SenderTypes
<1>1. ASSUME NEW s \in Senders, StartTransfer(s)
      PROVE  SenderTypes'
  <2> DEFINE j == plan[s][turn[s] + 1]
  <2>1. j \in Jobs
    BY <1>1 DEF StartTransfer
  <2>2. Append(j.file.pieces, "EOF") \in Seq(Pieces)
    BY <2>1, JobTyped DEF Letters
  <2>3. left' \in [Senders -> Seq(Pieces)]
    <3>1. left' = [left EXCEPT ![s] = IF j.file.audio THEN <<>> ELSE Append(j.file.pieces, "EOF")]
      BY <1>1 DEF StartTransfer
    <3> QED
      BY <2>2, <3>1
  <2> QED
    BY <1>1, <2>3 DEF StartTransfer, frozen
<1>2. ASSUME NEW s \in Senders, SendPiece(s)
      PROVE  SenderTypes'
  <2>1. Tail(left[s]) \in Seq(Pieces)
    BY <1>2 DEF SendPiece
  <2> QED
    BY <1>2, <2>1 DEF SendPiece, frozen
<1>3. ASSUME NEW s \in Senders, Disappear(s)
      PROVE  SenderTypes'
  <2>1. gone' = gone \cup {s} /\ s \notin gone /\ Cardinality(gone) < MaxLost
    BY <1>3 DEF Disappear
  <2>2. Cardinality(gone) \in Nat
    BY FS_CardinalityType
  <2>3. IsFiniteSet(gone') /\ Cardinality(gone') = Cardinality(gone) + 1
    BY <2>1, FS_AddElement
  <2>4. Cardinality(gone') <= MaxLost
    BY <2>1, <2>2, <2>3, FileAssumption
  <2> QED
    BY <1>3, <2>1, <2>3, <2>4 DEF Disappear, frozen
<1>4. ASSUME NEW s \in Senders, Worker(s)
      PROVE  SenderTypes'
  <2>1. UNCHANGED <<now, frozen, said, senders>>
    BY <1>4 DEF Worker, Upload, Relay, Reads, BeginUpload, UploadPiece, UploadEnd, UploadBroken,
                BeginRelay, RelayPiece, RelayEnd, RelayBroken, RelayWrite, RelayAnswer, Notice, ReadStray
  <2> QED
    BY <2>1 DEF frozen, senders
<1>5. CASE Receives
  BY <1>5 DEF Receives, Receive, frozen, senders
<1>6. CASE Mention
  BY <1>6 DEF Mention, frozen, senders
<1>7. CASE Tick
  BY <1>7, FileAssumption DEF Tick, frozen, senders
<1> QED
  BY <1>1, <1>2, <1>3, <1>4, <1>5, <1>6, <1>7 DEF Next

(* Putting an element before and after a sequence.                         *)
LEMMA PutFirst ==
  ASSUME NEW S, NEW q \in Seq(S), NEW x \in S, NEW r, r = <<x>> \o q
  PROVE  /\ r \in Seq(S) /\ Len(r) = Len(q) + 1 /\ r[1] = x
         /\ \A i \in 1 .. Len(q) : r[i + 1] = q[i]
  OBVIOUS

LEMMA PutLast ==
  ASSUME NEW S, NEW q \in Seq(S), NEW x \in S, NEW r, r = q \o <<x>>
  PROVE  /\ r \in Seq(S) /\ Len(r) = Len(q) + 1 /\ r[Len(q) + 1] = x
         /\ \A i \in 1 .. Len(q) : r[i] = q[i]
  OBVIOUS

(* The records of a file.                                                  *)
LEMMA RecordsTyped ==
  ASSUME NEW n \in FileNames, NEW p \in Seq(Pieces)
  PROVE  /\ Records(n, p) \in Seq(ClientRecord) /\ Len(Records(n, p)) = Len(p) + 2
         /\ Records(n, p)[1] = Info(n, Hash(p))
         /\ \A i \in 1 .. Len(p) : Records(n, p)[i + 1] = File(p[i])
         /\ Records(n, p)[Len(p) + 2] = End
<1> DEFINE body == [i \in 1 .. Len(p) |-> File(p[i])]
           info == Info(n, Hash(p))
           head == <<info>> \o body
<1>1. info \in ClientRecord
  BY DEF Info, Hash, Hashes, ClientRecord
<1>2. ASSUME NEW i \in 1 .. Len(p)
      PROVE  File(p[i]) \in ClientRecord
  <2>1. p[i] \in Pieces
    OBVIOUS
  <2> QED
    BY <2>1 DEF File, ClientRecord
<1>3. End \in ClientRecord
  BY DEF ClientRecord
<1>4. body \in Seq(ClientRecord) /\ Len(body) = Len(p) /\ \A i \in 1 .. Len(p) : body[i] = File(p[i])
  BY <1>2
<1>5. Records(n, p) = head \o <<End>>
  BY DEF Records
<1> HIDE DEF info, body, head
<1>6. /\ head \in Seq(ClientRecord) /\ Len(head) = Len(p) + 1
      /\ head[1] = info /\ \A i \in 1 .. Len(p) : head[i + 1] = body[i]
  <2>1. head = <<info>> \o body
    BY Zenon DEF head
  <2> QED
    BY <1>1, <1>4, <2>1, PutFirst
<1>7. /\ Records(n, p) \in Seq(ClientRecord) /\ Len(Records(n, p)) = Len(p) + 2
      /\ Records(n, p)[Len(p) + 2] = End
      /\ \A i \in 1 .. Len(p) + 1 : Records(n, p)[i] = head[i]
  BY <1>3, <1>5, <1>6, PutLast
<1> QED
  BY <1>4, <1>6, <1>7 DEF info

(* What a worker takes off its wire.                                       *)
LEMMA ReadsTyped ==
  ASSUME Types, NEW s \in Senders, NEW at, NEW kind, Reads(s, at, kind)
  PROVE  /\ Head(wire[s]) \in WireRecord /\ Tail(wire[s]) \in Seq(WireRecord)
         /\ wire' \in [Senders -> Seq(WireRecord)]
         /\ kind = "piece" => Piece(s) \in Pieces
         /\ kind = "name" => Head(wire[s]).job \in Jobs
<1>1. /\ wire[s] \in Seq(WireRecord) /\ wire[s] # <<>> /\ Head(wire[s]).is = kind
      /\ wire' = [wire EXCEPT ![s] = Tail(wire[s])]
  BY DEF Types, WorkerTypes, Reads
<1>2. Head(wire[s]) \in WireRecord /\ Tail(wire[s]) \in Seq(WireRecord)
  BY <1>1
<1>3. wire' \in [Senders -> Seq(WireRecord)]
  BY <1>1, <1>2 DEF Types, WorkerTypes
<1>4. /\ kind = "piece" => Head(wire[s]).text \in Pieces
      /\ kind = "name" => Head(wire[s]).job \in Jobs
  BY <1>1, <1>2 DEF WireRecord
<1> QED
  BY <1>2, <1>3, <1>4 DEF Piece

LEMMA EndsTyped ==
  ASSUME Types, NEW s \in Senders, NEW j \in Jobs, NEW how \in {"saved", "failed", "relayed"},
         Ends(s, j, how)
  PROVE  verdict' \in [Senders -> Seq(Outcome)]
<1> DEFINE o == [job |-> j, how |-> how, path |-> path[s]]
<1>1. o \in Outcome
  BY DEF Types, DiskTypes, Outcome
<1>2. verdict[s] \in Seq(Outcome) /\ verdict' = [verdict EXCEPT ![s] = Append(verdict[s], o)]
  BY DEF Types, WorkerTypes, Ends
<1>3. Append(verdict[s], o) \in Seq(Outcome)
  BY <1>1, <1>2
<1> QED
  BY <1>2, <1>3 DEF Types, WorkerTypes

(* A worker that is busy with a transfer has a job.                        *)
LEMMA BusyHasJob ==
  ASSUME Types, InTurn, NEW s \in Senders, place[s] \in {"receiving", "relaying"}
  PROVE  /\ job[s] \in Jobs /\ job[s] = Current(s) /\ Len(verdict[s]) + 1 = turn[s]
         /\ turn[s] \in 1 .. Len(plan[s])
<1>1. Receiving(s) \/ Relaying(s)
  BY DEF InTurn, Stage, AtRest, Asked
<1>2. /\ job[s] = Current(s) /\ Len(verdict[s]) + 1 = turn[s] /\ turn[s] <= Len(plan[s])
  BY <1>1 DEF InTurn, Stage, Receiving, Relaying
<1>3. turn[s] \in Nat /\ Len(verdict[s]) \in Nat /\ plan[s] \in Seq(Jobs)
  BY DEF Types, SenderTypes, WorkerTypes
<1> QED
  BY <1>2, <1>3 DEF Current

LEMMA GotTyped ==
  ASSUME Types, NEW s \in Senders, got' = [got EXCEPT ![s] = <<>>]
  PROVE  got' \in [Senders -> Seq(Pieces)]
<1>1. <<>> \in Seq(Pieces)
  OBVIOUS
<1> QED
  BY <1>1 DEF Types, WorkerTypes

LEMMA WorkerTypesKept ==
  ASSUME Types, InTurn, Next
  PROVE  WorkerTypes'
<1> USE DEF Types, WorkerTypes
<1>1. ASSUME NEW s \in Senders, StartTransfer(s)
      PROVE  WorkerTypes'
  <2> DEFINE j == plan[s][turn[s] + 1]
             r == [is |-> "name", job |-> j]
  <2>1. j \in Jobs
    BY <1>1 DEF StartTransfer, SenderTypes
  <2>2. r \in WireRecord
    BY <2>1 DEF WireRecord
  <2>3. wire' = [wire EXCEPT ![s] = Append(wire[s], r)]
    BY <1>1 DEF StartTransfer
  <2>4. Append(wire[s], r) \in Seq(WireRecord)
    BY <2>2
  <2>5. wire' \in [Senders -> Seq(WireRecord)]
    BY <2>3, <2>4
  <2> QED
    BY <1>1, <2>5 DEF StartTransfer, worker
<1>2. ASSUME NEW s \in Senders, SendPiece(s)
      PROVE  WorkerTypes'
  <2> DEFINE r == [is |-> "piece", text |-> Head(left[s])]
  <2>1. r \in WireRecord
    <3>1. Head(left[s]) \in Pieces
      BY <1>2 DEF SendPiece, SenderTypes
    <3> QED
      BY <3>1 DEF WireRecord
  <2>2. wire' = [wire EXCEPT ![s] = <<r>>]
    BY <1>2 DEF SendPiece
  <2>3. wire' \in [Senders -> Seq(WireRecord)]
    <3>1. <<r>> \in Seq(WireRecord)
      BY <2>1
    <3> QED
      BY <2>2, <3>1
  <2> QED
    BY <1>2, <2>3 DEF SendPiece, worker
<1>3. ASSUME NEW s \in Senders, Disappear(s)
      PROVE  WorkerTypes'
  BY <1>3 DEF Disappear, worker
<1>4. ASSUME NEW s \in Senders, BeginUpload(s)
      PROVE  WorkerTypes'
  <2> DEFINE j == Head(wire[s]).job
  <2>1. wire' \in [Senders -> Seq(WireRecord)] /\ j \in Jobs
    BY <1>4, ReadsTyped DEF BeginUpload
  <2>2. Ends(s, j, "failed") => verdict' \in [Senders -> Seq(Outcome)]
    BY <2>1, EndsTyped
  <2>3. UNCHANGED <<outbox, announced>> /\ job' = [job EXCEPT ![s] = j]
    BY <1>4 DEF BeginUpload
  <2>4. CASE j.file.audio
    BY <1>4, <2>1, <2>2, <2>3, <2>4 DEF BeginUpload
  <2>5. CASE ~j.file.audio
    <3>1. got' = [got EXCEPT ![s] = <<>>] /\ place' = [place EXCEPT ![s] = "receiving"] /\ verdict' = verdict
      BY <1>4, <2>5 DEF BeginUpload, Goto
    <3> QED
      BY <2>1, <2>3, <3>1
  <2> QED
    BY <2>4, <2>5
<1>5. ASSUME NEW s \in Senders, UploadPiece(s)
      PROVE  WorkerTypes'
  <2>1. wire' \in [Senders -> Seq(WireRecord)] /\ Piece(s) \in Pieces
    BY <1>5, ReadsTyped DEF UploadPiece
  <2>2. UNCHANGED <<outbox, announced, job>>
    BY <1>5 DEF UploadPiece
  <2>3. job[s] \in Jobs
    BY <1>5, BusyHasJob DEF UploadPiece, Reads
  <2>4. CASE Len(got[s]) + 1 > MaxPieces
    <3>1. UploadFails(s) /\ Goto(s, "command")
      BY <1>5, <2>4 DEF UploadPiece
    <3>2. verdict' \in [Senders -> Seq(Outcome)]
      BY <2>3, <3>1, EndsTyped DEF UploadFails
    <3> QED
      BY <2>1, <2>2, <3>1, <3>2, GotTyped DEF UploadFails, Goto
  <2>5. CASE ~(Len(got[s]) + 1 > MaxPieces)
    <3>1. got' = [got EXCEPT ![s] = Append(got[s], Piece(s))] /\ UNCHANGED <<place, verdict>>
      BY <1>5, <2>5 DEF UploadPiece
    <3>2. Append(got[s], Piece(s)) \in Seq(Pieces)
      BY <2>1
    <3> QED
      BY <2>1, <2>2, <3>1, <3>2
  <2> QED
    BY <2>4, <2>5
<1>6. ASSUME NEW s \in Senders, UploadEnd(s)
      PROVE  WorkerTypes'
  <2>1. wire' \in [Senders -> Seq(WireRecord)]
    BY <1>6, ReadsTyped DEF UploadEnd
  <2>2. verdict' \in [Senders -> Seq(Outcome)]
    BY <1>6, EndsTyped, BusyHasJob DEF UploadEnd, Reads
  <2> QED
    BY <1>6, <2>1, <2>2 DEF UploadEnd, Goto
<1>7. ASSUME NEW s \in Senders, UploadBroken(s)
      PROVE  WorkerTypes'
  <2>1. verdict' \in [Senders -> Seq(Outcome)]
    BY <1>7, EndsTyped, BusyHasJob DEF UploadBroken, UploadFails
  <2> QED
    BY <1>7, <2>1, GotTyped DEF UploadBroken, UploadFails, Goto
<1>8. ASSUME NEW s \in Senders, BeginRelay(s)
      PROVE  WorkerTypes'
  <2> DEFINE j == Head(wire[s]).job
  <2>1. wire' \in [Senders -> Seq(WireRecord)] /\ j \in Jobs
    BY <1>8, ReadsTyped DEF BeginRelay
  <2>2. Ends(s, j, "failed") => verdict' \in [Senders -> Seq(Outcome)]
    BY <2>1, EndsTyped
  <2>3. verdict' \in [Senders -> Seq(Outcome)]
    BY <1>8, <2>2 DEF BeginRelay
  <2>4. /\ UNCHANGED <<outbox, announced>> /\ job' = [job EXCEPT ![s] = j]
        /\ got' = [got EXCEPT ![s] = <<>>]
        /\ Goto(s, "notice") \/ Goto(s, "receiving")
    BY <1>8 DEF BeginRelay
  <2> QED
    BY <2>1, <2>3, <2>4, GotTyped DEF Goto
<1>9. ASSUME NEW s \in Senders, RelayPiece(s)
      PROVE  WorkerTypes'
  <2>1. wire' \in [Senders -> Seq(WireRecord)] /\ Piece(s) \in Pieces
    BY <1>9, ReadsTyped DEF RelayPiece
  <2>2. UNCHANGED <<outbox, announced, job>>
    BY <1>9 DEF RelayPiece
  <2>3. CASE Len(got[s]) + 1 > MaxPieces
    <3>1. got' = [got EXCEPT ![s] = <<>>] /\ Ends(s, job[s], "failed") /\ Goto(s, "notice")
      BY <1>9, <2>3 DEF RelayPiece
    <3>2. verdict' \in [Senders -> Seq(Outcome)]
      BY <1>9, <3>1, EndsTyped, BusyHasJob DEF RelayPiece, Reads
    <3> QED
      BY <2>1, <2>2, <3>1, <3>2, GotTyped DEF Goto
  <2>4. CASE ~(Len(got[s]) + 1 > MaxPieces)
    <3>1. got' = [got EXCEPT ![s] = Append(got[s], Piece(s))] /\ UNCHANGED <<place, verdict>>
      BY <1>9, <2>4 DEF RelayPiece
    <3>2. Append(got[s], Piece(s)) \in Seq(Pieces)
      BY <2>1
    <3> QED
      BY <2>1, <2>2, <3>1, <3>2
  <2> QED
    BY <2>3, <2>4
<1>10. ASSUME NEW s \in Senders, RelayEnd(s)
       PROVE  WorkerTypes'
  <2>1. wire' \in [Senders -> Seq(WireRecord)]
    BY <1>10, ReadsTyped DEF RelayEnd
  <2>2. job[s].file.name \in FileNames
    BY <1>10, BusyHasJob DEF RelayEnd, Reads, FileNames
  <2>3. Records(job[s].file.name, got[s]) \in Seq(ClientRecord)
    BY <2>2, RecordsTyped
  <2> QED
    BY <1>10, <2>1, <2>3 DEF RelayEnd, Goto
<1>11. ASSUME NEW s \in Senders, RelayBroken(s)
       PROVE  WorkerTypes'
  <2>1. verdict' \in [Senders -> Seq(Outcome)]
    BY <1>11, EndsTyped, BusyHasJob DEF RelayBroken
  <2> QED
    BY <1>11, <2>1, GotTyped DEF RelayBroken, Goto
<1>12. ASSUME NEW s \in Senders, RelayWrite(s)
       PROVE  WorkerTypes'
  <2>1. Tail(outbox[s]) \in Seq(ClientRecord)
    BY <1>12 DEF RelayWrite
  <2>2. announced' \subseteq Senders \X Nat
    BY <1>12 DEF RelayWrite, SenderTypes
  <2> QED
    BY <1>12, <2>1, <2>2 DEF RelayWrite
<1>13. ASSUME NEW s \in Senders, RelayAnswer(s)
       PROVE  WorkerTypes'
  <2>1. verdict' \in [Senders -> Seq(Outcome)]
    BY <1>13, EndsTyped, BusyHasJob DEF RelayAnswer
  <2> QED
    BY <1>13, <2>1 DEF RelayAnswer, Goto
<1>14. ASSUME NEW s \in Senders, Notice(s)
       PROVE  WorkerTypes'
  BY <1>14 DEF Notice, Goto
<1>15. ASSUME NEW s \in Senders, ReadStray(s)
       PROVE  WorkerTypes'
  <2>1. wire' \in [Senders -> Seq(WireRecord)]
    BY <1>15, ReadsTyped DEF ReadStray
  <2> QED
    BY <1>15, <2>1 DEF ReadStray, worker
<1>16. CASE Receives \/ Mention \/ Tick
  BY <1>16 DEF Receives, Mention, Tick, worker
<1> QED
  BY <1>1, <1>2, <1>3, <1>4, <1>5, <1>6, <1>7, <1>8, <1>9, <1>10, <1>11, <1>12, <1>13, <1>14, <1>15,
     <1>16 DEF Next, Worker, Upload, Relay

(* Steps on the disk: another file opened, one removed, some pieces of the *)
(* stream of s written.                                                    *)
LEMMA OpenTyped ==
  ASSUME Types, NEW s \in Senders, NEW p \in Paths, Open(s, p)
  PROVE  DiskTypes'
<1>1. <<p, s, turn[s]>> \in Paths \X Senders \X Nat
  BY DEF Types, SenderTypes
<1>2. opened' = opened \cup {<<p, s, turn[s]>>}
  BY DEF Open
<1>3. opened' \subseteq Paths \X Senders \X Nat
  BY <1>1, <1>2 DEF Types, DiskTypes
<1>4. IsFiniteSet(opened')
  BY <1>2, FS_AddElement DEF Types, DiskTypes
<1>5. 0 \in 0 .. MaxPieces
  BY Bounds
<1> QED
  BY <1>3, <1>4, <1>5 DEF Types, DiskTypes, Open

LEMMA RemoveTyped ==
  ASSUME Types, NEW p, RemoveFile(p)
  PROVE  DiskTypes'
<1>1. linked' \in [Senders -> BOOLEAN]
  <2>1. linked' = [t \in Senders |-> linked[t] /\ path[t] # p]
    BY DEF RemoveFile
  <2>2. \A t \in Senders : (linked[t] /\ path[t] # p) \in BOOLEAN
    OBVIOUS
  <2> QED
    BY <2>1, <2>2, Zenon
<1> QED
  BY <1>1 DEF Types, DiskTypes, RemoveFile

LEMMA DiskTypesKept ==
  ASSUME Types, InTurn, Next
  PROVE  DiskTypes'
<1> USE DEF Types, DiskTypes
<1>1. ASSUME NEW s \in Senders, BeginUpload(s)
      PROVE  DiskTypes'
  <2> DEFINE p == <<now, Head(wire[s]).job.file.name>>
  <2>1. Head(wire[s]).job \in Jobs
    BY <1>1, ReadsTyped DEF BeginUpload
  <2>2. p \in Paths
    <3>1. Head(wire[s]).job.file.name \in FileNames
      BY <2>1 DEF FileNames
    <3>2. now \in 0 .. MaxSecond
      BY Bounds DEF SenderTypes
    <3> QED
      BY <3>1, <3>2 DEF Paths
  <2>3. RemoveFile(p) \/ Open(s, p)
    BY <1>1 DEF BeginUpload
  <2> QED
    BY <2>2, <2>3, OpenTyped, RemoveTyped
<1>2. ASSUME NEW s \in Senders, UploadPiece(s)
      PROVE  DiskTypes'
  <2>1. CASE Len(got[s]) + 1 > MaxPieces
    BY <1>2, <2>1, RemoveTyped DEF UploadPiece, UploadFails
  <2>2. CASE ~(Len(got[s]) + 1 > MaxPieces)
    <3>1. Piece(s) \in Pieces
      BY <1>2, ReadsTyped DEF UploadPiece
    <3>2. Len(Append(got[s], Piece(s))) \in 0 .. MaxPieces
      BY <2>2, <3>1, Bounds DEF WorkerTypes
    <3>3. UNCHANGED <<path, linked, opened>>
      BY <1>2, <2>2 DEF UploadPiece
    <3>4. stored' = stored \/ stored' = [stored EXCEPT ![s] = Len(Append(got[s], Piece(s)))]
      BY <1>2, <2>2 DEF UploadPiece
    <3> QED
      BY <3>2, <3>3, <3>4
  <2> QED
    BY <2>1, <2>2
<1>3. ASSUME NEW s \in Senders, UploadEnd(s)
      PROVE  DiskTypes'
  BY <1>3 DEF UploadEnd
<1>4. ASSUME NEW s \in Senders, UploadBroken(s)
      PROVE  DiskTypes'
  BY <1>4, RemoveTyped DEF UploadBroken, UploadFails
<1>5. ASSUME UNCHANGED disk
      PROVE  DiskTypes'
  BY <1>5 DEF disk
<1>6. ASSUME NEW s \in Senders,
             \/ StartTransfer(s) \/ SendPiece(s) \/ Disappear(s) \/ ReadStray(s) \/ Relay(s)
      PROVE  UNCHANGED disk
  BY <1>6, Zenon DEF StartTransfer, SendPiece, Disappear, ReadStray, Relay, BeginRelay, RelayPiece, RelayEnd,
              RelayBroken, RelayWrite, RelayAnswer, Notice
<1>7. ASSUME Receives \/ Mention \/ Tick
      PROVE  UNCHANGED disk
  BY <1>7 DEF Receives, Mention, Tick
<1> QED
  BY <1>1, <1>2, <1>3, <1>4, <1>5, <1>6, <1>7 DEF Next, Worker, Upload

(* What a receiver has taken out of the channel.                           *)
LEMMA ArrivesTyped ==
  ASSUME Types, NEW m, Arrives(m)
  PROVE  /\ m \in ClientRecord /\ m = toTarget[1] /\ toTarget # <<>>
         /\ toTarget' \in Seq(ClientRecord) /\ Len(toTarget') + 1 = Len(toTarget)
         /\ \A i \in 1 .. Len(toTarget') : toTarget'[i] = toTarget[i + 1]
  BY DEF Types, ReceiverTypes, Arrives

LEMMA KindOfRecord ==
  ASSUME NEW m \in ClientRecord
  PROVE  /\ m.is = "INFO" => m.name \in FileNames /\ m.hash \in Hashes
         /\ m.is = "FILE" => m.piece \in Pieces
         /\ m.is = "EOF" => m = End
         /\ m.is = "text" => m.has \in Mentions
  BY DEF ClientRecord, End

LEMMA ReceiverTypesKept ==
  ASSUME Types, InTurn, Next
  PROVE  ReceiverTypes'
<1> USE DEF Types, ReceiverTypes
<1>1. CASE Receives
  <2>1. PICK m : /\ Arrives(m)
                 /\ \/ ReceiveInfo(m) \/ ReceivePiece(m) \/ ReceiveEOF(m) \/ ReceiveEOF_Throws(m)
                    \/ ReceiveMention(m) \/ ReceiveText(m)
    BY <1>1 DEF Receives, Receive
  <2>2. toTarget' \in Seq(ClientRecord)
    BY <2>1, ArrivesTyped
  <2>3. m \in ClientRecord
    BY <2>1, ArrivesTyped
  <2>4. CASE ReceiveInfo(m)
    <3>1. filename' \in Names
      BY <2>3, <2>4, KindOfRecord DEF ReceiveInfo, InfoIn, Announces, Names
    <3>2. hash' \in Hashes
      BY <2>3, <2>4, KindOfRecord DEF ReceiveInfo, InfoIn, Announces, Hashes
    <3> QED
      BY <2>2, <2>4, <3>1, <3>2 DEF ReceiveInfo
  <2>5. CASE ReceivePiece(m)
    <3> DEFINE x == IF m.is = "text" THEN "chat" ELSE IF m.piece = "NUL~" THEN "cut" ELSE m.piece
    <3>1. x \in Pieces
      BY <2>3, <2>5, KindOfRecord, OwnPieces DEF ReceivePiece, PieceIn
    <3>2. fileBuffer' = Append(fileBuffer, x)
      BY <2>5 DEF ReceivePiece
    <3> HIDE DEF x
    <3>3. fileBuffer' \in Seq(Pieces)
      BY <3>1, <3>2
    <3> QED
      BY <2>2, <2>5, <3>3 DEF ReceivePiece
  <2>6. CASE ReceiveEOF(m)
    <3>1. filename' = NoName /\ fileBuffer' = <<>> /\ hash' = NoHash /\ isReceivingFileMode' = FALSE
      BY <2>6 DEF ReceiveEOF
    <3>2. fileBuffer' \in Seq(Pieces) /\ hash' \in Hashes
      BY <3>1 DEF NoHash, Hashes
    <3>3. \A p \in DOMAIN clientDisk' : clientDisk'[p] \in Seq(Pieces)
      BY <2>6 DEF ReceiveEOF, Store, Restrict
    <3> QED
      BY <2>2, <3>1, <3>2, <3>3 DEF Names
  <2>7. CASE ReceiveEOF_Throws(m)
    BY <2>2, <2>7 DEF ReceiveEOF_Throws
  <2>8. CASE ReceiveMention(m)
    BY <2>2, <2>8 DEF ReceiveMention
  <2>9. CASE ReceiveText(m)
    BY <2>2, <2>9 DEF ReceiveText, receiver
  <2> QED
    BY <2>1, <2>4, <2>5, <2>6, <2>7, <2>8, <2>9
<1>2. ASSUME UNCHANGED receiver,
             toTarget' = toTarget \/ \E m \in ClientRecord : toTarget' = Append(toTarget, m)
      PROVE  ReceiverTypes'
  BY <1>2 DEF receiver
<1>3. ASSUME NEW s \in Senders, Worker(s) \/ StartTransfer(s) \/ SendPiece(s) \/ Disappear(s)
      PROVE  ReceiverTypes'
  <2>1. UNCHANGED receiver
    BY <1>3, Zenon DEF StartTransfer, SendPiece, Disappear, Worker, Upload, Relay, Reads, BeginUpload, UploadPiece,
                UploadEnd, UploadBroken, BeginRelay, RelayPiece, RelayEnd, RelayBroken, RelayWrite,
                RelayAnswer, Notice, ReadStray
  <2>2. CASE RelayWrite(s)
    <3>1. Head(outbox[s]) \in ClientRecord /\ toTarget' = Append(toTarget, Head(outbox[s]))
      BY <2>2 DEF RelayWrite, WorkerTypes
    <3> QED
      BY <1>2, <2>1, <3>1
  <2>3. CASE Notice(s)
    <3>1. job[s].notice \in Mentions
      BY JobTyped DEF WorkerTypes, NoJob, Mentions
    <3>2. PICK m : m = Text(job[s].notice)
      OBVIOUS
    <3>3. m \in ClientRecord /\ toTarget' = Append(toTarget, m)
      BY <2>3, <3>1, <3>2 DEF Notice, Text, ClientRecord
    <3> QED
      BY <1>2, <2>1, <3>3
  <2>4. CASE ~RelayWrite(s) /\ ~Notice(s)
    <3>1. UNCHANGED toTarget
      BY <1>3, <2>4, Zenon DEF StartTransfer, SendPiece, Disappear, Worker, Upload, Relay, Reads, BeginUpload,
                        UploadPiece, UploadEnd, UploadBroken, BeginRelay, RelayPiece, RelayEnd, RelayBroken,
                        RelayAnswer, ReadStray
    <3> QED
      BY <1>2, <2>1, <3>1
  <2> QED
    BY <2>2, <2>3, <2>4
<1>4. CASE Mention
  <2>1. Text(mention) \in ClientRecord /\ toTarget' = Append(toTarget, Text(mention))
    BY <1>4 DEF Mention, Text, ClientRecord, SenderTypes
  <2>2. UNCHANGED receiver
    BY <1>4 DEF Mention
  <2> QED
    BY <1>2, <2>1, <2>2
<1>5. CASE Tick
  BY <1>2, <1>5 DEF Tick
<1> QED
  BY <1>1, <1>3, <1>4, <1>5 DEF Next

-----------------------------------------------------------------------------
(* Sender and worker keep in turn.                                         *)

LEMMA InitInTurn == Init => InTurn
<1> SUFFICES ASSUME Init, NEW s \in Senders
             PROVE  Stage(s)
  BY DEF InTurn
<1>1. /\ turn[s] = 0 /\ wire[s] = <<>> /\ verdict[s] = <<>> /\ got[s] = <<>> /\ place[s] = "command"
  BY DEF Init
<1>2. plan[s] \in Seq(Jobs)
  BY InitTypes DEF Types, SenderTypes
<1> QED
  BY <1>1, <1>2, Bounds DEF Stage, AtRest

(* What one sender and its worker do leaves the others where they are.     *)
LEMMA StageFrame ==
  ASSUME NEW s \in Senders, Stage(s), plan' = plan, turn'[s] = turn[s], verdict'[s] = verdict[s],
         place'[s] = place[s], wire'[s] = wire[s], left'[s] = left[s], job'[s] = job[s],
         got'[s] = got[s], outbox'[s] = outbox[s], s \in gone => s \in gone'
  PROVE  Stage(s)'
<1>1. Current(s)' = Current(s)
  BY DEF Current
<1>2. AtRest(s) => AtRest(s)'
  BY DEF AtRest
<1>3. Asked(s) => Asked(s)'
  BY <1>1 DEF Asked, Letters
<1>4. Receiving(s) => Receiving(s)'
  BY <1>1 DEF Receiving, InPieces, Letters, HasEOF
<1>5. Relaying(s) => Relaying(s)'
  <2>1. UpToEOF(job[s].file.pieces)' = UpToEOF(job[s].file.pieces)
    BY DEF UpToEOF, HasEOF
  <2>2. Records(job[s].file.name, got[s])' = Records(job[s].file.name, got[s])
    BY DEF Records, Info, Hash, File, End
  <2>3. Range(job[s].file.pieces)' = Range(job[s].file.pieces)
    BY DEF Range
  <2> QED
    BY <1>1, <2>1, <2>2, <2>3 DEF Relaying, RestOf
<1> QED
  BY <1>2, <1>3, <1>4, <1>5 DEF Stage

(* The records of one sender, as the steps below need them.                *)
LEMMA OneTyped ==
  ASSUME Types, NEW s \in Senders
  PROVE  /\ turn[s] \in Nat /\ plan[s] \in Seq(Jobs) /\ left[s] \in Seq(Pieces)
         /\ wire[s] \in Seq(WireRecord) /\ got[s] \in Seq(Pieces) /\ verdict[s] \in Seq(Outcome)
         /\ outbox[s] \in Seq(ClientRecord)
  BY DEF Types, SenderTypes, WorkerTypes

LEMMA CurrentTyped ==
  ASSUME Types, NEW s \in Senders, turn[s] <= Len(plan[s]), Len(verdict[s]) + 1 = turn[s]
  PROVE  Current(s) \in Jobs /\ turn[s] \in 1 .. Len(plan[s])
<1>1. turn[s] \in 1 .. Len(plan[s])
  BY OneTyped
<1> QED
  BY <1>1, OneTyped DEF Current

(* A piece is written to the wire, and read from it.                       *)
LEMMA PieceSent ==
  ASSUME NEW L, Len(L) \in Nat, NEW g \in Seq(Pieces), NEW l \in Seq(Pieces), l # <<>>,
         NEW w, w = <<>>, InPieces(L, g, w, l),
         NEW k, k = Tail(l), NEW v, v = <<[is |-> "piece", text |-> Head(l)]>>
  PROVE  InPieces(L, g, v, k)
<1> DEFINE r == [is |-> "piece", text |-> Head(l)]
<1>1. Len(k) \in Nat /\ Len(l) = Len(k) + 1 /\ Head(l) = l[1] /\ \A i \in 1 .. Len(k) : k[i] = l[i + 1]
  OBVIOUS
<1>2. /\ Len(g) \in Nat /\ Len(g) + Len(l) = Len(L)
      /\ \A i \in 1 .. Len(g) : g[i] = L[i] /\ ~HasEOF(L[i])
      /\ \A i \in 1 .. Len(l) : l[i] = L[Len(g) + i]
  BY DEF InPieces
<1>3. Len(v) = 1 /\ v[1] = r
  OBVIOUS
<1>4. l[1] = L[Len(g) + 1]
  BY <1>1, <1>2
<1>5. ASSUME NEW i \in 1 .. Len(k)
      PROVE  k[i] = L[Len(g) + 1 + i]
  <2>1. k[i] = l[i + 1] /\ i + 1 \in 1 .. Len(l)
    BY <1>1
  <2>2. l[i + 1] = L[Len(g) + (i + 1)]
    BY <1>2, <2>1
  <2> QED
    BY <1>1, <1>2, <2>1, <2>2
<1>6. r = [is |-> "piece", text |-> L[Len(g) + 1]]
  BY <1>1, <1>4
<1>7. Len(g) + Len(v) + Len(k) = Len(L)
  BY <1>1, <1>2, <1>3
<1> HIDE DEF r
<1> QED
  BY <1>2, <1>3, <1>5, <1>6, <1>7 DEF InPieces

LEMMA PieceTaken ==
  ASSUME NEW L, Len(L) \in Nat, NEW g \in Seq(Pieces), NEW l \in Seq(Pieces),
         NEW w \in Seq(WireRecord), w # <<>>, InPieces(L, g, w, l), ~HasEOF(Head(w).text),
         NEW h, h = Append(g, Head(w).text), NEW v, v = Tail(w)
  PROVE  InPieces(L, h, v, l)
<1> DEFINE x == Head(w).text
<1>1. Len(w) = 1
  <2> DEFINE n == Len(w)
  <2>1. n \in Nat /\ n # 0 /\ n <= 1
    BY DEF InPieces
  <2> HIDE DEF n
  <2>2. n = 1
    BY <2>1
  <2> QED
    BY <2>2 DEF n
<1>2. /\ Len(g) \in Nat /\ Len(l) \in Nat /\ Len(g) + 1 + Len(l) = Len(L)
      /\ \A i \in 1 .. Len(g) : g[i] = L[i] /\ ~HasEOF(L[i])
      /\ w[1] = [is |-> "piece", text |-> L[Len(g) + 1]]
      /\ \A i \in 1 .. Len(l) : l[i] = L[Len(g) + 1 + i]
  BY <1>1 DEF InPieces
<1>3. x = L[Len(g) + 1]
  <2>1. Head(w) = w[1]
    BY <1>1
  <2> QED
    BY <1>2, <2>1
<1>4. v = <<>> /\ Len(v) = 0
  BY <1>1
<1>5. h \in Seq(Pieces \cup {x})
  OBVIOUS
<1>6. Len(h) = Len(g) + 1 /\ h[Len(g) + 1] = x /\ \A i \in 1 .. Len(g) : h[i] = g[i]
  OBVIOUS
<1>7. ~HasEOF(x)
  OBVIOUS
<1> HIDE DEF x, HasEOF
<1>8. ASSUME NEW i \in 1 .. Len(h)
      PROVE  h[i] = L[i] /\ ~HasEOF(L[i])
  <2>1. CASE i = Len(g) + 1
    BY <1>3, <1>6, <1>7, <2>1
  <2>2. CASE i # Len(g) + 1
    <3>1. i \in 1 .. Len(g)
      BY <1>2, <1>6, <2>2
    <3> QED
      BY <1>2, <1>6, <3>1
  <2> QED
    BY <2>1, <2>2
<1> DEFINE n == Len(h)
           m == Len(v)
<1>9. n = Len(g) + 1 /\ m = 0
  BY <1>4, <1>6
<1> HIDE DEF n, m
<1>10. /\ \A i \in 1 .. Len(l) : l[i] = L[n + m + i]
       /\ n + m + Len(l) = Len(L) /\ m <= 1 /\ m # 1
  BY <1>2, <1>9
<1> QED
  BY <1>8, <1>10 DEF InPieces, n, m

(* The end is read: what was received is the file up to it.                *)
LEMMA EndTaken ==
  ASSUME NEW f, f.pieces \in Seq(Pieces), NEW g \in Seq(Pieces), NEW l \in Seq(Pieces),
         NEW w \in Seq(WireRecord), w # <<>>, InPieces(Letters(f), g, w, l), HasEOF(Head(w).text)
  PROVE  /\ UpToEOF(f.pieces) = g
         /\ \A i \in 1 .. Len(g) : g[i] \in Range(f.pieces)
<1> DEFINE p == f.pieces
           L == Append(p, "EOF")
<1>0. Letters(f) = L /\ L \in Seq(Pieces) /\ Len(L) = Len(p) + 1 /\ \A i \in 1 .. Len(p) : L[i] = p[i]
  BY OwnPieces DEF Letters
<1> HIDE DEF L
<1>1. Len(w) = 1
  <2> DEFINE n == Len(w)
  <2>1. n \in Nat /\ n # 0 /\ n <= 1
    BY DEF InPieces
  <2> HIDE DEF n
  <2>2. n = 1
    BY <2>1
  <2> QED
    BY <2>2 DEF n
<1>2. /\ Len(g) \in Nat /\ Len(l) \in Nat /\ Len(g) + 1 + Len(l) = Len(L)
      /\ \A i \in 1 .. Len(g) : g[i] = L[i] /\ ~HasEOF(L[i])
      /\ w[1] = [is |-> "piece", text |-> L[Len(g) + 1]]
  BY <1>0, <1>1 DEF InPieces
<1>3. HasEOF(L[Len(g) + 1])
  <2>1. Head(w) = w[1]
    BY <1>1
  <2> QED
    BY <1>2, <2>1
<1> HIDE DEF HasEOF
<1>4. Len(g) <= Len(p)
  BY <1>0, <1>2
<1>5. \A i \in 1 .. Len(g) : g[i] = p[i] /\ ~HasEOF(p[i])
  BY <1>0, <1>2, <1>4
<1>6. Len(g) = Len(p) \/ HasEOF(p[Len(g) + 1])
  <2>1. CASE Len(g) # Len(p)
    <3>1. Len(g) + 1 \in 1 .. Len(p)
      BY <1>0, <1>2, <1>4, <2>1
    <3> QED
      BY <1>0, <1>3, <3>1
  <2> QED
    BY <2>1
<1> HIDE DEF p
<1>7. p \in Seq(Pieces)
  BY DEF p
<1>8. UpToEOF(p) = g
  BY <1>4, <1>5, <1>6, <1>7, UpToEOFIs
<1>9. ASSUME NEW i \in 1 .. Len(g)
      PROVE  g[i] \in Range(p)
  <2>1. i \in 1 .. Len(p) /\ g[i] = p[i]
    BY <1>2, <1>4, <1>5, <1>7
  <2>2. p[i] \in Range(p)
    BY <1>7, <2>1 DEF Range
  <2> QED
    BY <2>1, <2>2
<1> QED
  BY <1>8, <1>9 DEF p

LEMMA StartStage ==
  ASSUME Types, NEW s \in Senders, Stage(s), StartTransfer(s)
  PROVE  Stage(s)'
<1> DEFINE j == plan[s][turn[s] + 1]
           r == [is |-> "name", job |-> j]
<1>1. /\ s \notin gone /\ left[s] = <<>> /\ Len(verdict[s]) >= turn[s] /\ turn[s] < Len(plan[s])
      /\ wire'[s] = Append(wire[s], r)
      /\ left'[s] = IF j.file.audio THEN <<>> ELSE Letters(j.file)
      /\ turn'[s] = turn[s] + 1
      /\ UNCHANGED <<plan, verdict, place, got>>
  BY DEF StartTransfer, Answered, Types, SenderTypes, WorkerTypes, frozen, worker, Letters
<1>2. AtRest(s)
  BY <1>1, OneTyped DEF Stage, Asked, Receiving, Relaying
<1>3. Current(s)' = j
  BY <1>1 DEF Current
<1>4. Len(wire[s]) \in {0, 1} /\ wire'[s] = Append(wire[s], r)
  <2> DEFINE n == Len(wire[s])
  <2>1. n \in Nat /\ n <= 1
    BY <1>2, OneTyped DEF AtRest
  <2> HIDE DEF n
  <2>2. n \in {0, 1}
    BY <2>1
  <2> QED
    BY <1>1, <2>2 DEF n
<1>5. /\ Len(wire'[s]) = Len(wire[s]) + 1 /\ wire'[s][Len(wire'[s])] = r
      /\ \A i \in 1 .. Len(wire[s]) : wire'[s][i] = wire[s][i]
  BY <1>4, OneTyped
<1>6. Len(wire'[s]) = 2 => wire'[s][1].is = "piece"
  BY <1>2, <1>4, <1>5 DEF AtRest
<1>7. place[s] \in {"command", "notice"}
  BY <1>1, <1>2 DEF AtRest
<1>8. Len(verdict'[s]) + 1 = turn'[s] /\ turn'[s] <= Len(plan[s])
  BY <1>1, <1>2, OneTyped DEF AtRest
<1>9. Asked(s)'
  BY <1>1, <1>3, <1>4, <1>5, <1>6, <1>7, <1>8 DEF Asked, Letters
<1> QED
  BY <1>1, <1>8, <1>9 DEF Stage

LEMMA SendStage ==
  ASSUME Types, NEW s \in Senders, Stage(s), SendPiece(s)
  PROVE  Stage(s)'
<1> DEFINE r == [is |-> "piece", text |-> Head(left[s])]
<1>1. /\ wire[s] = <<>> /\ left[s] # <<>> /\ wire'[s] = <<r>> /\ left'[s] = Tail(left[s])
      /\ UNCHANGED <<plan, verdict, place, got, turn, job, outbox, gone>>
  BY DEF SendPiece, Types, SenderTypes, WorkerTypes, frozen, worker
<1>2. Len(wire[s]) = 0 /\ Len(wire'[s]) = 1 /\ wire'[s][1] = r
  BY <1>1
<1>3. CASE AtRest(s)
  BY <1>1, <1>2, <1>3 DEF AtRest, Stage
<1>4. CASE Asked(s)
  BY <1>2, <1>4 DEF Asked
<1>5. CASE Receiving(s)
  <2> DEFINE L == Letters(job[s].file)
  <2>1. InPieces(L, got[s], wire[s], left[s])
    BY <1>5 DEF Receiving
  <2>2. Len(L) \in Nat
    BY <1>5, CurrentTyped, JobTyped DEF Receiving, Stage
  <2> HIDE DEF L, r
  <2>3. InPieces(L, got[s], wire'[s], left'[s])
    BY <1>1, <2>1, <2>2, OneTyped, PieceSent DEF r
  <2>4. InPieces(L, got[s], wire[s], left[s])'
    BY <1>1, <2>3 DEF InPieces, HasEOF, L, Letters
  <2>5. Receiving(s)'
    BY <1>1, <1>5, <2>4 DEF Receiving, Current, L
  <2> QED
    BY <1>1, <2>5 DEF Stage
<1>6. CASE Relaying(s)
  <2>1. UpToEOF(job[s].file.pieces)' = UpToEOF(job[s].file.pieces)
    BY <1>1 DEF UpToEOF, HasEOF
  <2>2. Records(job[s].file.name, got[s])' = Records(job[s].file.name, got[s])
    BY <1>1 DEF Records, Info, Hash, File, End
  <2>3. RestOf(Records(job[s].file.name, got[s]), outbox[s])'
    BY <1>1, <1>6, <2>2 DEF Relaying, RestOf
  <2>4. Range(job[s].file.pieces)' = Range(job[s].file.pieces)
    BY <1>1 DEF Range
  <2>5. \A i \in 1 .. Len(got'[s]) : got'[s][i] \in Range(job[s].file.pieces)'
    BY <1>1, <1>6, <2>4 DEF Relaying
  <2>6. got'[s] = UpToEOF(job[s].file.pieces)'
    BY <1>1, <1>6, <2>1 DEF Relaying
  <2> HIDE DEF r
  <2>7. Len(wire'[s]) <= 1 /\ \A i \in 1 .. Len(wire'[s]) : wire'[s][i].is = "piece"
    BY <1>2 DEF r
  <2>8. Relaying(s)'
    BY <1>1, <1>6, <2>3, <2>5, <2>6, <2>7, Zenon DEF Relaying, Current
  <2> QED
    BY <1>1, <2>8 DEF Stage
<1> QED
  BY <1>3, <1>4, <1>5, <1>6 DEF Stage

(* The transfer has been answered.                                         *)
LEMMA AnsweredStage ==
  ASSUME Types, NEW s \in Senders, NEW j, NEW how, Ends(s, j, how),
         Len(verdict[s]) + 1 = turn[s], turn[s] <= Len(plan[s]), turn' = turn, plan' = plan,
         place'[s] \in {"command", "notice", "closed"}, place'[s] = "closed" => s \in gone',
         Len(wire'[s]) <= 1, \A i \in 1 .. Len(wire'[s]) : wire'[s][i].is = "piece",
         Len(got'[s]) <= MaxPieces
  PROVE  Stage(s)'
<1>1. Len(verdict'[s]) = Len(verdict[s]) + 1
  BY OneTyped DEF Ends, Types, WorkerTypes
<1>2. AtRest(s)'
  BY <1>1 DEF AtRest
<1> QED
  BY <1>2 DEF Stage

(* Taking the first of one, and of some.                                   *)
LEMMA TailOfOne ==
  ASSUME NEW S, NEW q \in Seq(S), Len(q) = 1, NEW r, r = Tail(q)
  PROVE  r = <<>> /\ Len(r) = 0
  OBVIOUS

LEMMA TailOfSome ==
  ASSUME NEW S, NEW q \in Seq(S), q # <<>>, NEW r, r = Tail(q)
  PROVE  /\ r \in Seq(S) /\ Len(q) = Len(r) + 1 /\ Head(q) = q[1] /\ q[1] \in S
         /\ \A i \in 1 .. Len(r) : r[i] = q[i + 1]
  OBVIOUS

LEMMA RestOfTail ==
  ASSUME NEW S, NEW R \in Seq(S), NEW out \in Seq(S), out # <<>>, RestOf(R, out),
         NEW r, r = Tail(out)
  PROVE  RestOf(R, r)
<1>1. /\ r \in Seq(S) /\ Len(out) = Len(r) + 1 /\ \A i \in 1 .. Len(r) : r[i] = out[i + 1]
  BY TailOfSome
<1>2. Len(out) <= Len(R) /\ \A i \in 1 .. Len(out) : out[i] = R[Len(R) - Len(out) + i]
  BY DEF RestOf
<1>3. ASSUME NEW i \in 1 .. Len(r)
      PROVE  r[i] = R[Len(R) - Len(r) + i]
  <2>1. i + 1 \in 1 .. Len(out) /\ r[i] = out[i + 1]
    BY <1>1
  <2>2. out[i + 1] = R[Len(R) - Len(out) + (i + 1)]
    BY <1>2, <2>1
  <2>3. Len(R) - Len(out) + (i + 1) = Len(R) - Len(r) + i
    BY <1>1
  <2> QED
    BY <2>1, <2>2, <2>3
<1>4. Len(r) <= Len(R)
  BY <1>1, <1>2
<1> QED
  BY <1>3, <1>4 DEF RestOf

(* The only record on the wire is read.                                    *)
LEMMA OnlyRead ==
  ASSUME Types, NEW s \in Senders, NEW at, NEW kind, Reads(s, at, kind), Len(wire[s]) <= 1
  PROVE  wire'[s] = <<>> /\ Len(wire'[s]) = 0 /\ Len(wire[s]) = 1
<1> DEFINE n == Len(wire[s])
<1>1. n \in Nat /\ n # 0 /\ n <= 1
  BY OneTyped DEF Reads
<1> HIDE DEF n
<1>2. n = 1
  BY <1>1
<1>3. wire'[s] = Tail(wire[s])
  BY DEF Reads, Types, WorkerTypes
<1> QED
  BY <1>2, <1>3, OneTyped, TailOfOne DEF n

(* A name is read only when it was asked for, alone on the wire.           *)
LEMMA NameRead ==
  ASSUME Types, NEW s \in Senders, Stage(s), Reads(s, "command", "name")
  PROVE  /\ Asked(s) /\ Head(wire[s]).job = Current(s) /\ wire'[s] = <<>> /\ Len(wire'[s]) = 0
         /\ Current(s) \in Jobs
<1>1. place[s] = "command" /\ wire[s] # <<>> /\ Head(wire[s]) = wire[s][1] /\ wire[s][1].is = "name"
  BY OneTyped DEF Reads
<1>2. ~AtRest(s)
  <2>1. 1 \in 1 .. Len(wire[s])
    BY <1>1, OneTyped
  <2> QED
    BY <1>1, <2>1 DEF AtRest
<1>3. Asked(s)
  BY <1>1, <1>2 DEF Stage, Receiving, Relaying
<1>4. Len(wire[s]) = 1
  BY <1>1, <1>3 DEF Asked
<1>5. Head(wire[s]).job = Current(s)
  BY <1>1, <1>3, <1>4 DEF Asked
<1>6. Current(s) \in Jobs
  BY <1>3, CurrentTyped DEF Stage, Asked
<1>7. wire'[s] = <<>> /\ Len(wire'[s]) = 0
  <2>1. Len(wire[s]) <= 1
    BY <1>4
  <2> QED
    BY <2>1, OnlyRead
<1> QED
  BY <1>3, <1>5, <1>6, <1>7

(* A file is about to be received, in pieces.                              *)
LEMMA BeginStage ==
  ASSUME Types, NEW s \in Senders, Stage(s), Reads(s, "command", "name"),
         ~Current(s).file.audio, job' = [job EXCEPT ![s] = Current(s)],
         got' = [got EXCEPT ![s] = <<>>], Goto(s, "receiving"), verdict' = verdict
  PROVE  Stage(s)'
<1>1. /\ UNCHANGED <<plan, turn, left>> /\ verdict' = verdict /\ wire'[s] = <<>>
      /\ job'[s] = Current(s) /\ got'[s] = <<>> /\ place'[s] = "receiving"
  BY NameRead DEF Reads, frozen, senders, Goto, Types, WorkerTypes
<1>2. Asked(s) /\ Current(s) \in Jobs
  BY NameRead
<1> DEFINE L == Letters(Current(s).file)
<1>3. L \in Seq(Pieces) /\ left[s] = L
  BY <1>2, JobTyped DEF Asked
<1> HIDE DEF L
<1>4. InPieces(L, <<>>, <<>>, L)
  BY <1>3 DEF InPieces
<1>5. L' = L /\ Current(s)' = Current(s)
  BY <1>1 DEF L, Letters, Current
<1>6. InPieces(L, got[s], wire[s], left[s])'
  BY <1>1, <1>3, <1>4, <1>5, Zenon DEF InPieces, HasEOF
<1>7. InPieces(Letters(job[s].file), got[s], wire[s], left[s])'
  BY <1>1, <1>5, <1>6 DEF L
<1>8. Receiving(s)'
  BY <1>1, <1>2, <1>5, <1>7, Bounds DEF Receiving, Asked
<1> QED
  BY <1>1, <1>8, Bounds DEF Stage

(* The next piece of a file is received.                                   *)
LEMMA PieceStage ==
  ASSUME Types, NEW s \in Senders, Stage(s), Reads(s, "receiving", "piece"), ~HasEOF(Piece(s)),
         Len(got[s]) + 1 <= MaxPieces, got' = [got EXCEPT ![s] = Append(got[s], Piece(s))],
         UNCHANGED <<place, job, verdict>>
  PROVE  Stage(s)'
<1>1. Receiving(s)
  BY DEF Reads, Stage, AtRest, Asked, Relaying
<1>2. /\ UNCHANGED <<plan, turn, left>> /\ wire'[s] = Tail(wire[s]) /\ wire[s] # <<>>
      /\ got'[s] = Append(got[s], Head(wire[s]).text) /\ ~HasEOF(Head(wire[s]).text)
  BY DEF Reads, frozen, senders, Types, WorkerTypes, Piece
<1> DEFINE L == Letters(job[s].file)
<1>3. Len(L) \in Nat
  BY <1>1, CurrentTyped, JobTyped DEF Receiving, Stage
<1>4. InPieces(L, got[s], wire[s], left[s])
  BY <1>1 DEF Receiving
<1> HIDE DEF L
<1>5. InPieces(L, got'[s], wire'[s], left[s])
  BY <1>2, <1>3, <1>4, OneTyped, PieceTaken
<1>6. L' = L
  BY DEF L, Letters
<1>7. InPieces(L, got[s], wire[s], left[s])'
  BY <1>2, <1>5, <1>6 DEF InPieces, HasEOF
<1>8. Len(got'[s]) <= MaxPieces
  <2>1. Piece(s) \in Pieces
    BY ReadsTyped
  <2>2. Len(got'[s]) = Len(got[s]) + 1
    BY <1>2, <2>1, OneTyped DEF Piece
  <2> QED
    BY <2>2
<1>9. Receiving(s)'
  BY <1>1, <1>2, <1>7, <1>8 DEF Receiving, Current, L
<1> QED
  BY <1>2, <1>8, <1>9 DEF Stage

LEMMA RelayEndStage ==
  ASSUME Types, NEW s \in Senders, Stage(s), RelayEnd(s)
  PROVE  Stage(s)'
<1>1. Reads(s, "receiving", "piece") /\ job[s].mode = "4" /\ HasEOF(Piece(s))
  BY DEF RelayEnd
<1>2. Receiving(s)
  BY <1>1 DEF Reads, Stage, AtRest, Asked, Relaying
<1>3. Len(wire'[s]) = 0
  BY <1>1, <1>2, OnlyRead DEF Receiving, InPieces
<1> DEFINE R == Records(job[s].file.name, got[s])
<1>4. /\ UNCHANGED <<plan, turn, job, got, verdict>> /\ place'[s] = "relaying" /\ outbox'[s] = R
  BY DEF RelayEnd, Reads, frozen, senders, Goto, Types, WorkerTypes
<1>5. job[s] \in Jobs /\ job[s] = Current(s)
  BY <1>2, CurrentTyped DEF Receiving, Stage
<1>6. /\ got[s] = UpToEOF(job[s].file.pieces)
      /\ \A i \in 1 .. Len(got[s]) : got[s][i] \in Range(job[s].file.pieces)
  BY <1>1, <1>2, <1>5, OneTyped, JobTyped, EndTaken DEF Receiving, Reads, Piece
<1>7. RestOf(R, R)
  <2>1. R \in Seq(ClientRecord)
    BY <1>5, OneTyped, RecordsTyped DEF FileNames
  <2> HIDE DEF R
  <2> QED
    BY <2>1 DEF RestOf
<1>8. UpToEOF(job[s].file.pieces)' = UpToEOF(job[s].file.pieces)
  BY <1>4 DEF UpToEOF, HasEOF
<1>9. R' = R
  BY <1>4 DEF Records, Info, Hash, File, End
<1>10. RestOf(R, outbox[s])'
  BY <1>4, <1>7, <1>9 DEF RestOf
<1>11. Relaying(s)'
  <2>1. got'[s] = UpToEOF(job[s].file.pieces)'
    BY <1>4, <1>6, <1>8
  <2>2. job'[s] = Current(s)' /\ job'[s].mode = "4"
    BY <1>1, <1>4, <1>5 DEF Current
  <2>3. \A i \in 1 .. Len(got'[s]) : got'[s][i] \in Range(job[s].file.pieces)'
    BY <1>4, <1>6 DEF Range
  <2> QED
    BY <1>2, <1>3, <1>4, <1>10, <2>1, <2>2, <2>3 DEF Relaying, Receiving
<1> QED
  BY <1>4, <1>11 DEF Stage

LEMMA RelayWriteStage ==
  ASSUME Types, NEW s \in Senders, Stage(s), RelayWrite(s)
  PROVE  Stage(s)'
<1>1. Relaying(s)
  BY DEF RelayWrite, Stage, AtRest, Asked, Receiving
<1>2. /\ UNCHANGED <<plan, turn, job, got, verdict, place, wire>>
      /\ outbox[s] # <<>> /\ outbox'[s] = Tail(outbox[s])
  BY DEF RelayWrite, frozen, senders, Types, WorkerTypes
<1> DEFINE R == Records(job[s].file.name, got[s])
<1>3. job[s] \in Jobs
  BY <1>1, CurrentTyped DEF Relaying, Stage
<1>4. R \in Seq(ClientRecord)
  BY <1>3, OneTyped, RecordsTyped DEF FileNames
<1>5. UpToEOF(job[s].file.pieces)' = UpToEOF(job[s].file.pieces)
  BY <1>2 DEF UpToEOF, HasEOF
<1>6. R' = R
  BY <1>2 DEF Records, Info, Hash, File, End
<1>7. RestOf(R, outbox[s])
  BY <1>1 DEF Relaying
<1> HIDE DEF R
<1>8. RestOf(R, Tail(outbox[s]))
  BY <1>2, <1>4, <1>7, OneTyped, RestOfTail
<1>9. RestOf(R, outbox[s])'
  BY <1>2, <1>6, <1>8 DEF RestOf
<1>10. Range(job[s].file.pieces)' = Range(job[s].file.pieces)
  BY <1>2 DEF Range
<1>11. Relaying(s)'
  BY <1>1, <1>2, <1>5, <1>9, <1>10 DEF Relaying, Current, R
<1> QED
  BY <1>2, <1>11 DEF Stage

LEMMA WorkerStage ==
  ASSUME Types, NEW s \in Senders, Stage(s), Worker(s)
  PROVE  Stage(s)'
<1>0. 0 <= MaxPieces /\ Len(<<>>) <= MaxPieces
  BY Bounds
<1>1. CASE BeginUpload(s)
  <2> DEFINE j == Head(wire[s]).job
  <2>1. Reads(s, "command", "name") /\ job' = [job EXCEPT ![s] = j]
    BY <1>1 DEF BeginUpload
  <2>2. Asked(s) /\ j = Current(s) /\ Len(wire'[s]) = 0
    BY <2>1, NameRead
  <2>3. CASE j.file.audio
    <3>1. Ends(s, j, "failed") /\ UNCHANGED <<place, got>>
      BY <1>1, <2>3 DEF BeginUpload
    <3>2. UNCHANGED <<turn, plan>> /\ place'[s] = "command"
      BY <2>1, <3>1 DEF Reads, frozen, senders
    <3>3. Len(got'[s]) <= MaxPieces /\ Len(verdict[s]) + 1 = turn[s] /\ turn[s] <= Len(plan[s])
      BY <2>2, <3>1 DEF Asked, Stage
    <3> HIDE DEF j
    <3> QED
      BY <2>2, <3>1, <3>2, <3>3, AnsweredStage
  <2>4. CASE ~j.file.audio
    <3>1. got' = [got EXCEPT ![s] = <<>>] /\ Goto(s, "receiving") /\ verdict' = verdict
      BY <1>1, <2>4 DEF BeginUpload
    <3> QED
      BY <2>1, <2>2, <2>4, <3>1, BeginStage
  <2> QED
    BY <2>3, <2>4
<1>2. CASE UploadPiece(s)
  <2>1. Reads(s, "receiving", "piece") /\ ~HasEOF(Piece(s)) /\ job' = job
    BY <1>2 DEF UploadPiece
  <2>2. CASE Len(got[s]) + 1 > MaxPieces
    <3>1. UploadFails(s) /\ Goto(s, "command")
      BY <1>2, <2>2 DEF UploadPiece
    <3>2. Receiving(s)
      BY <2>1 DEF Reads, Stage, AtRest, Asked, Relaying
    <3>3. Len(wire'[s]) = 0
      BY <2>1, <3>2, OnlyRead DEF Receiving, InPieces
    <3>4. UNCHANGED <<turn, plan>> /\ got'[s] = <<>> /\ place'[s] = "command"
      BY <2>1, <3>1 DEF UploadFails, Goto, Reads, frozen, senders, Types, WorkerTypes
    <3>5. Ends(s, job[s], "failed")
      BY <3>1 DEF UploadFails
    <3> QED
      BY <1>0, <3>2, <3>3, <3>4, <3>5, AnsweredStage DEF Receiving, Stage
  <2>3. CASE Len(got[s]) + 1 <= MaxPieces
    <3>1. got' = [got EXCEPT ![s] = Append(got[s], Piece(s))] /\ UNCHANGED <<place, verdict>>
      BY <1>2, <2>3, OneTyped, Bounds DEF UploadPiece
    <3> QED
      BY <2>1, <2>3, <3>1, PieceStage
  <2> QED
    BY <2>2, <2>3, OneTyped, Bounds
<1>3. CASE UploadEnd(s)
  <2>1. Reads(s, "receiving", "piece") /\ Ends(s, job[s], "saved") /\ Goto(s, "command") /\ got' = got
    BY <1>3 DEF UploadEnd
  <2>2. Receiving(s)
    BY <2>1 DEF Reads, Stage, AtRest, Asked, Relaying
  <2>3. Len(wire'[s]) = 0
    BY <2>1, <2>2, OnlyRead DEF Receiving, InPieces
  <2>4. UNCHANGED <<turn, plan>> /\ place'[s] = "command"
    BY <2>1 DEF Goto, Reads, frozen, senders, Types, WorkerTypes
  <2> QED
    BY <2>1, <2>2, <2>3, <2>4, AnsweredStage DEF Receiving, Stage
<1>4. CASE UploadBroken(s)
  <2>1. /\ place[s] = "receiving" /\ s \in gone' /\ wire'[s] = <<>> /\ Ends(s, job[s], "failed")
        /\ place'[s] = "closed" /\ got'[s] = <<>> /\ UNCHANGED <<turn, plan>>
    BY <1>4 DEF UploadBroken, UploadFails, Goto, frozen, senders, Types, WorkerTypes
  <2>2. Receiving(s)
    BY <2>1 DEF Stage, AtRest, Asked, Relaying
  <2>3. Len(wire'[s]) = 0
    BY <2>1
  <2> QED
    BY <1>0, <2>1, <2>2, <2>3, AnsweredStage DEF Receiving, Stage
<1>5. CASE BeginRelay(s)
  <2> DEFINE j == Head(wire[s]).job
  <2>1. /\ Reads(s, "command", "name") /\ job' = [job EXCEPT ![s] = j]
        /\ got' = [got EXCEPT ![s] = <<>>]
    BY <1>5 DEF BeginRelay
  <2>2. Asked(s) /\ j = Current(s) /\ Len(wire'[s]) = 0
    BY <2>1, NameRead
  <2>3. CASE j.file.audio
    <3>1. Ends(s, j, "failed") /\ Goto(s, "notice")
      BY <1>5, <2>3 DEF BeginRelay
    <3>2. UNCHANGED <<turn, plan>> /\ place'[s] = "notice" /\ got'[s] = <<>>
      BY <2>1, <3>1 DEF Reads, frozen, senders, Goto, Types, WorkerTypes
    <3>3. Len(got'[s]) <= MaxPieces /\ Len(verdict[s]) + 1 = turn[s] /\ turn[s] <= Len(plan[s])
      BY <1>0, <2>2, <3>2 DEF Asked, Stage
    <3> HIDE DEF j
    <3> QED
      BY <2>2, <3>1, <3>2, <3>3, AnsweredStage
  <2>4. CASE ~j.file.audio
    <3>1. Goto(s, "receiving") /\ verdict' = verdict
      BY <1>5, <2>4 DEF BeginRelay
    <3> QED
      BY <2>1, <2>2, <2>4, <3>1, BeginStage
  <2> QED
    BY <2>3, <2>4
<1>6. CASE RelayPiece(s)
  <2>1. Reads(s, "receiving", "piece") /\ ~HasEOF(Piece(s)) /\ job' = job
    BY <1>6 DEF RelayPiece
  <2>2. CASE Len(got[s]) + 1 > MaxPieces
    <3>1. got' = [got EXCEPT ![s] = <<>>] /\ Ends(s, job[s], "failed") /\ Goto(s, "notice")
      BY <1>6, <2>2 DEF RelayPiece
    <3>2. Receiving(s)
      BY <2>1 DEF Reads, Stage, AtRest, Asked, Relaying
    <3>3. Len(wire'[s]) = 0
      BY <2>1, <3>2, OnlyRead DEF Receiving, InPieces
    <3>4. UNCHANGED <<turn, plan>> /\ got'[s] = <<>> /\ place'[s] = "notice"
      BY <2>1, <3>1 DEF Goto, Reads, frozen, senders, Types, WorkerTypes
    <3> QED
      BY <1>0, <3>1, <3>2, <3>3, <3>4, AnsweredStage DEF Receiving, Stage
  <2>3. CASE Len(got[s]) + 1 <= MaxPieces
    <3>1. got' = [got EXCEPT ![s] = Append(got[s], Piece(s))] /\ UNCHANGED <<place, verdict>>
      BY <1>6, <2>3, OneTyped, Bounds DEF RelayPiece
    <3> QED
      BY <2>1, <2>3, <3>1, PieceStage
  <2> QED
    BY <2>2, <2>3, OneTyped, Bounds
<1>7. CASE RelayEnd(s)
  BY <1>7, RelayEndStage
<1>8. CASE RelayBroken(s)
  <2>1. /\ place[s] = "receiving" /\ wire'[s] = <<>> /\ Ends(s, job[s], "failed")
        /\ place'[s] = "notice" /\ got'[s] = <<>> /\ UNCHANGED <<turn, plan>>
    BY <1>8 DEF RelayBroken, Goto, frozen, senders, Types, WorkerTypes
  <2>2. Receiving(s)
    BY <2>1 DEF Stage, AtRest, Asked, Relaying
  <2>3. Len(wire'[s]) = 0
    BY <2>1
  <2> QED
    BY <1>0, <2>1, <2>2, <2>3, AnsweredStage DEF Receiving, Stage
<1>9. CASE RelayWrite(s)
  BY <1>9, RelayWriteStage
<1>10. CASE RelayAnswer(s)
  <2>1. /\ place[s] = "relaying" /\ Ends(s, job[s], "relayed") /\ place'[s] = "notice"
        /\ UNCHANGED <<turn, plan, wire, got>>
    BY <1>10 DEF RelayAnswer, Goto, frozen, senders, Types, WorkerTypes
  <2>2. Relaying(s)
    BY <2>1 DEF Stage, AtRest, Asked, Receiving
  <2> QED
    BY <2>1, <2>2, AnsweredStage DEF Relaying, Stage
<1>11. CASE Notice(s)
  <2>1. /\ place[s] = "notice" /\ place'[s] = "command"
        /\ UNCHANGED <<turn, plan, wire, got, verdict, left, gone>>
    BY <1>11 DEF Notice, Goto, frozen, senders, Types, WorkerTypes
  <2>2. AtRest(s) \/ Asked(s)
    BY <2>1 DEF Stage, Receiving, Relaying
  <2> QED
    BY <2>1, <2>2 DEF Stage, AtRest, Asked, Current, Letters
<1>12. CASE ReadStray(s)
  <2>1. /\ place[s] = "command" /\ wire[s] # <<>> /\ wire'[s] = Tail(wire[s]) /\ Head(wire[s]).is = "piece"
        /\ UNCHANGED <<turn, plan, got, verdict, left, gone, place>>
    BY <1>12 DEF ReadStray, Reads, worker, frozen, senders, Types, WorkerTypes
  <2>2. /\ wire'[s] \in Seq(WireRecord) /\ Len(wire[s]) = Len(wire'[s]) + 1 /\ Head(wire[s]) = wire[s][1]
        /\ \A i \in 1 .. Len(wire'[s]) : wire'[s][i] = wire[s][i + 1]
    BY <2>1, OneTyped, TailOfSome
  <2>3. CASE AtRest(s)
    <3>1. Len(wire'[s]) = 0
      BY <2>2, <2>3 DEF AtRest
    <3> QED
      BY <2>1, <2>3, <3>1 DEF Stage, AtRest
  <2>4. CASE Asked(s)
    <3>1. Len(wire[s]) # 1
      BY <2>1, <2>2, <2>4 DEF Asked
    <3> DEFINE n == Len(wire[s])
               m == Len(wire'[s])
    <3>2. m = 1 /\ wire'[s][1] = wire[s][2] /\ n = 2
      <4>1. /\ n \in {1, 2} /\ n # 1 /\ n = m + 1 /\ m \in Nat
            /\ \A i \in 1 .. m : wire'[s][i] = wire[s][i + 1]
        BY <2>2, <2>4, <3>1 DEF Asked
      <4> HIDE DEF n, m
      <4>2. m = 1 /\ n = 2
        BY <4>1
      <4> QED
        BY <4>1, <4>2
    <3> QED
      BY <2>1, <2>2, <2>4, <3>1, <3>2 DEF Stage, Asked, Current, Letters
  <2> QED
    BY <2>1, <2>3, <2>4 DEF Stage, Receiving, Relaying
<1> QED
  BY <1>1, <1>2, <1>3, <1>4, <1>5, <1>6, <1>7, <1>8, <1>9, <1>10, <1>11, <1>12 DEF Worker, Upload, Relay

LEMMA InTurnKept ==
  ASSUME Types, InTurn, Next
  PROVE  InTurn'
<1> SUFFICES ASSUME NEW s \in Senders
             PROVE  Stage(s)'
  BY DEF InTurn
<1>0. Stage(s)
  BY DEF InTurn
<1>1. ASSUME NEW t \in Senders, StartTransfer(t) \/ SendPiece(t) \/ Worker(t), t # s
      PROVE  Stage(s)'
  <2>1. /\ plan' = plan /\ turn'[s] = turn[s] /\ verdict'[s] = verdict[s] /\ place'[s] = place[s]
        /\ wire'[s] = wire[s] /\ left'[s] = left[s] /\ job'[s] = job[s] /\ got'[s] = got[s]
        /\ outbox'[s] = outbox[s] /\ gone' = gone
    BY <1>1, Zenon DEF Types, SenderTypes, WorkerTypes, StartTransfer, SendPiece, Worker, Upload, Relay, Reads,
                BeginUpload, UploadPiece, UploadFails, UploadEnd, UploadBroken, BeginRelay, RelayPiece,
                RelayEnd, RelayBroken, RelayWrite, RelayAnswer, Notice, ReadStray, Goto, Ends,
                frozen, senders, worker
  <2> QED
    BY <1>0, <2>1, StageFrame
<1>2. ASSUME NEW t \in Senders, StartTransfer(t) \/ SendPiece(t) \/ Worker(t), t = s
      PROVE  Stage(s)'
  BY <1>0, <1>2, StartStage, SendStage, WorkerStage
<1>3. ASSUME NEW t \in Senders, Disappear(t)
      PROVE  Stage(s)'
  <2>1. UNCHANGED <<plan, turn, verdict, wire, left, worker>> /\ (s \in gone => s \in gone')
    BY <1>3 DEF Disappear, frozen
  <2> QED
    BY <1>0, <2>1, StageFrame DEF worker
<1>4. CASE Receives \/ Mention \/ Tick
  <2>1. UNCHANGED <<plan, senders, verdict, wire, worker>>
    BY <1>4 DEF Receives, Mention, Tick, frozen
  <2> QED
    BY <1>0, <2>1, StageFrame DEF worker, senders
<1> QED
  BY <1>1, <1>2, <1>3, <1>4 DEF Next

-----------------------------------------------------------------------------
(* The disk of the server.                                                 *)

LEMMA TwoMembers ==
  ASSUME NEW Q, IsFiniteSet(Q), NEW a \in Q, NEW b \in Q, a # b
  PROVE  Cardinality(Q) > 1
<1>1. Cardinality({a} \cup {b}) = Cardinality({a}) + 1 /\ Cardinality({a}) = 1 /\ IsFiniteSet({a} \cup {b})
  <2>1. Cardinality({a}) = 1 /\ IsFiniteSet({a}) /\ b \notin {a}
    BY FS_Singleton
  <2> QED
    BY <2>1, FS_AddElement
<1>2. Cardinality({a} \cup {b}) <= Cardinality(Q) /\ Cardinality(Q) \in Nat
  <2>1. {a} \cup {b} \subseteq Q
    OBVIOUS
  <2> QED
    BY <2>1, FS_Subset, FS_CardinalityType
<1>3. PICK n, k : n = Cardinality(Q) /\ k = Cardinality({a} \cup {b})
  OBVIOUS
<1>4. n \in Nat /\ k = 2 /\ k <= n
  BY <1>1, <1>2, <1>3
<1>5. n > 1
  BY <1>4
<1> QED
  BY <1>3, <1>5

(* Two transfers with one path share it, and go on sharing it.             *)
LEMMA TwoShare ==
  ASSUME IsFiniteSet(opened), NEW a \in opened, NEW b \in opened, a # b, a[1] = b[1]
  PROVE  Shared(a[1])
<1> DEFINE Q == {o \in opened : o[1] = a[1]}
<1>1. IsFiniteSet(Q) /\ a \in Q /\ b \in Q
  BY FS_Subset
<1> HIDE DEF Q
<1>2. Cardinality(Q) > 1
  BY <1>1, TwoMembers
<1> QED
  BY <1>2 DEF Shared, Q

LEMMA StillShared ==
  ASSUME IsFiniteSet(opened'), opened \subseteq opened', NEW p, Shared(p)
  PROVE  Shared(p)'
<1> DEFINE Q == {o \in opened : o[1] = p}
           R == {o \in opened' : o[1] = p}
<1>1. IsFiniteSet(R) /\ Q \subseteq R
  BY FS_Subset
<1> HIDE DEF Q, R
<1>2. Cardinality(Q) <= Cardinality(R) /\ Cardinality(Q) \in Nat /\ Cardinality(R) \in Nat
  BY <1>1, FS_Subset, FS_CardinalityType
<1>3. Cardinality(Q) > 1
  BY DEF Shared, Q
<1>4. Cardinality(R) > 1
  BY <1>2, <1>3
<1> QED
  BY <1>4 DEF Shared, R

(* An upload is of the transfer begun last, which is not answered yet.     *)
LEMMA UploadingIs ==
  ASSUME Types, InTurn, NEW s \in Senders, Uploading(s)
  PROVE  /\ Receiving(s) /\ Len(verdict[s]) + 1 = turn[s] /\ turn[s] \in Nat
         /\ Len(verdict[s]) \in Nat
<1>1. Receiving(s)
  BY DEF Uploading, InTurn, Stage, AtRest, Asked, Relaying
<1> QED
  BY <1>1, OneTyped DEF Receiving

(* A saved file and an upload of one path share it, and so do two uploads. *)
LEMMA SavedShares ==
  ASSUME Types, InTurn, DiskOK, NEW s \in Senders, Uploading(s),
         NEW t \in Senders, NEW i \in 1 .. Len(verdict[t]), <<path[s], t, i>> \in opened
  PROVE  Shared(path[s])
<1>1. <<path[s], s, turn[s]>> \in opened /\ IsFiniteSet(opened)
  BY DEF DiskOK, StreamOK, AsReceived, Types, DiskTypes
<1>2. <<path[s], s, turn[s]>> # <<path[s], t, i>>
  BY UploadingIs
<1> DEFINE a == <<path[s], s, turn[s]>>
           b == <<path[s], t, i>>
<1>3. a[1] = path[s] /\ b[1] = path[s]
  OBVIOUS
<1> HIDE DEF a, b
<1> QED
  BY <1>1, <1>2, <1>3, TwoShare DEF a, b

LEMMA UploadsShare ==
  ASSUME Types, InTurn, DiskOK, NEW s \in Senders, Uploading(s),
         NEW t \in Senders, Uploading(t), t # s, path[t] = path[s]
  PROVE  Shared(path[s])
<1> DEFINE a == <<path[s], s, turn[s]>>
           b == <<path[t], t, turn[t]>>
<1>1. a \in opened /\ b \in opened /\ IsFiniteSet(opened)
  BY DEF DiskOK, StreamOK, AsReceived, Types, DiskTypes
<1>2. a # b /\ a[1] = path[s] /\ b[1] = path[s]
  OBVIOUS
<1> HIDE DEF a, b
<1> QED
  BY <1>1, <1>2, TwoShare

(* A stream that was empty up to k writes the rest at k.                   *)
LEMMA WriteAtEnd ==
  ASSUME NEW S, NEW g \in Seq(S), NEW k \in 0 .. Len(g), NEW c, c = SubSeq(g, 1, k)
  PROVE  WriteAt(c, k, SubSeq(g, k + 1, Len(g))) = g
<1> DEFINE r == SubSeq(g, k + 1, Len(g))
           n == Len(g)
<1>1. n \in Nat /\ k \in Nat /\ k <= n
  OBVIOUS
<1>2. Len(r) = n - k /\ \A i \in 1 .. Len(r) : r[i] = g[i + k]
  OBVIOUS
<1>3. Len(c) = k /\ \A i \in 1 .. k : c[i] = g[i]
  OBVIOUS
<1>4. g = [i \in 1 .. n |-> g[i]]
  OBVIOUS
<1> HIDE DEF r, n
<1>5. (IF k + Len(r) > Len(c) THEN k + Len(r) ELSE Len(c)) = n
  BY <1>1, <1>2, <1>3
<1>6. ASSUME NEW i \in 1 .. n
      PROVE  (IF i > k /\ i <= k + Len(r) THEN r[i - k] ELSE IF i <= Len(c) THEN c[i] ELSE "zeroes") = g[i]
  <2>1. CASE i > k
    <3>1. i - k \in 1 .. Len(r) /\ i - k + k = i
      BY <1>1, <1>2, <2>1
    <3>2. r[i - k] = g[i - k + k]
      BY <1>2, <3>1
    <3> QED
      BY <1>1, <1>2, <2>1, <3>1, <3>2
  <2>2. CASE ~(i > k)
    BY <1>1, <1>3, <2>2
  <2> QED
    BY <2>1, <2>2
<1>7. WriteAt(c, k, r) = [i \in 1 .. n |-> g[i]]
  BY <1>5, <1>6 DEF WriteAt
<1> QED
  BY <1>4, <1>7 DEF r, n

(* A flush puts all that was received on the disk, and touches no other    *)
(* file.                                                                   *)
LEMMA FlushIs ==
  ASSUME Types, DiskOK, NEW s \in Senders, Uploading(s), NEW g \in Seq(Pieces),
         stored[s] <= Len(g), SubSeq(g, 1, stored[s]) = SubSeq(got[s], 1, stored[s]),
         serverDisk' = Flushed(s, g)
  PROVE  /\ DOMAIN serverDisk' = DOMAIN serverDisk
         /\ \A q \in DOMAIN serverDisk : q # path[s] => serverDisk'[q] = serverDisk[q]
         /\ ~Shared(path[s]) => path[s] \in DOMAIN serverDisk /\ serverDisk'[path[s]] = g
<1> DEFINE k == stored[s]
           r == SubSeq(g, k + 1, Len(g))
<1>1. serverDisk' = IF linked[s] THEN [serverDisk EXCEPT ![path[s]] = WriteAt(@, k, r)] ELSE serverDisk
  BY DEF Flushed
<1> HIDE DEF r
<1>2. ASSUME ~Shared(path[s])
      PROVE  path[s] \in DOMAIN serverDisk /\ serverDisk'[path[s]] = g
  <2>1. linked[s] /\ path[s] \in DOMAIN serverDisk /\ serverDisk[path[s]] = SubSeq(got[s], 1, k)
    BY <1>2 DEF DiskOK, StreamOK, AsReceived
  <2>2. k \in 0 .. Len(g)
    BY DEF Types, DiskTypes
  <2>3. WriteAt(serverDisk[path[s]], k, r) = g
    BY <2>1, <2>2, WriteAtEnd DEF r
  <2> QED
    BY <1>1, <2>1, <2>3
<1> QED
  BY <1>1, <1>2

LEMMA OpenedTyped ==
  ASSUME Types, NEW o \in opened
  PROVE  o = <<o[1], o[2], o[3]>> /\ o[2] \in Senders /\ o[3] \in Nat
  BY DEF Types, DiskTypes

(* A step that leaves the disk alone, unless it empties no stream and      *)
(* reports nothing saved, keeps the disk as it should be.                  *)
LEMMA DiskAlone ==
  ASSUME Types, InTurn, DiskOK, UNCHANGED <<plan, path, linked, stored, opened>>,
         DOMAIN serverDisk' = DOMAIN serverDisk,
         \A q \in DOMAIN serverDisk : serverDisk'[q] = serverDisk[q],
         \A t \in Senders :
           /\ turn'[t] \in Nat /\ turn[t] <= turn'[t] /\ Len(verdict[t]) <= Len(verdict'[t])
           /\ \A i \in 1 .. Len(verdict[t]) : verdict'[t][i] = verdict[t][i]
           /\ \A i \in 1 .. Len(verdict'[t]) : i <= Len(verdict[t]) \/ verdict'[t][i].how # "saved"
           /\ Len(verdict'[t]) \in Nat
           /\ Uploading(t)' <=> Uploading(t)
           /\ Uploading(t) => /\ turn'[t] = turn[t] /\ stored[t] <= Len(got'[t])
                              /\ SubSeq(got'[t], 1, stored[t]) = SubSeq(got[t], 1, stored[t])
  PROVE  DiskOK'
<1>1. UNCHANGED <<path, linked, stored, opened>>
  OBVIOUS
<1>2. ASSUME NEW p
      PROVE  Shared(p)' <=> Shared(p)
  BY DEF Shared
<1>3. OpenedOK'
  <2> SUFFICES ASSUME NEW o \in opened
               PROVE  /\ plan[o[2]][o[3]].file.name = o[1][2] /\ ~plan[o[2]][o[3]].file.audio
                      /\ o[3] \in 1 .. turn'[o[2]]
                      /\ o[3] <= Len(verdict'[o[2]]) \/ (Uploading(o[2])' /\ o[1] = path[o[2]])
    BY <1>1, Zenon DEF OpenedOK
  <2>1. o[2] \in Senders /\ o[3] \in Nat
    BY OpenedTyped
  <2>2. /\ plan[o[2]][o[3]].file.name = o[1][2] /\ ~plan[o[2]][o[3]].file.audio
        /\ o[3] \in 1 .. turn[o[2]]
        /\ o[3] <= Len(verdict[o[2]]) \/ (Uploading(o[2]) /\ o[1] = path[o[2]])
    BY DEF DiskOK, OpenedOK
  <2>3. turn[o[2]] \in Nat /\ Len(verdict[o[2]]) \in Nat
    BY <2>1, OneTyped
  <2> QED
    BY <2>1, <2>2, <2>3
<1>4. StreamOK'
  <2>1. ASSUME NEW s \in Senders
        PROVE  linked[s] => path[s] \in DOMAIN serverDisk
    BY Zenon DEF DiskOK, StreamOK, AsReceived
  <2>2. ASSUME NEW s \in Senders, Uploading(s)'
        PROVE  /\ <<path[s], s, turn'[s]>> \in opened /\ stored[s] <= Len(got'[s])
               /\ ~Shared(path[s])' =>
                    /\ linked[s] /\ path[s] \in DOMAIN serverDisk
                    /\ serverDisk[path[s]] = SubSeq(got'[s], 1, stored[s])
    <3>1. /\ Uploading(s) /\ turn'[s] = turn[s] /\ stored[s] <= Len(got'[s])
          /\ SubSeq(got'[s], 1, stored[s]) = SubSeq(got[s], 1, stored[s])
      BY <2>2
    <3>2. /\ <<path[s], s, turn[s]>> \in opened
          /\ ~Shared(path[s]) =>
                /\ linked[s] /\ path[s] \in DOMAIN serverDisk
                /\ serverDisk[path[s]] = SubSeq(got[s], 1, stored[s])
      BY <3>1 DEF DiskOK, StreamOK, AsReceived
    <3>3. PICK q : q = path[s]
      OBVIOUS
    <3>4. /\ linked'[s] = linked[s] /\ path'[s] = q
          /\ q \in DOMAIN serverDisk => q \in DOMAIN serverDisk' /\ serverDisk'[q] = serverDisk[q]
      BY <3>3
    <3>5. ~Shared(q)' => linked'[s] /\ q \in DOMAIN serverDisk'
                         /\ serverDisk'[q] = SubSeq(got'[s], 1, stored[s])
      BY <1>2, <3>1, <3>2, <3>3, <3>4
    <3> QED
      BY <3>1, <3>2, <3>3, <3>4, <3>5 DEF Shared
  <2> QED
    BY <1>1, <2>1, <2>2 DEF StreamOK, AsReceived
<1>5. SavedOK'
  <2>1. ASSUME NEW s \in Senders, NEW i \in 1 .. Len(verdict'[s]), verdict'[s][i].how = "saved"
        PROVE  /\ <<verdict'[s][i].path, s, i>> \in opened
               /\ OnDisk(verdict'[s][i].path, verdict'[s][i].job.file)
    <3>1. i \in 1 .. Len(verdict[s]) /\ verdict'[s][i] = verdict[s][i]
      BY <2>1, OneTyped
    <3> QED
      BY <2>1, <3>1 DEF DiskOK, SavedOK, SavedAt
  <2>2. ASSUME NEW s \in Senders, NEW i \in 1 .. Len(verdict'[s]), verdict'[s][i].how = "saved"
        PROVE  SavedAt(s, i)'
    <3>1. PICK q, f : q = verdict'[s][i].path /\ f = verdict'[s][i].job.file
      OBVIOUS
    <3>2. <<q, s, i>> \in opened' /\ OnDisk(q, f)
      BY <2>1, <2>2, <3>1
    <3>3. OnDisk(q, f)'
      BY <1>2, <3>2 DEF OnDisk
    <3> QED
      BY <3>1, <3>2, <3>3, Zenon DEF SavedAt, OnDisk, Shared, UpToEOF, HasEOF
  <2> QED
    BY <2>2 DEF SavedOK
<1>6. NothingElse'
  <2> SUFFICES ASSUME NEW p \in DOMAIN serverDisk
               PROVE  \E s \in Senders :
                        \/ \E v \in Verdicts(s)' : v.how = "saved" /\ v.path = p
                        \/ Uploading(s)' /\ path[s] = p
    BY <1>1, Zenon DEF NothingElse
  <2>1. ASSUME NEW s \in Senders
        PROVE  Verdicts(s) \subseteq Verdicts(s)'
    <3>1. verdict[s] \in Seq(Outcome) /\ Len(verdict[s]) <= Len(verdict'[s])
      BY OneTyped
    <3> QED
      BY <3>1 DEF Verdicts, Range
  <2> QED
    BY <2>1 DEF DiskOK, NothingElse
<1> QED
  BY <1>3, <1>4, <1>5, <1>6 DEF DiskOK

(* A step of one sender's worker opens no file, and goes on or answers.    *)
LEMMA OpenedKept ==
  ASSUME Types, InTurn, DiskOK, NEW s \in Senders, \A t \in Senders \ {s} : Untouched(t),
         UNCHANGED <<plan, opened, path>>, turn'[s] = turn[s],
         (verdict'[s] = verdict[s] /\ (Uploading(s)' <=> Uploading(s))) \/ Len(verdict'[s]) = turn[s]
  PROVE  OpenedOK'
<1> SUFFICES ASSUME NEW o \in opened
             PROVE  /\ plan[o[2]][o[3]].file.name = o[1][2] /\ ~plan[o[2]][o[3]].file.audio
                    /\ o[3] \in 1 .. turn'[o[2]]
                    /\ o[3] <= Len(verdict'[o[2]]) \/ (Uploading(o[2])' /\ o[1] = path[o[2]])
  BY Zenon DEF OpenedOK
<1>1. o[2] \in Senders /\ o[3] \in Nat
  BY OpenedTyped
<1>2. /\ plan[o[2]][o[3]].file.name = o[1][2] /\ ~plan[o[2]][o[3]].file.audio
      /\ o[3] \in 1 .. turn[o[2]]
      /\ o[3] <= Len(verdict[o[2]]) \/ (Uploading(o[2]) /\ o[1] = path[o[2]])
  BY DEF DiskOK, OpenedOK
<1>3. CASE o[2] # s
  BY <1>1, <1>2, <1>3 DEF Untouched, Uploading
<1>4. CASE o[2] = s
  BY <1>1, <1>2, <1>4
<1> QED
  BY <1>3, <1>4

(* A step at path p of sender s leaves every file alone that has a path of *)
(* its own: those of the other uploads, and those that were saved.         *)
LEMMA FilesApart ==
  ASSUME Types, InTurn, DiskOK, NEW s \in Senders, \A t \in Senders \ {s} : Untouched(t),
         opened \subseteq opened', IsFiniteSet(opened'), Len(verdict[s]) < turn[s], NEW p,
         \A o \in opened : o[1] = p => Shared(p)' \/ o = <<p, s, turn[s]>>,
         \A q \in DOMAIN serverDisk : q # p => q \in DOMAIN serverDisk' /\ serverDisk'[q] = serverDisk[q],
         \A t \in Senders \ {s} : path[t] # p => linked'[t] = linked[t]
  PROVE  /\ \A t \in Senders \ {s} : Uploading(t)' => AsReceived(t)'
         /\ \A t \in Senders : \A i \in 1 .. Len(verdict[t]) :
              verdict'[t][i] = verdict[t][i] /\ verdict[t][i].how = "saved" => SavedAt(t, i)'
<1>1. ASSUME NEW t \in Senders \ {s}, Uploading(t)', NEW q, q = path[t]
      PROVE  /\ <<q, t, turn[t]>> \in opened' /\ stored[t] <= Len(got[t])
             /\ ~Shared(q)' =>
                  /\ linked'[t] /\ q \in DOMAIN serverDisk'
                  /\ serverDisk'[q] = SubSeq(got[t], 1, stored[t])
  <2>1. Uploading(t)
    BY <1>1 DEF Untouched, Uploading
  <2>2. /\ <<q, t, turn[t]>> \in opened /\ stored[t] <= Len(got[t])
        /\ ~Shared(q) =>
             /\ linked[t] /\ q \in DOMAIN serverDisk
             /\ serverDisk[q] = SubSeq(got[t], 1, stored[t])
    BY <1>1, <2>1 DEF DiskOK, StreamOK, AsReceived
  <2>3. q = p => Shared(q)'
    <3>1. <<q, t, turn[t]>>[1] = q /\ <<q, t, turn[t]>> # <<q, s, turn[s]>>
      OBVIOUS
    <3> QED
      BY <2>2, <3>1
  <2> QED
    BY <1>1, <2>2, <2>3, StillShared
<1>2. ASSUME NEW t \in Senders, NEW i \in 1 .. Len(verdict[t]), verdict[t][i].how = "saved",
             NEW q, q = verdict[t][i].path, NEW f, f = verdict[t][i].job.file
      PROVE  <<q, t, i>> \in opened' /\ OnDisk(q, f)'
  <2>1. <<q, t, i>> \in opened /\ OnDisk(q, f)
    BY <1>2 DEF DiskOK, SavedOK, SavedAt
  <2>2. q = p => Shared(q)'
    <3>1. <<q, t, i>>[1] = q
      OBVIOUS
    <3>2. <<q, t, i>> # <<q, s, turn[s]>>
      BY OneTyped
    <3> QED
      BY <2>1, <3>1, <3>2
  <2> QED
    BY <2>1, <2>2, StillShared DEF OnDisk
<1>3. ASSUME NEW t \in Senders \ {s}, Uploading(t)'
      PROVE  AsReceived(t)'
  <2>1. PICK q : q = path[t]
    OBVIOUS
  <2>2. /\ path'[t] = q /\ turn'[t] = turn[t] /\ stored'[t] = stored[t] /\ got'[t] = got[t]
    BY <2>1 DEF Untouched
  <2>3. /\ <<q, t, turn[t]>> \in opened' /\ stored[t] <= Len(got[t])
        /\ ~Shared(q)' =>
             /\ linked'[t] /\ q \in DOMAIN serverDisk'
             /\ serverDisk'[q] = SubSeq(got[t], 1, stored[t])
    BY <1>1, <1>3, <2>1
  <2> QED
    BY <2>2, <2>3 DEF AsReceived, Shared
<1>4. ASSUME NEW t \in Senders, NEW i \in 1 .. Len(verdict[t]), verdict'[t][i] = verdict[t][i],
             verdict[t][i].how = "saved"
      PROVE  SavedAt(t, i)'
  <2>1. PICK q, f : q = verdict[t][i].path /\ f = verdict[t][i].job.file
    OBVIOUS
  <2>2. <<q, t, i>> \in opened' /\ OnDisk(q, f)'
    BY <1>2, <1>4, <2>1
  <2>3. verdict'[t][i].path = q /\ verdict'[t][i].job.file = f
    BY <1>4, <2>1
  <2> QED
    BY <2>2, <2>3 DEF SavedAt, OnDisk, Shared, UpToEOF, HasEOF
<1> QED
  BY <1>3, <1>4

(* The path of an upload is that of no other transfer, unless they share   *)
(* it.                                                                     *)
LEMMA PathOwner ==
  ASSUME Types, InTurn, DiskOK, NEW s \in Senders, Uploading(s), NEW p, p = path[s],
         NEW o \in opened, o[1] = p
  PROVE  Shared(p) \/ o = <<p, s, turn[s]>>
<1> DEFINE a == <<p, s, turn[s]>>
<1>1. a \in opened /\ a[1] = p /\ IsFiniteSet(opened)
  BY DEF DiskOK, StreamOK, AsReceived, Types, DiskTypes
<1> HIDE DEF a
<1>2. CASE o # a
  BY <1>1, <1>2, TwoShare
<1> QED
  BY <1>2 DEF a

(* Every file stays accounted for.                                         *)
LEMMA Accounted ==
  ASSUME Types, DiskOK, NEW s \in Senders, \A t \in Senders \ {s} : Untouched(t),
         DOMAIN serverDisk' \subseteq DOMAIN serverDisk,
         Len(verdict[s]) <= Len(verdict'[s]),
         \A i \in 1 .. Len(verdict[s]) : verdict'[s][i] = verdict[s][i],
         Uploading(s) /\ path[s] \in DOMAIN serverDisk' =>
           (Uploading(s)' /\ path'[s] = path[s])
           \/ \E v \in Verdicts(s)' : v.how = "saved" /\ v.path = path[s]
  PROVE  NothingElse'
<1>1. Verdicts(s) \subseteq Verdicts(s)'
  <2>1. verdict[s] \in Seq(Outcome)
    BY OneTyped
  <2> QED
    BY <2>1 DEF Verdicts, Range
<1>2. ASSUME NEW p \in DOMAIN serverDisk'
      PROVE  \E t \in Senders :
               \/ \E v \in Verdicts(t)' : v.how = "saved" /\ v.path = p
               \/ Uploading(t)' /\ path'[t] = p
  <2>1. PICK t \in Senders :
          \/ \E v \in Verdicts(t) : v.how = "saved" /\ v.path = p
          \/ Uploading(t) /\ path[t] = p
    BY DEF DiskOK, NothingElse
  <2>2. CASE t # s
    <3>1. Verdicts(t)' = Verdicts(t) /\ (Uploading(t)' <=> Uploading(t)) /\ path'[t] = path[t]
      BY <2>2 DEF Untouched, Verdicts, Uploading
    <3> QED
      BY <2>1, <3>1
  <2>3. CASE t = s
    BY <1>1, <2>1, <2>3
  <2> QED
    BY <2>2, <2>3
<1> QED
  BY <1>2 DEF NothingElse

(* What had been reported before a step still is, and nothing is new.      *)
LEMMA SavedStay ==
  ASSUME NEW s \in Senders, \A t \in Senders \ {s} : verdict'[t] = verdict[t],
         \A t \in Senders : \A i \in 1 .. Len(verdict[t]) :
           verdict'[t][i] = verdict[t][i] /\ verdict[t][i].how = "saved" => SavedAt(t, i)',
         \A i \in 1 .. Len(verdict'[s]) :
           (i \in 1 .. Len(verdict[s]) /\ verdict'[s][i] = verdict[s][i])
           \/ (verdict'[s][i].how = "saved" => SavedAt(s, i)')
  PROVE  SavedOK'
<1>1. ASSUME NEW t \in Senders, NEW i \in 1 .. Len(verdict'[t]), verdict'[t][i].how = "saved"
      PROVE  SavedAt(t, i)'
  <2>1. CASE t # s
    BY <1>1, <2>1
  <2>2. CASE t = s
    BY <1>1, <2>2
  <2> QED
    BY <2>1, <2>2
<1> QED
  BY <1>1 DEF SavedOK

(* The worker empties the stream after a piece.                            *)
LEMMA DiskFlushed ==
  ASSUME Types, Types', InTurn, DiskOK, NEW s \in Senders, Uploading(s),
         \A t \in Senders \ {s} : Untouched(t), UNCHANGED <<plan, opened, path, linked, verdict, turn>>,
         Uploading(s)', NEW g \in Seq(Pieces), stored[s] <= Len(g),
         SubSeq(g, 1, stored[s]) = SubSeq(got[s], 1, stored[s]),
         serverDisk' = Flushed(s, g), stored'[s] = Len(g), got'[s] = g
  PROVE  DiskOK'
<1>1. PICK p : p = path[s]
  OBVIOUS
<1>2. /\ DOMAIN serverDisk' = DOMAIN serverDisk
      /\ \A q \in DOMAIN serverDisk : q # p => serverDisk'[q] = serverDisk[q]
      /\ ~Shared(p) => p \in DOMAIN serverDisk /\ serverDisk'[p] = g
  BY <1>1, FlushIs
<1>3. IsFiniteSet(opened') /\ opened \subseteq opened' /\ Len(verdict[s]) < turn[s]
  BY UploadingIs DEF Types, DiskTypes
<1>4. \A o \in opened : o[1] = p => Shared(p)' \/ o = <<p, s, turn[s]>>
  BY <1>1, <1>3, PathOwner, StillShared
<1>5. /\ \A t \in Senders \ {s} : Uploading(t)' => AsReceived(t)'
      /\ \A t \in Senders : \A i \in 1 .. Len(verdict[t]) :
           verdict'[t][i] = verdict[t][i] /\ verdict[t][i].how = "saved" => SavedAt(t, i)'
  BY <1>2, <1>3, <1>4, FilesApart
<1>6. AsReceived(s)'
  <2>1. <<p, s, turn[s]>> \in opened
    BY <1>1 DEF DiskOK, StreamOK, AsReceived
  <2>2. ~Shared(p) => linked[s]
    BY <1>1 DEF DiskOK, StreamOK, AsReceived
  <2>3. SubSeq(g, 1, Len(g)) = g
    OBVIOUS
  <2>4. path'[s] = p /\ linked'[s] = linked[s] /\ turn'[s] = turn[s] /\ opened' = opened
    BY <1>1
  <2> QED
    BY <1>2, <2>1, <2>2, <2>3, <2>4 DEF AsReceived, Shared
<1>7. OpenedOK'
  BY OpenedKept
<1>8. StreamOK'
  <2>1. ASSUME NEW t \in Senders, linked'[t]
        PROVE  path'[t] \in DOMAIN serverDisk'
    BY <1>2, <2>1 DEF DiskOK, StreamOK
  <2> QED
    BY <1>5, <1>6, <2>1 DEF StreamOK
<1>9. SavedOK'
  BY <1>5, SavedStay
<1>10. NothingElse'
  BY <1>2, OneTyped, Accounted
<1> QED
  BY <1>7, <1>8, <1>9, <1>10 DEF DiskOK

(* The worker has the whole file: it closes the stream, and says so.       *)
LEMMA DiskSaved ==
  ASSUME Types, Types', InTurn, DiskOK, NEW s \in Senders, Uploading(s),
         \A t \in Senders \ {s} : Untouched(t), UNCHANGED <<plan, opened, path, turn>>,
         ~Uploading(s)', got[s] = UpToEOF(job[s].file.pieces),
         serverDisk' = Flushed(s, got[s]), linked' = [linked EXCEPT ![s] = FALSE],
         Ends(s, job[s], "saved")
  PROVE  DiskOK'
<1>1. PICK p : p = path[s]
  OBVIOUS
<1>2. /\ DOMAIN serverDisk' = DOMAIN serverDisk
      /\ \A q \in DOMAIN serverDisk : q # p => serverDisk'[q] = serverDisk[q]
      /\ ~Shared(p) => p \in DOMAIN serverDisk /\ serverDisk'[p] = got[s]
  <2>1. stored[s] <= Len(got[s])
    BY DEF DiskOK, StreamOK, AsReceived
  <2> QED
    BY <1>1, <2>1, OneTyped, FlushIs
<1>3. IsFiniteSet(opened') /\ opened \subseteq opened' /\ Len(verdict[s]) < turn[s]
  BY UploadingIs DEF Types, DiskTypes
<1>4. \A o \in opened : o[1] = p => Shared(p)' \/ o = <<p, s, turn[s]>>
  BY <1>1, <1>3, PathOwner, StillShared
<1>5. linked \in [Senders -> BOOLEAN]
  BY DEF Types, DiskTypes
<1>6. /\ \A t \in Senders \ {s} : Uploading(t)' => AsReceived(t)'
      /\ \A t \in Senders : \A i \in 1 .. Len(verdict[t]) :
           verdict'[t][i] = verdict[t][i] /\ verdict[t][i].how = "saved" => SavedAt(t, i)'
  BY <1>2, <1>3, <1>4, <1>5, FilesApart
<1>7. PICK f : f = job[s].file
  OBVIOUS
<1>8. /\ Len(verdict'[s]) = Len(verdict[s]) + 1
      /\ \A i \in 1 .. Len(verdict[s]) : verdict'[s][i] = verdict[s][i]
      /\ verdict'[s][turn[s]].path = p /\ verdict'[s][turn[s]].how = "saved"
      /\ verdict'[s][turn[s]].job.file = f /\ Len(verdict'[s]) = turn[s]
  BY <1>1, <1>7, OneTyped, UploadingIs DEF Ends, Types, WorkerTypes
<1>9. SavedAt(s, turn[s])'
  <2>1. <<p, s, turn[s]>> \in opened
    BY <1>1 DEF DiskOK, StreamOK, AsReceived
  <2>2. serverDisk'[p] = got[s] => serverDisk'[p] = UpToEOF(f.pieces)
    BY <1>7
  <2>3. OnDisk(p, f)'
    BY <1>2, <2>2 DEF OnDisk, Shared
  <2> QED
    BY <1>8, <2>1, <2>3, Zenon DEF SavedAt, OnDisk, Shared, UpToEOF, HasEOF
<1>10. OpenedOK'
  BY <1>8, OpenedKept
<1>11. StreamOK'
  <2>1. ASSUME NEW t \in Senders, linked'[t]
        PROVE  path'[t] \in DOMAIN serverDisk'
    BY <1>2, <1>5, <2>1 DEF DiskOK, StreamOK
  <2> QED
    BY <1>6, <2>1 DEF StreamOK
<1>12. SavedOK'
  <2>1. ASSUME NEW i \in 1 .. Len(verdict'[s])
        PROVE  i \in 1 .. Len(verdict[s]) \/ i = turn[s]
    BY <1>8, UploadingIs
  <2> QED
    BY <1>6, <1>8, <1>9, <2>1, SavedStay DEF Untouched
<1>13. NothingElse'
  <2>1. \E v \in Verdicts(s)' : v.how = "saved" /\ v.path = path[s]
    <3>1. turn[s] \in DOMAIN verdict'[s]
      <4>1. verdict'[s] \in Seq(Outcome)
        BY DEF Types, WorkerTypes
      <4>2. turn[s] \in 1 .. Len(verdict'[s])
        BY <1>8, UploadingIs
      <4> QED
        BY <4>1, <4>2
    <3> QED
      BY <1>1, <1>8, <3>1 DEF Verdicts, Range
  <2>2. Len(verdict[s]) <= Len(verdict'[s])
    BY <1>8, OneTyped
  <2> QED
    BY <1>2, <1>8, <2>1, <2>2, Accounted
<1> QED
  BY <1>10, <1>11, <1>12, <1>13 DEF DiskOK

(* The worker gives an upload up, and removes the file.                    *)
LEMMA DiskRemoved ==
  ASSUME Types, Types', InTurn, DiskOK, NEW s \in Senders, Uploading(s),
         \A t \in Senders \ {s} : Untouched(t), UNCHANGED <<plan, turn>>,
         ~Uploading(s)', RemoveFile(path[s]), Ends(s, job[s], "failed")
  PROVE  DiskOK'
<1>1. PICK p : p = path[s]
  OBVIOUS
<1>2. /\ DOMAIN serverDisk' = DOMAIN serverDisk \ {p}
      /\ \A q \in DOMAIN serverDisk : q # p => serverDisk'[q] = serverDisk[q]
      /\ linked' = [t \in Senders |-> linked[t] /\ path[t] # p]
      /\ UNCHANGED <<path, stored, opened>>
  BY <1>1 DEF RemoveFile, Restrict
<1>3. IsFiniteSet(opened') /\ opened \subseteq opened' /\ Len(verdict[s]) < turn[s]
  BY <1>2, UploadingIs DEF Types, DiskTypes
<1>4. \A o \in opened : o[1] = p => Shared(p)' \/ o = <<p, s, turn[s]>>
  BY <1>1, <1>3, PathOwner, StillShared
<1>5. ASSUME NEW t \in Senders
      PROVE  linked'[t] <=> linked[t] /\ path[t] # p
  BY <1>2
<1>6. ASSUME NEW t \in Senders, path[t] # p
      PROVE  linked'[t] = linked[t]
  BY <1>5, <1>6 DEF Types, DiskTypes
<1>7. /\ \A t \in Senders \ {s} : Uploading(t)' => AsReceived(t)'
      /\ \A t \in Senders : \A i \in 1 .. Len(verdict[t]) :
           verdict'[t][i] = verdict[t][i] /\ verdict[t][i].how = "saved" => SavedAt(t, i)'
  <2>1. \A q \in DOMAIN serverDisk : q # p => q \in DOMAIN serverDisk' /\ serverDisk'[q] = serverDisk[q]
    BY <1>2
  <2> QED
    BY <1>3, <1>4, <1>6, <2>1, FilesApart
<1>8. /\ Len(verdict'[s]) = Len(verdict[s]) + 1 /\ Len(verdict'[s]) = turn[s]
      /\ \A i \in 1 .. Len(verdict[s]) : verdict'[s][i] = verdict[s][i]
      /\ verdict'[s][turn[s]].how # "saved"
  BY OneTyped, UploadingIs DEF Ends, Types, WorkerTypes
<1>9. OpenedOK'
  BY <1>2, <1>8, OpenedKept
<1>10. StreamOK'
  <2>1. ASSUME NEW t \in Senders, linked'[t]
        PROVE  path'[t] \in DOMAIN serverDisk'
    <3>1. linked[t] /\ path[t] # p
      BY <1>5, <2>1
    <3> QED
      BY <1>2, <3>1 DEF DiskOK, StreamOK
  <2> QED
    BY <1>7, <2>1 DEF StreamOK
<1>11. SavedOK'
  <2>1. ASSUME NEW i \in 1 .. Len(verdict'[s])
        PROVE  i \in 1 .. Len(verdict[s]) \/ i = turn[s]
    BY <1>8, UploadingIs
  <2> QED
    BY <1>7, <1>8, <2>1, SavedStay DEF Untouched
<1>12. NothingElse'
  <2>1. Len(verdict[s]) <= Len(verdict'[s])
    BY <1>8, OneTyped
  <2>2. path[s] \notin DOMAIN serverDisk' /\ DOMAIN serverDisk' \subseteq DOMAIN serverDisk
    BY <1>1, <1>2
  <2> QED
    BY <1>8, <2>1, <2>2, Accounted
<1> QED
  BY <1>9, <1>10, <1>11, <1>12 DEF DiskOK

(* The worker opens a file: the path is the transfer's own, or it is       *)
(* shared from now on.                                                     *)
LEMMA DiskOpened ==
  ASSUME Types, Types', InTurn, DiskOK, NEW s \in Senders, ~Uploading(s),
         \A t \in Senders \ {s} : Untouched(t), UNCHANGED <<plan, turn, verdict>>,
         Len(verdict[s]) + 1 = turn[s], Uploading(s)', got'[s] = <<>>,
         NEW p \in Paths, p[2] = plan[s][turn[s]].file.name, ~plan[s][turn[s]].file.audio, Open(s, p)
  PROVE  DiskOK'
<1> DEFINE a == <<p, s, turn[s]>>
<1>0. a[1] = p /\ a[2] = s /\ a[3] = turn[s] /\ turn[s] \in Nat /\ Len(verdict[s]) \in Nat
  BY OneTyped
<1> HIDE DEF a
<1>1. /\ path' = [path EXCEPT ![s] = p] /\ linked' = [linked EXCEPT ![s] = TRUE]
      /\ stored' = [stored EXCEPT ![s] = 0] /\ opened' = opened \cup {a}
      /\ serverDisk' = Store(serverDisk, p, <<>>)
  BY DEF Open, a
<1>2. /\ path'[s] = p /\ linked'[s] /\ stored'[s] = 0
      /\ \A t \in Senders \ {s} : linked'[t] = linked[t] /\ path'[t] = path[t]
      /\ path \in [Senders -> Paths]
  BY <1>1 DEF Types, DiskTypes
<1>3. /\ DOMAIN serverDisk' = DOMAIN serverDisk \cup {p} /\ serverDisk'[p] = <<>>
      /\ \A q \in DOMAIN serverDisk : q # p => serverDisk'[q] = serverDisk[q]
  BY <1>1 DEF Store
<1>4. IsFiniteSet(opened') /\ opened \subseteq opened' /\ Len(verdict[s]) < turn[s]
  BY <1>0, <1>1 DEF Types, DiskTypes
<1>5. \A o \in opened : o[1] = p => Shared(p)' \/ o = <<p, s, turn[s]>>
  <2> SUFFICES ASSUME NEW o \in opened, o[1] = p, o # a
               PROVE  Shared(p)'
    BY DEF a
  <2> DEFINE Q == {x \in opened' : x[1] = p}
  <2>1. IsFiniteSet(Q) /\ o \in Q /\ a \in Q
    BY <1>0, <1>1, <1>4, FS_Subset
  <2> HIDE DEF Q
  <2>2. Cardinality(Q) > 1
    BY <2>1, TwoMembers
  <2> QED
    BY <2>2 DEF Shared, Q
<1>6. /\ \A t \in Senders \ {s} : Uploading(t)' => AsReceived(t)'
      /\ \A t \in Senders : \A i \in 1 .. Len(verdict[t]) :
           verdict'[t][i] = verdict[t][i] /\ verdict[t][i].how = "saved" => SavedAt(t, i)'
  <2>1. \A q \in DOMAIN serverDisk : q # p => q \in DOMAIN serverDisk' /\ serverDisk'[q] = serverDisk[q]
    BY <1>3
  <2>2. \A t \in Senders \ {s} : path[t] # p => linked'[t] = linked[t]
    BY <1>2
  <2>3. \A t \in Senders \ {s} : Untouched(t)
    OBVIOUS
  <2> QED
    BY <1>4, <1>5, <2>1, <2>2, <2>3, FilesApart
<1>7. OpenedOK'
  <2> SUFFICES ASSUME NEW o \in opened'
               PROVE  /\ plan[o[2]][o[3]].file.name = o[1][2] /\ ~plan[o[2]][o[3]].file.audio
                      /\ o[3] \in 1 .. turn[o[2]]
                      /\ o[3] <= Len(verdict[o[2]]) \/ (Uploading(o[2])' /\ o[1] = path'[o[2]])
    BY Zenon DEF OpenedOK
  <2>1. CASE o = a
    BY <1>0, <1>2, <2>1
  <2>2. CASE o # a
    <3>1. o \in opened /\ o[2] \in Senders
      BY <1>1, <2>2, OpenedTyped
    <3>2. /\ plan[o[2]][o[3]].file.name = o[1][2] /\ ~plan[o[2]][o[3]].file.audio
          /\ o[3] \in 1 .. turn[o[2]]
          /\ o[3] <= Len(verdict[o[2]]) \/ (Uploading(o[2]) /\ o[1] = path[o[2]])
      BY <3>1 DEF DiskOK, OpenedOK
    <3> QED
      BY <1>2, <3>1, <3>2 DEF Untouched, Uploading
  <2> QED
    BY <2>1, <2>2
<1>8. StreamOK'
  <2>1. ASSUME NEW t \in Senders, linked'[t]
        PROVE  path'[t] \in DOMAIN serverDisk'
    BY <1>2, <1>3, <2>1 DEF DiskOK, StreamOK
  <2>2. AsReceived(s)'
    <3>1. <<path'[s], s, turn'[s]>> \in opened'
      BY <1>1, <1>2 DEF a
    <3>2. SubSeq(<<>>, 1, 0) = <<>> /\ 0 <= Len(<<>>)
      OBVIOUS
    <3> QED
      BY <1>2, <1>3, <3>1, <3>2 DEF AsReceived
  <2> QED
    BY <1>6, <2>1, <2>2 DEF StreamOK
<1>9. SavedOK'
  BY <1>6, SavedStay
<1>10. NothingElse'
  <2> SUFFICES ASSUME NEW q \in DOMAIN serverDisk'
               PROVE  \E t \in Senders :
                        \/ \E v \in Verdicts(t) : v.how = "saved" /\ v.path = q
                        \/ Uploading(t)' /\ path'[t] = q
    BY Zenon DEF NothingElse, Verdicts
  <2>1. CASE q = p
    BY <1>2, <2>1
  <2>2. CASE q # p
    <3>1. PICK t \in Senders :
            \/ \E v \in Verdicts(t) : v.how = "saved" /\ v.path = q
            \/ Uploading(t) /\ path[t] = q
      BY <1>3, <2>2 DEF DiskOK, NothingElse
    <3> QED
      BY <1>2, <3>1 DEF Untouched, Uploading
  <2> QED
    BY <2>1, <2>2
<1> QED
  BY <1>7, <1>8, <1>9, <1>10 DEF DiskOK

(* The other senders and their workers take no part in a step of one.      *)
LEMMA WorkerAlone ==
  ASSUME Types, NEW s \in Senders, Worker(s)
  PROVE  /\ \A t \in Senders \ {s} : Untouched(t)
         /\ UNCHANGED <<plan, mention, said, turn, left, gone>>
<1> USE DEF Types, WorkerTypes, DiskTypes, Untouched, frozen, senders, worker, disk
<1>1. CASE BeginUpload(s)
  BY <1>1 DEF BeginUpload, Reads, Ends, RemoveFile, Open, Goto
<1>2. CASE UploadPiece(s)
  BY <1>2 DEF UploadPiece, UploadFails, Reads, Ends, RemoveFile, Goto
<1>3. CASE UploadEnd(s) \/ UploadBroken(s)
  BY <1>3 DEF UploadEnd, UploadBroken, UploadFails, Reads, Ends, RemoveFile, Goto
<1>4. CASE Relay(s) \/ ReadStray(s)
  BY <1>4 DEF Relay, BeginRelay, RelayPiece, RelayEnd, RelayBroken, RelayWrite, RelayAnswer, Notice,
              ReadStray, Reads, Ends, Goto
<1> QED
  BY <1>1, <1>2, <1>3, <1>4 DEF Worker, Upload

(* A step of a worker that leaves the disk alone, and reports nothing as   *)
(* saved.                                                                  *)
LEMMA DiskQuiet ==
  ASSUME Types, Types', InTurn, DiskOK, NEW s \in Senders, Worker(s),
         UNCHANGED <<path, linked, stored, opened>>, DOMAIN serverDisk' = DOMAIN serverDisk,
         \A q \in DOMAIN serverDisk : serverDisk'[q] = serverDisk[q],
         verdict' = verdict \/ \E j, how : how # "saved" /\ Ends(s, j, how),
         Uploading(s)' <=> Uploading(s),
         Uploading(s) => /\ stored[s] <= Len(got'[s])
                         /\ SubSeq(got'[s], 1, stored[s]) = SubSeq(got[s], 1, stored[s])
  PROVE  DiskOK'
<1>1. (\A t \in Senders \ {s} : Untouched(t)) /\ UNCHANGED <<plan, turn>>
  BY WorkerAlone
<1>2. ASSUME NEW t \in Senders
      PROVE  /\ turn'[t] \in Nat /\ turn[t] <= turn'[t] /\ Len(verdict[t]) <= Len(verdict'[t])
             /\ \A i \in 1 .. Len(verdict[t]) : verdict'[t][i] = verdict[t][i]
             /\ \A i \in 1 .. Len(verdict'[t]) : i <= Len(verdict[t]) \/ verdict'[t][i].how # "saved"
             /\ Len(verdict'[t]) \in Nat
  <2>1. turn[t] \in Nat /\ Len(verdict[t]) \in Nat /\ turn'[t] = turn[t]
    BY <1>1, OneTyped
  <2>2. CASE verdict'[t] = verdict[t]
    BY <2>1, <2>2
  <2>3. CASE verdict'[t] # verdict[t]
    <3>1. PICK j, how : t = s /\ how # "saved" /\ Ends(s, j, how)
      BY <1>1, <2>3 DEF Untouched
    <3> DEFINE v == [job |-> j, how |-> how, path |-> path[s]]
    <3>2. verdict' = [verdict EXCEPT ![s] = Append(@, v)] /\ v.how # "saved"
      BY <3>1 DEF Ends
    <3> HIDE DEF v
    <3>3. verdict'[t] = Append(verdict[t], v)
      BY <3>1, <3>2 DEF Types, WorkerTypes
    <3> QED
      BY <2>1, <3>2, <3>3, OneTyped
  <2> QED
    BY <2>2, <2>3
<1>3. ASSUME NEW t \in Senders
      PROVE  /\ Uploading(t)' <=> Uploading(t)
             /\ Uploading(t) => /\ turn'[t] = turn[t] /\ stored[t] <= Len(got'[t])
                                /\ SubSeq(got'[t], 1, stored[t]) = SubSeq(got[t], 1, stored[t])
  <2>1. CASE t = s
    BY <1>1, <2>1
  <2>2. CASE t # s
    BY <1>1, <2>2 DEF Untouched, Uploading, DiskOK, StreamOK, AsReceived
  <2> QED
    BY <2>1, <2>2
<1> QED
  BY <1>1, <1>2, <1>3, DiskAlone

(* The type of a file is in its name, so no upload has opened the path of  *)
(* an audio file.                                                          *)
LEMMA NoAudioOnDisk ==
  ASSUME Types, InTurn, DiskOK, NEW s \in Senders, turn[s] \in 1 .. Len(plan[s]),
         Current(s).file.audio, NEW p, p[2] = Current(s).file.name
  PROVE  p \notin DOMAIN serverDisk
<1>1. ASSUME NEW o \in opened
      PROVE  o[1] # p
  <2>1. /\ plan[o[2]][o[3]].file.name = o[1][2] /\ ~plan[o[2]][o[3]].file.audio
        /\ o[3] \in 1 .. turn[o[2]]
    BY DEF DiskOK, OpenedOK
  <2>2. o[2] \in Senders /\ o[3] \in 1 .. Len(plan[o[2]])
    <3>1. o[2] \in Senders /\ turn[o[2]] \in Nat /\ turn[o[2]] <= Len(plan[o[2]])
      BY OpenedTyped, OneTyped DEF InTurn, Stage
    <3>2. Len(plan[o[2]]) \in Nat
      BY <3>1, OneTyped
    <3> QED
      BY <2>1, <3>1, <3>2
  <2>3. plan[o[2]][o[3]] \in Range(plan[o[2]]) /\ Current(s) \in Range(plan[s])
    BY <2>2, OneTyped DEF Current, Range
  <2>4. \A j \in Range(plan[s]), k \in Range(plan[o[2]]) :
          j.file.name = k.file.name => j.file.audio = k.file.audio
    <3>1. PICK c \in Scenarios : c.plan = plan
      BY DEF Types, SenderTypes
    <3> QED
      BY <2>2, <3>1, FileAssumption
  <2> QED
    BY <2>1, <2>3, <2>4
<1>2. ASSUME p \in DOMAIN serverDisk
      PROVE  \E o \in opened : o[1] = p
  <2>1. PICK t \in Senders :
          \/ \E v \in Verdicts(t) : v.how = "saved" /\ v.path = p
          \/ Uploading(t) /\ path[t] = p
    BY <1>2 DEF DiskOK, NothingElse
  <2>2. CASE Uploading(t) /\ path[t] = p
    <3>1. <<p, t, turn[t]>> \in opened /\ <<p, t, turn[t]>>[1] = p
      BY <2>2 DEF DiskOK, StreamOK, AsReceived
    <3> QED
      BY <3>1
  <2>3. CASE \E v \in Verdicts(t) : v.how = "saved" /\ v.path = p
    <3>1. PICK i \in 1 .. Len(verdict[t]) : verdict[t][i].how = "saved" /\ verdict[t][i].path = p
      <4>1. PICK i \in DOMAIN verdict[t] : verdict[t][i].how = "saved" /\ verdict[t][i].path = p
        BY <2>3 DEF Verdicts, Range
      <4>2. DOMAIN verdict[t] = 1 .. Len(verdict[t])
        BY OneTyped
      <4> QED
        BY <4>1, <4>2
    <3>2. <<p, t, i>> \in opened /\ <<p, t, i>>[1] = p
      BY <3>1 DEF DiskOK, SavedOK, SavedAt
    <3> QED
      BY <3>2
  <2> QED
    BY <2>1, <2>2, <2>3
<1> QED
  BY <1>1, <1>2

LEMMA InitDisk == Init => DiskOK
<1> SUFFICES ASSUME Init
             PROVE  DiskOK
  OBVIOUS
<1>1. /\ opened = {} /\ DOMAIN serverDisk = {} /\ \A s \in Senders : ~linked[s] /\ Len(verdict[s]) = 0
      /\ \A s \in Senders : place[s] = "command"
  BY DEF Init
<1> QED
  BY <1>1 DEF DiskOK, OpenedOK, StreamOK, SavedOK, NothingElse, Uploading

LEMMA BeginUploadDisk ==
  ASSUME Types, Types', InTurn, DiskOK, NEW s \in Senders, BeginUpload(s)
  PROVE  DiskOK'
<1> DEFINE j == Head(wire[s]).job
           p == <<now, j.file.name>>
<1>1. Reads(s, "command", "name") /\ j.mode = "3" /\ job' = [job EXCEPT ![s] = j]
  BY DEF BeginUpload
<1>2. Asked(s) /\ j = Current(s) /\ Current(s) \in Jobs /\ turn[s] \in 1 .. Len(plan[s])
  <2>1. Stage(s)
    BY DEF InTurn
  <2>2. Asked(s) /\ j = Current(s) /\ Current(s) \in Jobs
    BY <1>1, <2>1, NameRead
  <2>3. Len(verdict[s]) + 1 = turn[s] /\ turn[s] <= Len(plan[s])
    BY <2>1, <2>2 DEF Asked, Stage
  <2> QED
    BY <2>2, <2>3, CurrentTyped
<1>3. place[s] = "command" /\ ~Uploading(s)
  BY <1>1 DEF Reads, Uploading
<1>4. Worker(s)
  BY DEF Worker, Upload
<1>5. CASE j.file.audio
  <2>1. Ends(s, j, "failed") /\ RemoveFile(p) /\ UNCHANGED <<place, got>>
    BY <1>5 DEF BeginUpload
  <2>2. p[2] = Current(s).file.name
    BY <1>2
  <2> HIDE DEF p
  <2>3. p \notin DOMAIN serverDisk
    BY <1>2, <1>5, <2>2, NoAudioOnDisk
  <2>4. /\ DOMAIN serverDisk' = DOMAIN serverDisk
        /\ \A q \in DOMAIN serverDisk : serverDisk'[q] = serverDisk[q]
    BY <2>1, <2>3 DEF RemoveFile, Restrict
  <2>5. UNCHANGED <<path, linked, stored, opened>>
    <3>1. \A t \in Senders : linked[t] => path[t] # p
      BY <2>3 DEF DiskOK, StreamOK
    <3>2. \A t \in Senders : (linked[t] /\ path[t] # p) = linked[t]
      BY <3>1 DEF Types, DiskTypes
    <3>3. linked' = linked
      BY <2>1, <3>2 DEF RemoveFile, Types, DiskTypes
    <3> QED
      BY <2>1, <3>3 DEF RemoveFile
  <2>6. ~Uploading(s)'
    BY <1>3, <2>1 DEF Uploading
  <2> HIDE DEF j
  <2> QED
    BY <1>3, <1>4, <2>1, <2>4, <2>5, <2>6, DiskQuiet
<1>6. CASE ~j.file.audio
  <2>1. Open(s, p) /\ got' = [got EXCEPT ![s] = <<>>] /\ Goto(s, "receiving") /\ UNCHANGED verdict
    BY <1>6 DEF BeginUpload
  <2>2. p \in Paths /\ p[2] = plan[s][turn[s]].file.name
    <3>1. now \in 0 .. MaxSecond
      BY Bounds DEF Types, SenderTypes
    <3>2. j.file.name \in FileNames
      BY <1>2, JobTyped
    <3> QED
      BY <1>2, <3>1, <3>2 DEF Paths, Current
  <2>3. Uploading(s)' /\ got'[s] = <<>>
    BY <1>1, <2>1 DEF Uploading, Goto, Types, WorkerTypes
  <2>4. ~plan[s][turn[s]].file.audio /\ Len(verdict[s]) + 1 = turn[s]
    BY <1>2, <1>6 DEF Current, Asked
  <2>5. (\A t \in Senders \ {s} : Untouched(t)) /\ UNCHANGED <<plan, turn, verdict>>
    BY <1>4, <2>1, WorkerAlone
  <2> HIDE DEF p
  <2> QED
    BY <1>3, <2>1, <2>2, <2>3, <2>4, <2>5, DiskOpened
<1> QED
  BY <1>5, <1>6

LEMMA UploadPieceDisk ==
  ASSUME Types, Types', InTurn, DiskOK, NEW s \in Senders, UploadPiece(s)
  PROVE  DiskOK'
<1>1. /\ Reads(s, "receiving", "piece") /\ Uploading(s) /\ job' = job
      /\ Piece(s) \in Pieces
  BY ReadsTyped DEF UploadPiece, Reads, Uploading
<1>2. Worker(s)
  BY DEF Worker, Upload
<1>3. (\A t \in Senders \ {s} : Untouched(t)) /\ UNCHANGED <<plan, turn>>
  BY <1>2, WorkerAlone
<1>4. CASE Len(got[s]) + 1 > MaxPieces
  <2>1. RemoveFile(path[s]) /\ Ends(s, job[s], "failed") /\ Goto(s, "command")
    BY <1>4 DEF UploadPiece, UploadFails
  <2>2. ~Uploading(s)'
    BY <2>1 DEF Uploading, Goto, Types, WorkerTypes
  <2> QED
    BY <1>1, <1>3, <2>1, <2>2, DiskRemoved
<1>5. CASE ~(Len(got[s]) + 1 > MaxPieces)
  <2> DEFINE g == Append(got[s], Piece(s))
  <2>1. /\ got' = [got EXCEPT ![s] = g]
        /\ \/ UNCHANGED <<stored, serverDisk>>
           \/ serverDisk' = Flushed(s, g) /\ stored' = [stored EXCEPT ![s] = Len(g)]
        /\ UNCHANGED <<place, path, linked, opened, verdict>>
    BY <1>5 DEF UploadPiece
  <2>2. Uploading(s)' /\ got'[s] = g
    BY <1>1, <2>1 DEF Uploading, Types, WorkerTypes
  <2>3. /\ g \in Seq(Pieces) /\ stored[s] <= Len(g)
        /\ SubSeq(g, 1, stored[s]) = SubSeq(got[s], 1, stored[s])
    <3> DEFINE k == stored[s]
               h == got[s]
    <3>1. k <= Len(h)
      BY <1>1 DEF DiskOK, StreamOK, AsReceived
    <3>2. k \in Nat /\ h \in Seq(Pieces)
      BY OneTyped DEF Types, DiskTypes
    <3>3. g = Append(h, Piece(s))
      OBVIOUS
    <3> HIDE DEF k, h, g
    <3>4. g \in Seq(Pieces) /\ k <= Len(g) /\ SubSeq(g, 1, k) = SubSeq(h, 1, k)
      BY <1>1, <3>1, <3>2, <3>3
    <3> QED
      BY <3>4 DEF k, h
  <2> HIDE DEF g
  <2>4. CASE UNCHANGED <<stored, serverDisk>>
    BY <1>1, <1>2, <2>1, <2>2, <2>3, <2>4, DiskQuiet
  <2>5. CASE serverDisk' = Flushed(s, g) /\ stored' = [stored EXCEPT ![s] = Len(g)]
    <3>1. stored'[s] = Len(g)
      BY <2>5 DEF Types, DiskTypes
    <3> QED
      BY <1>1, <1>3, <2>1, <2>2, <2>3, <2>5, <3>1, DiskFlushed
  <2> QED
    BY <2>1, <2>4, <2>5
<1> QED
  BY <1>4, <1>5

LEMMA UploadEndDisk ==
  ASSUME Types, Types', InTurn, DiskOK, NEW s \in Senders, UploadEnd(s)
  PROVE  DiskOK'
<1>1. /\ Reads(s, "receiving", "piece") /\ Uploading(s) /\ HasEOF(Piece(s))
      /\ UNCHANGED <<path, opened>> /\ serverDisk' = Flushed(s, got[s])
      /\ linked' = [linked EXCEPT ![s] = FALSE] /\ Ends(s, job[s], "saved")
  BY DEF UploadEnd, Reads, Uploading
<1>2. ~Uploading(s)'
  BY DEF UploadEnd, Uploading, Goto, Types, WorkerTypes
<1>3. (\A t \in Senders \ {s} : Untouched(t)) /\ UNCHANGED <<plan, turn>>
  BY WorkerAlone DEF Worker, Upload
<1>4. got[s] = UpToEOF(job[s].file.pieces)
  <2>1. Receiving(s)
    BY <1>1, UploadingIs
  <2>2. job[s] \in Jobs
    BY <2>1, CurrentTyped DEF Receiving, InTurn, Stage
  <2> QED
    BY <1>1, <2>1, <2>2, OneTyped, JobTyped, EndTaken DEF Receiving, Reads, Piece
<1> QED
  BY <1>1, <1>2, <1>3, <1>4, DiskSaved

(* Passing a file on does not touch the disk.                              *)
LEMMA RelayDisk ==
  ASSUME Types, Types', InTurn, DiskOK, NEW s \in Senders, Relay(s) \/ ReadStray(s)
  PROVE  DiskOK'
<1>1. Worker(s) /\ UNCHANGED <<path, linked, stored, opened, serverDisk>>
  BY DEF Worker, Relay, BeginRelay, RelayPiece, RelayEnd, RelayBroken, RelayWrite, RelayAnswer, Notice,
         ReadStray, disk
<1>2. verdict' = verdict \/ \E j, how : how # "saved" /\ Ends(s, j, how)
  <2>1. \A j : Ends(s, j, "failed") \/ Ends(s, j, "relayed") => \E how : how # "saved" /\ Ends(s, j, how)
    <3>1. "failed" # "saved" /\ "relayed" # "saved"
      OBVIOUS
    <3> QED
      BY <3>1
  <2> QED
    BY <2>1, Zenon DEF Relay, BeginRelay, RelayPiece, RelayEnd, RelayBroken, RelayWrite, RelayAnswer,
                       Notice, ReadStray
<1>3. ~Uploading(s) /\ ~Uploading(s)'
  BY NameRead DEF Relay, BeginRelay, RelayPiece, RelayEnd, RelayBroken, RelayWrite, RelayAnswer, Notice,
         ReadStray, Reads, Uploading, Goto, Types, WorkerTypes, worker
<1> QED
  BY <1>1, <1>2, <1>3, DiskQuiet

(* A step in which the workers and the disk take no part.                  *)
LEMMA DiskStays ==
  ASSUME Types, InTurn, DiskOK, UNCHANGED <<plan, worker, disk, verdict>>,
         \A t \in Senders : turn'[t] = turn[t] \/ (turn'[t] = turn[t] + 1 /\ ~Uploading(t))
  PROVE  DiskOK'
<1>1. UNCHANGED <<path, linked, stored, opened, serverDisk, verdict, place, job, got>>
  BY DEF worker, disk
<1>2. ASSUME NEW t \in Senders
      PROVE  /\ turn[t] \in Nat /\ turn'[t] \in Nat /\ turn[t] <= turn'[t] /\ Len(verdict[t]) \in Nat
             /\ Uploading(t)' <=> Uploading(t)
  BY <1>1, OneTyped DEF Uploading
<1>3. ASSUME NEW t \in Senders, Uploading(t)
      PROVE  turn'[t] = turn[t] /\ stored[t] <= Len(got'[t])
  BY <1>1, <1>3 DEF DiskOK, StreamOK, AsReceived
<1> QED
  BY <1>1, <1>2, <1>3, DiskAlone

LEMMA DiskKept ==
  ASSUME Types, Types', InTurn, DiskOK, Next
  PROVE  DiskOK'
<1>1. ASSUME NEW s \in Senders, Worker(s)
      PROVE  DiskOK'
  <2>1. CASE UploadBroken(s)
    <3>1. /\ Uploading(s) /\ RemoveFile(path[s]) /\ Ends(s, job[s], "failed")
          /\ ~Uploading(s)'
      BY <2>1 DEF UploadBroken, UploadFails, Uploading, Goto, Types, WorkerTypes
    <3>2. (\A t \in Senders \ {s} : Untouched(t)) /\ UNCHANGED <<plan, turn>>
      BY <1>1, WorkerAlone
    <3> QED
      BY <3>1, <3>2, DiskRemoved
  <2> QED
    BY <1>1, <2>1, BeginUploadDisk, UploadPieceDisk, UploadEndDisk, RelayDisk DEF Worker, Upload
<1>2. ASSUME UNCHANGED <<plan, worker, disk, verdict>>,
             \A t \in Senders : turn'[t] = turn[t] \/ (turn'[t] = turn[t] + 1 /\ ~Uploading(t))
      PROVE  DiskOK'
  BY <1>2, DiskStays
<1>3. ASSUME NEW s \in Senders, StartTransfer(s)
      PROVE  DiskOK'
  <2>1. UNCHANGED <<plan, worker, disk, verdict>>
    BY <1>3 DEF StartTransfer, frozen
  <2>2. ~Uploading(s)
    <3>1. Len(verdict[s]) >= turn[s]
      BY <1>3 DEF StartTransfer, Answered
    <3> QED
      BY <3>1, UploadingIs
  <2> QED
    BY <1>2, <1>3, <2>1, <2>2 DEF StartTransfer, Types, SenderTypes
<1>4. ASSUME NEW s \in Senders, SendPiece(s) \/ Disappear(s)
      PROVE  UNCHANGED <<plan, worker, disk, verdict, turn>>
  BY <1>4 DEF SendPiece, Disappear, frozen, senders
<1>5. ASSUME Receives \/ Mention \/ Tick
      PROVE  UNCHANGED <<plan, worker, disk, verdict, turn>>
  BY <1>5 DEF Receives, Mention, Tick, frozen, senders
<1> QED
  BY <1>1, <1>2, <1>3, <1>4, <1>5 DEF Next

-----------------------------------------------------------------------------
(* What is passed on, and kept.                                            *)

(* The next record of a file that is being passed on: the announcement, a  *)
(* piece, or the mark of the end.                                          *)
LEMMA NextRecord ==
  ASSUME Types, InTurn, NEW s \in Senders, place[s] = "relaying", outbox[s] # <<>>,
         NEW n, n = Len(got[s]), NEW l, l = Len(outbox[s])
  PROVE  /\ n \in Nat /\ l \in 1 .. n + 2
         /\ job[s] \in Jobs /\ job[s] = Current(s) /\ job[s].mode = "4"
         /\ got[s] = UpToEOF(job[s].file.pieces)
         /\ l = n + 2 => Head(outbox[s]) = Info(job[s].file.name, Hash(got[s]))
         /\ l = 1 => Head(outbox[s]) = End
         /\ l \in 2 .. n + 1 => /\ Head(outbox[s]) = File(got[s][n + 2 - l])
                                 /\ n + 2 - l \in 1 .. n
                                 /\ got[s][n + 2 - l] \in Range(job[s].file.pieces)
<1>1. Relaying(s)
  BY DEF InTurn, Stage, AtRest, Asked, Receiving
<1>2. job[s] \in Jobs /\ job[s] = Current(s) /\ job[s].mode = "4" /\ got[s] = UpToEOF(job[s].file.pieces)
  BY <1>1, BusyHasJob DEF Relaying
<1> DEFINE R == Records(job[s].file.name, got[s])
           out == outbox[s]
           r == Len(R)
<1>3. /\ Len(R) = Len(got[s]) + 2 /\ R[1] = Info(job[s].file.name, Hash(got[s]))
      /\ \A i \in 1 .. Len(got[s]) : R[i + 1] = File(got[s][i])
      /\ R[Len(got[s]) + 2] = End
  BY <1>2, OneTyped, RecordsTyped DEF FileNames
<1>4. RestOf(R, out)
  BY <1>1 DEF Relaying
<1>5. out \in Seq(ClientRecord) /\ out # <<>> /\ l = Len(out) /\ n \in Nat
  BY OneTyped
<1> HIDE DEF R, out
<1>6. l \in Nat /\ l # 0 /\ Head(out) = out[1] /\ 1 \in 1 .. Len(out)
  BY <1>5
<1>7. r = n + 2 /\ l <= r
  BY <1>3, <1>4, <1>5 DEF RestOf
<1>8. out[1] = R[r - l + 1]
  BY <1>4, <1>5, <1>6 DEF RestOf
<1>9. R[1] = Info(job[s].file.name, Hash(got[s])) /\ R[n + 2] = End
      /\ \A i \in 1 .. n : R[i + 1] = File(got[s][i])
  BY <1>3
<1> HIDE DEF r
<1>10. l = n + 2 => out[1] = R[1]
  BY <1>5, <1>7, <1>8
<1>11. l = 1 => out[1] = R[n + 2]
  BY <1>5, <1>7, <1>8
<1>12. ASSUME l \in 2 .. n + 1
       PROVE  /\ out[1] = File(got[s][n + 2 - l]) /\ n + 2 - l \in 1 .. n
              /\ got[s][n + 2 - l] \in Range(job[s].file.pieces)
  <2>1. n + 2 - l \in 1 .. n /\ r - l + 1 = (n + 2 - l) + 1
    BY <1>5, <1>7, <1>12
  <2>2. \A i \in 1 .. n : got[s][i] \in Range(job[s].file.pieces)
    BY <1>1 DEF Relaying
  <2> QED
    BY <1>8, <1>9, <2>1, <2>2
<1>13. Head(outbox[s]) = out[1] /\ l \in 1 .. n + 2 /\ n \in Nat
  BY <1>5, <1>6, <1>7 DEF out
<1> QED
  BY <1>2, <1>9, <1>10, <1>11, <1>12, <1>13

LEMMA StillStated ==
  ASSUME announced \subseteq announced', plan' = plan, mention' = mention, said => said',
         NEW name, NEW contents, Stated(name, contents)
  PROVE  Stated(name, contents)'
<1>1. Sent(name, contents) => Sent(name, contents)'
  BY Zenon DEF Sent, UpToEOF, HasEOF
<1>2. \A q : Written(q) => Written(q)'
  BY DEF Written, Range
<1>3. Claimed(name, contents) => Claimed(name, contents)'
  BY <1>2, Zenon DEF Claimed, Hash
<1> QED
  BY <1>1, <1>3, Zenon DEF Stated

LEMMA StillMayBe ==
  ASSUME announced \subseteq announced', plan' = plan, mention' = mention, said => said',
         NEW name, NEW h, MayBe(name, h)
  PROVE  MayBe(name, h)'
<1>1. ASSUME NEW c, h = Hash(c)
      PROVE  Stated(name, c)'
  BY <1>1, StillStated DEF MayBe
<1> QED
  BY <1>1, Zenon DEF MayBe, Hash

LEMMA InitAnnounced == Init => AnnouncedOK
<1> SUFFICES ASSUME Init
             PROVE  AnnouncedOK
  OBVIOUS
<1>1. Len(toTarget) = 0 /\ hash = NoHash /\ DOMAIN clientDisk = {}
  BY DEF Init, ReceiverInit
<1>2. MayBe(filename, hash)
  BY <1>1 DEF MayBe, Hash, NoHash
<1> QED
  BY <1>1, <1>2 DEF AnnouncedOK, KeptIsSource

(* AnnouncedOK, one record, name or file at a time.                        *)
LEMMA AnnouncedMeans ==
  ASSUME AnnouncedOK, NEW n, NEW h
  PROVE  /\ \A i \in 1 .. Len(toTarget) : \A q :
              q = toTarget[i] /\ InfoIn(q) /\ n = Announces(q).name /\ h = Announces(q).hash => MayBe(n, h)
         /\ n = filename /\ h = hash => MayBe(n, h)
         /\ \A p \in DOMAIN clientDisk : n = p[2] /\ h = clientDisk[p] => Stated(n, h)
  BY Zenon DEF AnnouncedOK, KeptIsSource, Stated

LEMMA AnnouncedFrom ==
  ASSUME \A i \in 1 .. Len(toTarget') : \A q, n, h :
           q = toTarget'[i] /\ InfoIn(q) /\ n = Announces(q).name /\ h = Announces(q).hash => MayBe(n, h)',
         \A n, h : n = filename' /\ h = hash' => MayBe(n, h)',
         \A p \in DOMAIN clientDisk' : \A n, c : n = p[2] /\ c = clientDisk'[p] => Stated(n, c)'
  PROVE  AnnouncedOK'
<1>1. ASSUME NEW i \in 1 .. Len(toTarget'), InfoIn(toTarget[i])'
      PROVE  MayBe(Announces(toTarget[i]).name, Announces(toTarget[i]).hash)'
  <2>1. PICK q, n, h : q = toTarget'[i] /\ n = Announces(q).name /\ h = Announces(q).hash
    OBVIOUS
  <2>2. InfoIn(q)
    BY <1>1, <2>1 DEF InfoIn
  <2>3. MayBe(n, h)'
    BY <2>1, <2>2
  <2>4. n = Announces(toTarget[i]).name' /\ h = Announces(toTarget[i]).hash'
    BY <2>1 DEF Announces
  <2>5. ASSUME NEW c, Announces(toTarget[i]).hash' = Hash(c)
        PROVE  Stated(Announces(toTarget[i]).name, c)'
    <3>1. Stated(n, c)'
      BY <2>3, <2>4, <2>5, Zenon DEF MayBe, Hash
    <3> QED
      BY <2>4, <3>1, Zenon DEF Stated, Sent, Claimed, Written, UpToEOF, HasEOF, Hash
  <2> QED
    BY <2>5, Zenon DEF MayBe, Hash
<1>2. MayBe(filename, hash)'
  <2>1. PICK n, h : n = filename' /\ h = hash'
    OBVIOUS
  <2>2. MayBe(n, h)'
    BY <2>1
  <2>3. ASSUME NEW c, hash' = Hash(c)
        PROVE  Stated(filename, c)'
    <3>1. Stated(n, c)'
      BY <2>1, <2>2, <2>3, Zenon DEF MayBe, Hash
    <3> QED
      BY <2>1, <3>1, Zenon DEF Stated, Sent, Claimed, Written, UpToEOF, HasEOF, Hash
  <2> QED
    BY <2>3, Zenon DEF MayBe, Hash
<1>3. KeptIsSource'
  <2>1. ASSUME NEW p \in DOMAIN clientDisk'
        PROVE  (Sent(p[2], clientDisk[p]) \/ Claimed(p[2], clientDisk[p]))'
    <3>1. PICK n, c : n = p[2] /\ c = clientDisk'[p]
      OBVIOUS
    <3>2. Stated(n, c)'
      BY <3>1
    <3> QED
      BY <3>1, <3>2, Zenon DEF Stated, Sent, Claimed, Written, UpToEOF, HasEOF, Hash
  <2> QED
    BY <2>1 DEF KeptIsSource
<1> QED
  BY <1>1, <1>2, <1>3 DEF AnnouncedOK

(* A step that only adds records, none of which announces what was neither *)
(* sent nor stated.                                                        *)
LEMMA AnnouncedStays ==
  ASSUME AnnouncedOK, announced \subseteq announced', said => said',
         UNCHANGED <<plan, mention, filename, hash, clientDisk>>,
         \A i \in 1 .. Len(toTarget') : \A q, n, h :
           q = toTarget'[i] /\ InfoIn(q) /\ n = Announces(q).name /\ h = Announces(q).hash =>
             (i \in 1 .. Len(toTarget) /\ q = toTarget[i]) \/ MayBe(n, h)'
  PROVE  AnnouncedOK'
<1>1. ASSUME NEW i \in 1 .. Len(toTarget'), NEW q, NEW n, NEW h,
             q = toTarget'[i] /\ InfoIn(q) /\ n = Announces(q).name /\ h = Announces(q).hash
      PROVE  MayBe(n, h)'
  <2>1. CASE i \in 1 .. Len(toTarget) /\ q = toTarget[i]
    BY <1>1, <2>1, AnnouncedMeans, StillMayBe
  <2>2. CASE ~(i \in 1 .. Len(toTarget) /\ q = toTarget[i])
    BY <1>1, <2>2
  <2> QED
    BY <2>1, <2>2
<1>2. ASSUME NEW n, NEW h, n = filename' /\ h = hash'
      PROVE  MayBe(n, h)'
  BY <1>2, AnnouncedMeans, StillMayBe
<1>3. ASSUME NEW p \in DOMAIN clientDisk', NEW n, NEW c, n = p[2] /\ c = clientDisk'[p]
      PROVE  Stated(n, c)'
  BY <1>3, AnnouncedMeans, StillStated
<1> QED
  BY <1>1, <1>2, <1>3, AnnouncedFrom

(* What the receiver takes is a record, or the file the records were of,   *)
(* if its hash is the announced one.                                       *)
LEMMA AnnouncedReceived ==
  ASSUME Types, AnnouncedOK, Receives
  PROVE  AnnouncedOK'
<1>1. PICK m : /\ Arrives(m)
               /\ \/ ReceiveInfo(m) \/ ReceivePiece(m) \/ ReceiveEOF(m) \/ ReceiveEOF_Throws(m)
                  \/ ReceiveMention(m) \/ ReceiveText(m)
  BY DEF Receives, Receive
<1>2. UNCHANGED <<announced, plan, mention, said>>
  BY DEF Receives, frozen
<1>3. /\ m \in ClientRecord /\ m = toTarget[1] /\ toTarget \in Seq(ClientRecord)
      /\ toTarget' \in Seq(ClientRecord) /\ Len(toTarget') + 1 = Len(toTarget)
      /\ \A i \in 1 .. Len(toTarget') : toTarget'[i] = toTarget[i + 1]
  BY <1>1, ArrivesTyped DEF Types, ReceiverTypes
<1>4. ASSUME NEW i \in 1 .. Len(toTarget'), NEW q, NEW n, NEW h,
             q = toTarget'[i] /\ InfoIn(q) /\ n = Announces(q).name /\ h = Announces(q).hash
      PROVE  MayBe(n, h)'
  <2>1. i + 1 \in 1 .. Len(toTarget) /\ q = toTarget[i + 1]
    BY <1>3, <1>4
  <2>2. MayBe(n, h)
    BY <1>4, <2>1, AnnouncedMeans
  <2> QED
    BY <1>2, <2>2, StillMayBe
<1>5. ASSUME NEW n, NEW h, n = filename' /\ h = hash'
      PROVE  MayBe(n, h)'
  <2>1. CASE ReceiveInfo(m)
    <3>1. InfoIn(m) /\ n = Announces(m).name /\ h = Announces(m).hash
      BY <1>5, <2>1 DEF ReceiveInfo
    <3>2. 1 \in 1 .. Len(toTarget)
      BY <1>3
    <3>3. MayBe(n, h)
      BY <1>3, <3>1, <3>2, AnnouncedMeans
    <3> QED
      BY <1>2, <3>3, StillMayBe
  <2>2. CASE filename' = filename /\ hash' = hash
    BY <1>2, <1>5, <2>2, AnnouncedMeans, StillMayBe
  <2>3. CASE ReceiveEOF(m)
    <3>1. h = NoHash
      BY <1>5, <2>3 DEF ReceiveEOF
    <3> QED
      BY <3>1 DEF MayBe, Hash, NoHash
  <2> QED
    BY <1>1, <2>1, <2>2, <2>3 DEF ReceivePiece, ReceiveEOF_Throws, ReceiveMention, ReceiveText, receiver
<1>6. ASSUME NEW p \in DOMAIN clientDisk', NEW n, NEW c, n = p[2] /\ c = clientDisk'[p]
      PROVE  Stated(n, c)'
  <2>1. CASE p \in DOMAIN clientDisk /\ clientDisk'[p] = clientDisk[p]
    BY <1>2, <1>6, <2>1, AnnouncedMeans, StillStated
  <2>2. CASE ~(p \in DOMAIN clientDisk /\ clientDisk'[p] = clientDisk[p])
    <3>1. ReceiveEOF(m)
      BY <1>1, <2>2 DEF ReceiveInfo, ReceivePiece, ReceiveEOF_Throws, ReceiveMention, ReceiveText, receiver
    <3>2. filename # NoName /\ hash = Hash(fileBuffer) /\ p = <<now, filename>> /\ c = fileBuffer
      BY <1>6, <2>2, <3>1 DEF ReceiveEOF, Store, Restrict
    <3>3. n = filename /\ hash = Hash(c)
      BY <1>6, <3>2
    <3>4. Stated(n, c)
      BY <3>3, AnnouncedMeans DEF MayBe
    <3> QED
      BY <1>2, <3>4, StillStated
  <2> QED
    BY <2>1, <2>2
<1> QED
  BY <1>4, <1>5, <1>6, AnnouncedFrom

(* A worker announces what it has received, or writes a piece of it.       *)
LEMMA AnnouncedWritten ==
  ASSUME Types, InTurn, AnnouncedOK, NEW s \in Senders, RelayWrite(s)
  PROVE  AnnouncedOK'
<1>1. /\ place[s] = "relaying" /\ outbox[s] # <<>> /\ toTarget' = Append(toTarget, Head(outbox[s]))
      /\ announced' = announced \cup {<<s, turn[s]>>}
      /\ UNCHANGED <<plan, mention, said, filename, hash, clientDisk>>
  BY DEF RelayWrite, receiver, frozen
<1>2. PICK m : m = Head(outbox[s])
  OBVIOUS
<1>3. ASSUME InfoIn(m), NEW n, n = Announces(m).name, NEW h, h = Announces(m).hash
      PROVE  MayBe(n, h)'
  <2> DEFINE k == Len(got[s])
             l == Len(outbox[s])
  <2>1. /\ k \in Nat /\ l \in 1 .. k + 2 /\ job[s] = Current(s) /\ got[s] = UpToEOF(job[s].file.pieces)
        /\ l = k + 2 => m = Info(job[s].file.name, Hash(got[s]))
        /\ l = 1 => m = End
        /\ l \in 2 .. k + 1 =>
             m = File(got[s][k + 2 - l]) /\ got[s][k + 2 - l] \in Range(job[s].file.pieces)
    BY <1>1, <1>2, NextRecord
  <2> HIDE DEF k, l
  <2>2. PICK a : a = <<s, turn[s]>>
    OBVIOUS
  <2>3. a \in announced' /\ plan[a[1]][a[2]] = job[s]
    BY <1>1, <2>1, <2>2 DEF Current
  <2>4. CASE l = k + 2
    <3>1. n = job[s].file.name /\ h = Hash(got[s])
      BY <1>3, <2>1, <2>4 DEF Info, Announces
    <3>2. ASSUME NEW c, h = Hash(c)
          PROVE  Stated(n, c)'
      <4>1. c = got[s]
        BY <3>1, <3>2 DEF Hash
      <4>2. Sent(n, c)'
        BY <1>1, <2>1, <2>3, <3>1, <4>1, Zenon DEF Sent, UpToEOF, HasEOF
      <4> QED
        BY <4>2 DEF Stated
    <3> QED
      BY <3>2, Zenon DEF MayBe, Hash
  <2>5. CASE l \in 2 .. k + 1
    <3>1. PICK q : q = got[s][k + 2 - l]
      OBVIOUS
    <3>2. m = File(q) /\ q \in Range(job[s].file.pieces)
      BY <2>1, <2>5, <3>1
    <3>3. q \in DOMAIN Claims /\ n = Claims[q].name /\ h = Claims[q].hash
      BY <1>3, <3>2 DEF File, InfoIn, Announces
    <3>4. Written(q)'
      BY <1>1, <2>3, <3>2 DEF Written, Range
    <3>5. ASSUME NEW c, h = Hash(c)
          PROVE  Stated(n, c)'
      BY <3>3, <3>4, <3>5, Zenon DEF Stated, Claimed, Hash
    <3> QED
      BY <3>5, Zenon DEF MayBe, Hash
  <2>6. CASE l = 1
    BY <1>3, <2>1, <2>6 DEF End, InfoIn
  <2> QED
    BY <2>1, <2>4, <2>5, <2>6
<1>4. ASSUME NEW i \in 1 .. Len(toTarget'), NEW q, q = toTarget'[i]
      PROVE  q = m \/ (i \in 1 .. Len(toTarget) /\ q = toTarget[i])
  BY <1>1, <1>2, <1>4 DEF Types, ReceiverTypes
<1>5. announced \subseteq announced'
  BY <1>1
<1>6. UNCHANGED <<plan, mention, said, filename, hash, clientDisk>>
  BY <1>1
<1> QED
  BY <1>3, <1>4, <1>5, <1>6, AnnouncedStays

(* A text that is written, or a notice, which states no hash.              *)
LEMMA AnnouncedText ==
  ASSUME Types, AnnouncedOK, NEW letters, toTarget' = Append(toTarget, Text(letters)), said => said',
         UNCHANGED <<announced, plan, mention, filename, hash, clientDisk>>,
         letters \in DOMAIN Claims => Written(letters)' \/ Claims[letters].hash = NoHash
  PROVE  AnnouncedOK'
<1>1. PICK m : m = Text(letters)
  OBVIOUS
<1>2. ASSUME InfoIn(m), NEW n, n = Announces(m).name, NEW h, h = Announces(m).hash
      PROVE  MayBe(n, h)'
  <2>1. letters \in DOMAIN Claims /\ n = Claims[letters].name /\ h = Claims[letters].hash
    BY <1>1, <1>2 DEF Text, InfoIn, Announces
  <2>2. CASE Written(letters)'
    <3>1. ASSUME NEW c, h = Hash(c)
          PROVE  Stated(n, c)'
      BY <2>1, <2>2, <3>1, Zenon DEF Stated, Claimed, Hash
    <3> QED
      BY <3>1, Zenon DEF MayBe, Hash
  <2>3. CASE h = NoHash
    BY <2>3 DEF MayBe, Hash, NoHash
  <2> QED
    BY <2>1, <2>2, <2>3
<1>3. ASSUME NEW i \in 1 .. Len(toTarget'), NEW q, q = toTarget'[i]
      PROVE  q = m \/ (i \in 1 .. Len(toTarget) /\ q = toTarget[i])
  BY <1>1, <1>3 DEF Types, ReceiverTypes
<1> QED
  BY <1>2, <1>3, AnnouncedStays

LEMMA AnnouncedKept ==
  ASSUME Types, InTurn, NoticeOK, AnnouncedOK, Next
  PROVE  AnnouncedOK'
<1>1. ASSUME UNCHANGED <<toTarget, announced, plan, mention, said, filename, hash, clientDisk>>
      PROVE  AnnouncedOK'
  BY <1>1, AnnouncedStays
<1>2. ASSUME NEW s \in Senders, Notice(s)
      PROVE  AnnouncedOK'
  <2>1. job[s] \in Jobs
    BY <1>2, OneTyped DEF NoticeOK, Notice, Relays, Range
  <2>2. PICK letters : letters = job[s].notice
    OBVIOUS
  <2>3. letters \in DOMAIN Claims => Claims[letters].hash = NoHash
    BY <2>1, <2>2, JobTyped
  <2> QED
    BY <1>2, <2>2, <2>3, AnnouncedText DEF Notice, receiver, frozen
<1>3. CASE Mention
  <2>1. PICK letters : letters = mention
    OBVIOUS
  <2>2. Written(letters)'
    BY <1>3, <2>1 DEF Mention, Written, frozen
  <2> QED
    BY <1>3, <2>1, <2>2, AnnouncedText DEF Mention, receiver, frozen
<1>4. ASSUME NEW s \in Senders, Worker(s), ~RelayWrite(s), ~Notice(s)
      PROVE  UNCHANGED <<toTarget, announced, plan, mention, said, filename, hash, clientDisk>>
  BY <1>4 DEF Worker, Upload, Relay, BeginUpload, UploadPiece, UploadEnd, UploadBroken, BeginRelay,
              RelayPiece, RelayEnd, RelayBroken, RelayAnswer, ReadStray, Reads, receiver, frozen
<1>5. ASSUME NEW s \in Senders, StartTransfer(s) \/ SendPiece(s) \/ Disappear(s)
      PROVE  UNCHANGED <<toTarget, announced, plan, mention, said, filename, hash, clientDisk>>
  BY <1>5 DEF StartTransfer, SendPiece, Disappear, receiver, frozen
<1>6. CASE Tick
  BY <1>1, <1>6 DEF Tick, receiver, frozen
<1> QED
  BY <1>1, <1>2, <1>3, <1>4, <1>5, <1>6, AnnouncedWritten, AnnouncedReceived DEF Next

(* A worker that has a notice to write has taken it from the plan of its   *)
(* sender (receiveAndSendFile).                                            *)
LEMMA CurrentPlanned ==
  ASSUME Types, InTurn, NEW s \in Senders, Len(verdict[s]) + 1 = turn[s]
  PROVE  Current(s) \in Range(plan[s])
<1>1. turn[s] <= Len(plan[s]) /\ turn[s] \in Nat /\ Len(verdict[s]) \in Nat /\ plan[s] \in Seq(Jobs)
  BY OneTyped DEF InTurn, Stage, Types, SenderTypes, WorkerTypes
<1>2. turn[s] \in 1 .. Len(plan[s])
  BY <1>1
<1> QED
  BY <1>1, <1>2 DEF Current, Range

LEMMA NoticeKept ==
  ASSUME Types, InTurn, NoticeOK, Next
  PROVE  NoticeOK'
<1> SUFFICES ASSUME NEW s \in Senders, place'[s] = "notice"
             PROVE  job'[s] \in Relays(s)'
  BY DEF NoticeOK
<1>1. \A t : Relays(t)' = Relays(t)
  <2>1. plan' = plan
    BY WorkerAlone, Zenon DEF Next, StartTransfer, SendPiece, Disappear, Receives, Mention, Tick, frozen
  <2> QED
    BY <2>1 DEF Relays, Range
<1>2. CASE place[s] = "notice" /\ job'[s] = job[s]
  BY <1>1, <1>2 DEF NoticeOK
<1>3. CASE BeginRelay(s)
  <2>1. Asked(s) /\ Head(wire[s]).job = Current(s)
    BY <1>3, NameRead DEF BeginRelay, InTurn
  <2>2. job'[s] = Current(s) /\ Current(s).mode = "4"
    BY <1>3, <2>1 DEF BeginRelay, Types, WorkerTypes
  <2> QED
    BY <1>1, <2>1, <2>2, CurrentPlanned DEF Asked, Relays
<1>4. CASE RelayPiece(s) \/ RelayBroken(s) \/ RelayAnswer(s)
  <2>1. place[s] \in {"receiving", "relaying"} /\ job'[s] = job[s]
    BY <1>4 DEF RelayPiece, RelayBroken, RelayAnswer, Reads
  <2>2. job[s] = Current(s) /\ Len(verdict[s]) + 1 = turn[s]
    BY <2>1, BusyHasJob
  <2>3. job[s].mode = "4"
    <3>1. RelayAnswer(s) => Relaying(s)
      BY DEF RelayAnswer, InTurn, Stage, AtRest, Asked, Receiving
    <3> QED
      BY <1>4, <3>1 DEF RelayPiece, RelayBroken, Relaying
  <2> QED
    BY <1>1, <2>1, <2>2, <2>3, CurrentPlanned DEF Relays
<1>5. CASE Upload(s) \/ RelayEnd(s) \/ RelayWrite(s) \/ Notice(s) \/ ReadStray(s)
  <2>1. place[s] = "notice" /\ job'[s] = job[s]
    BY <1>5 DEF Upload, BeginUpload, UploadPiece, UploadEnd, UploadBroken, RelayEnd, RelayWrite, Notice,
                ReadStray, Reads, Goto, worker, Types, WorkerTypes
  <2> QED
    BY <1>2, <2>1
<1>6. ASSUME NEW t \in Senders, t # s, Worker(t)
      PROVE  place'[s] = place[s] /\ job'[s] = job[s]
  BY <1>6, WorkerAlone DEF Untouched
<1>7. ASSUME UNCHANGED worker
      PROVE  place'[s] = place[s] /\ job'[s] = job[s]
  BY <1>7 DEF worker
<1>8. ASSUME NEW t \in Senders, StartTransfer(t) \/ SendPiece(t) \/ Disappear(t)
      PROVE  UNCHANGED worker
  BY <1>8 DEF StartTransfer, SendPiece, Disappear
<1>9. Receives \/ Mention \/ Tick => UNCHANGED worker
  BY DEF Receives, Mention, Tick
<1> QED
  BY <1>2, <1>3, <1>4, <1>5, <1>6, <1>7, <1>8, <1>9 DEF Next, Worker, Relay

-----------------------------------------------------------------------------
(* A sole sender of files.                                                 *)

(* What the receiver has after each kind of record.                        *)
LEMMA AfterTyped ==
  ASSUME NEW r \in Held, NEW m \in ClientRecord
  PROVE  /\ After(r, m) \in Held
         /\ m.is = "INFO" => After(r, m) = [name |-> m.name, pieces |-> r.pieces, hash |-> m.hash]
         /\ m.is = "FILE" =>
              After(r, m) = [name |-> r.name, pieces |-> Append(r.pieces, m.piece), hash |-> r.hash]
         /\ m.is = "EOF" => After(r, m) = Idle
         /\ m.is = "text" => After(r, m) = r
<1>1. r = [name |-> r.name, pieces |-> r.pieces, hash |-> r.hash] /\ r.pieces \in Seq(Pieces)
  BY DEF Held
<1>2. m.is \in {"INFO", "FILE", "EOF", "text"}
  BY DEF ClientRecord, End
<1>3. CASE m.is = "INFO"
  <2>1. After(r, m) = [name |-> m.name, pieces |-> r.pieces, hash |-> m.hash]
    BY <1>3 DEF After
  <2> QED
    BY <1>1, <1>3, <2>1, KindOfRecord DEF Held, Names
<1>4. CASE m.is = "FILE"
  <2>1. After(r, m) = [name |-> r.name, pieces |-> Append(r.pieces, m.piece), hash |-> r.hash]
    BY <1>1, <1>4 DEF After
  <2>2. m.piece \in Pieces
    BY <1>4, KindOfRecord
  <2> DEFINE k == Append(r.pieces, m.piece)
  <2>3. k \in Seq(Pieces)
    BY <1>1, <2>2
  <2> HIDE DEF k
  <2>4. [name |-> r.name, pieces |-> k, hash |-> r.hash] \in Held
    BY <2>3 DEF Held
  <2> QED
    BY <1>4, <2>1, <2>4 DEF k
<1>5. CASE m.is = "EOF"
  <2>1. After(r, m) = Idle
    BY <1>5 DEF After
  <2>2. <<>> \in Seq(Pieces) /\ NoHash \in Hashes
    BY DEF NoHash, Hashes
  <2> QED
    BY <1>5, <2>1, <2>2 DEF Idle, Held, Names
<1>6. CASE m.is = "text"
  <2>1. After(r, m) = r
    BY <1>6 DEF After
  <2> QED
    BY <1>6, <2>1
<1> QED
  BY <1>2, <1>3, <1>4, <1>5, <1>6

(* The conditions of a sole sender never begin to hold.                    *)
LEMMA PlainBefore ==
  ASSUME UNCHANGED <<plan, mention>>, said => said', PlainRelays'
  PROVE  PlainRelays
  BY DEF PlainRelays, Relays, Range

LEMMA SoleTwo ==
  ASSUME PlainRelays, NEW s \in Senders, NEW t \in Senders, NEW j \in Relays(s), NEW k \in Relays(t)
  PROVE  /\ s = t /\ (j.file.name = k.file.name => j = k)
         /\ \A q \in Range(j.file.pieces) : q \notin Special
<1>1. s = t
  BY DEF PlainRelays
<1> QED
  BY <1>1 DEF PlainRelays, Special

(* A worker that passes a file on has it from the plan of its sender.      *)
LEMMA RelaysOf ==
  ASSUME Types, InTurn, NEW s \in Senders, place[s] = "relaying"
  PROVE  job[s] \in Relays(s) /\ job[s] \in Jobs
<1>1. Relaying(s)
  BY DEF InTurn, Stage, AtRest, Asked, Receiving
<1>2. job[s] = Current(s) /\ turn[s] \in 1 .. Len(plan[s]) /\ job[s] \in Jobs
  BY BusyHasJob
<1>3. Current(s) \in Range(plan[s])
  BY <1>2, OneTyped DEF Current, Range
<1> QED
  BY <1>1, <1>2, <1>3 DEF Relaying, Relays

LEMMA HeldNow ==
  ASSUME Types
  PROVE  [name |-> filename, pieces |-> fileBuffer, hash |-> hash] \in Held
  BY DEF Types, ReceiverTypes, Held

(* One more record on its way.                                             *)
LEMMA WayExtended ==
  ASSUME Types, NEW st \in Seq(Held), Way(st), NEW m \in ClientRecord,
         toTarget' = Append(toTarget, m), UNCHANGED <<plan, filename, fileBuffer, hash, clientDisk>>,
         NEW r, r = st[Len(st)], NEW sv, sv = Append(st, After(r, m)),
         m.is = "text" => m.has \in {"nothing", "EOF"},
         m.is = "FILE" => m.piece \notin Special,
         m = End => \E s \in Senders : \E j \in Relays(s) : HasFile(r, j.file)
  PROVE  /\ sv \in Seq(Held) /\ Way(sv)' /\ sv[Len(sv)] = After(r, m)
         /\ \A f : Safe(st, f) => Safe(sv, f)'
         /\ \A f : m = End /\ HasFile(r, f) => Safe(sv, f)'
<1> DEFINE n == Len(toTarget)
           a == After(r, m)
           q == toTarget'
<1>1. /\ n \in Nat /\ Len(st) = n + 1 /\ Len(toTarget') = n + 1 /\ q[n + 1] = m
      /\ \A i \in 1 .. n : q[i] = toTarget[i]
  BY DEF Way, Types, ReceiverTypes
<1>2. r \in Held
  BY <1>1
<1>3. a \in Held
  BY <1>2, AfterTyped
<1> HIDE DEF a
<1>4. /\ sv \in Seq(Held) /\ Len(sv) = n + 2 /\ sv[n + 2] = a
      /\ \A i \in 1 .. n + 1 : sv[i] = st[i]
  BY <1>1, <1>3 DEF a
<1>5. /\ st[1] = [name |-> filename, pieces |-> fileBuffer, hash |-> hash]
      /\ \A i \in 1 .. n :
           /\ st[i + 1] = After(st[i], toTarget[i])
           /\ toTarget[i].is = "text" => toTarget[i].has \in {"nothing", "EOF"}
           /\ toTarget[i].is = "FILE" => toTarget[i].piece \notin Special
           /\ toTarget[i] = End =>
                \E s \in Senders : \E j \in Relays(s) : HasFile(st[i], j.file)
  BY DEF Way
<1>6. \A s : Relays(s)' = Relays(s)
  BY DEF Relays, Range
<1> HIDE DEF n, q
<1>7. r = st[n + 1]
  BY <1>1
<1>8. ASSUME NEW i \in 1 .. n + 1
      PROVE  /\ sv[i + 1] = After(sv[i], q[i])
             /\ q[i].is = "text" => q[i].has \in {"nothing", "EOF"}
             /\ q[i].is = "FILE" => q[i].piece \notin Special
             /\ q[i] = End => \E s \in Senders : \E j \in Relays(s) : HasFile(sv[i], j.file)
  <2>1. CASE i \in 1 .. n
    <3>1. i + 1 \in 1 .. n + 1 /\ q[i] = toTarget[i] /\ sv[i] = st[i] /\ sv[i + 1] = st[i + 1]
      BY <1>1, <1>4, <2>1
    <3> QED
      BY <1>5, <2>1, <3>1
  <2>2. CASE i = n + 1
    <3>1. sv[i + 1] = a /\ q[i] = m /\ sv[i] = r
      BY <1>1, <1>4, <1>7, <2>2
    <3> QED
      BY <3>1 DEF a
  <2> QED
    BY <1>1, <2>1, <2>2
<1>9. Way(sv)'
  <2>1. sv[1] = [name |-> filename', pieces |-> fileBuffer', hash |-> hash']
    BY <1>1, <1>4, <1>5
  <2>2. Len(sv) = Len(toTarget') + 1
    BY <1>1, <1>4
  <2>3. ASSUME NEW i \in 1 .. Len(toTarget')
        PROVE  /\ sv[i + 1] = After(sv[i], toTarget[i])'
               /\ toTarget'[i].is = "text" => toTarget'[i].has \in {"nothing", "EOF"}
               /\ toTarget'[i].is = "FILE" => toTarget'[i].piece \notin Special
    <3>1. i \in 1 .. n + 1
      BY <1>1
    <3> QED
      BY <1>8, <3>1 DEF q, After, Idle, NoHash
  <2>4. ASSUME NEW i \in 1 .. Len(toTarget'), toTarget'[i] = End
        PROVE  \E s \in Senders : \E j \in Relays(s)' : HasFile(sv[i], j.file)
    BY <1>1, <1>6, <1>8, <2>4 DEF q
  <2>5. ASSUME NEW i \in 1 .. Len(toTarget'), toTarget'[i] = End
        PROVE  \E s \in Senders : \E j \in Relays(s)' : HasFile(sv[i], j.file)'
    BY <2>4, <2>5 DEF HasFile, UpToEOF, HasEOF, Hash
  <2> QED
    BY <2>1, <2>2, <2>3, <2>5, Zenon DEF Way, End
<1>10. ASSUME NEW f, Safe(st, f)
       PROVE  Safe(sv, f)'
  <2>1. CASE Kept(f)
    BY <2>1 DEF Kept, Safe, UpToEOF, HasEOF
  <2>2. CASE Arriving(st, f)
    <3>1. PICK i \in 1 .. n : toTarget[i] = End /\ HasFile(st[i], f)
      BY <2>2 DEF Arriving, n
    <3>2. i \in 1 .. Len(toTarget') /\ q[i] = End /\ HasFile(sv[i], f)
      BY <1>1, <1>4, <3>1
    <3> QED
      BY <3>2 DEF Arriving, Safe, q, HasFile, UpToEOF, HasEOF, Hash, End
  <2> QED
    BY <1>10, <2>1, <2>2 DEF Safe
<1>11. ASSUME NEW f, m = End, HasFile(r, f)
       PROVE  Safe(sv, f)'
  <2>1. n + 1 \in 1 .. Len(toTarget') /\ q[n + 1] = End /\ HasFile(sv[n + 1], f)
    BY <1>1, <1>4, <1>7, <1>11
  <2> QED
    BY <2>1 DEF Arriving, Safe, q, HasFile, UpToEOF, HasEOF, Hash, End
<1>12. sv[Len(sv)] = After(r, m)
  BY <1>4 DEF a
<1> QED
  BY <1>4, <1>9, <1>10, <1>11, <1>12

(* Nothing on its way changes.                                             *)
LEMMA WaySame ==
  ASSUME NEW st, Way(st), UNCHANGED <<plan, toTarget, filename, fileBuffer, hash, clientDisk>>
  PROVE  Way(st)' /\ \A f : Safe(st, f) => Safe(st, f)'
<1>1. \A s : Relays(s)' = Relays(s)
  BY DEF Relays, Range
<1>2. ASSUME NEW i \in 1 .. Len(toTarget)
      PROVE  /\ st[i + 1] = After(st[i], toTarget[i])'
             /\ toTarget[i].is = "text" => toTarget[i].has \in {"nothing", "EOF"}
             /\ toTarget[i].is = "FILE" => toTarget[i].piece \notin Special
  BY DEF Way, After, Idle, NoHash
<1>3. ASSUME NEW i \in 1 .. Len(toTarget), toTarget[i] = End
      PROVE  \E s \in Senders : \E j \in Relays(s)' : HasFile(st[i], j.file)'
  <2>1. \E s \in Senders : \E j \in Relays(s) : HasFile(st[i], j.file)
    BY <1>3 DEF Way
  <2> QED
    BY <1>1, <2>1 DEF HasFile, UpToEOF, HasEOF, Hash
<1>4. Way(st)'
  <2>1. Len(st) = Len(toTarget) + 1 /\ st[1] = [name |-> filename, pieces |-> fileBuffer, hash |-> hash]
    BY DEF Way
  <2>2. /\ Len(st) = Len(toTarget') + 1
        /\ st[1] = [name |-> filename', pieces |-> fileBuffer', hash |-> hash']
    BY <2>1
  <2>3. ASSUME NEW i \in 1 .. Len(toTarget')
        PROVE  /\ st[i + 1] = After(st[i], toTarget[i])'
               /\ toTarget'[i].is = "text" => toTarget'[i].has \in {"nothing", "EOF"}
               /\ toTarget'[i].is = "FILE" => toTarget'[i].piece \notin Special
    BY <1>2
  <2>4. ASSUME NEW i \in 1 .. Len(toTarget'), toTarget'[i] = End
        PROVE  \E s \in Senders : \E j \in Relays(s)' : HasFile(st[i], j.file)'
    BY <1>3, <2>4
  <2> QED
    BY <2>2, <2>3, <2>4, Zenon DEF Way, End
<1>5. ASSUME NEW f, Safe(st, f)
      PROVE  Safe(st, f)'
  <2>1. Kept(f) => Kept(f)'
    BY DEF Kept, UpToEOF, HasEOF
  <2>2. Arriving(st, f) => Arriving(st, f)'
    BY DEF Arriving, HasFile, UpToEOF, HasEOF, Hash, End
  <2> QED
    BY <1>5, <2>1, <2>2 DEF Safe
<1> QED
  BY <1>4, <1>5

(* The receiver takes a record: it has then what it was to have.           *)
LEMMA ReceiverAfter ==
  ASSUME Types, NEW m \in ClientRecord, NEW r, r = [name |-> filename, pieces |-> fileBuffer, hash |-> hash],
         \/ ReceiveInfo(m) \/ ReceivePiece(m) \/ ReceiveEOF(m) \/ ReceiveEOF_Throws(m)
         \/ ReceiveMention(m) \/ ReceiveText(m),
         m.is = "text" => m.has \in {"nothing", "EOF"},
         m.is = "FILE" => m.piece \notin Special,
         m = End => r.name # NoName
  PROVE  [name |-> filename', pieces |-> fileBuffer', hash |-> hash'] = After(r, m)
<1>0. r \in Held
  BY HeldNow
<1>1. CASE m.is = "INFO"
  <2>1. filename' = m.name /\ hash' = m.hash /\ fileBuffer' = fileBuffer
    BY <1>1 DEF ReceiveInfo, Announces, ReceivePiece, PieceIn, ReceiveEOF, ReceiveEOF_Throws, ReceiveMention, ReceiveText
  <2> QED
    BY <1>0, <1>1, <2>1, AfterTyped
<1>2. CASE m.is = "FILE"
  <2>1. filename' = filename /\ hash' = hash /\ fileBuffer' = Append(fileBuffer, m.piece)
    BY <1>2 DEF Special, ReceiveInfo, InfoIn, ReceivePiece, ReceiveEOF, ReceiveEOF_Throws, ReceiveMention, ReceiveText
  <2> QED
    BY <1>0, <1>2, <2>1, AfterTyped
<1>3. CASE m.is = "EOF"
  <2>1. filename # NoName
    BY <1>3, KindOfRecord
  <2>2. filename' = NoName /\ hash' = NoHash /\ fileBuffer' = <<>>
    BY <1>3, <2>1 DEF ReceiveInfo, InfoIn, ReceivePiece, PieceIn, ReceiveEOF, ReceiveEOF_Throws,
                      ReceiveMention, ReceiveText
  <2> QED
    BY <1>0, <1>3, <2>2, AfterTyped DEF Idle
<1>4. CASE m.is = "text"
  <2>0. m.has \notin DOMAIN Claims
    BY <1>4, FileAssumption
  <2>1. filename' = filename /\ hash' = hash /\ fileBuffer' = fileBuffer
    BY <1>4, <2>0 DEF ReceiveInfo, InfoIn, ReceivePiece, PieceIn, ReceiveEOF, ReceiveEOF_Throws,
                ReceiveMention, ReceiveText, receiver
  <2> QED
    BY <1>0, <1>4, <2>1, AfterTyped
<1> QED
  BY <1>1, <1>2, <1>3, <1>4 DEF ClientRecord, End

(* A file that is kept stays, and one whose end arrives is kept: another   *)
(* of its name is the same file.                                           *)
LEMMA StaysKept ==
  ASSUME Types, PlainRelays, NEW m \in ClientRecord,
         NEW r, r = [name |-> filename, pieces |-> fileBuffer, hash |-> hash],
         \/ ReceiveInfo(m) \/ ReceivePiece(m) \/ ReceiveEOF(m) \/ ReceiveEOF_Throws(m)
         \/ ReceiveMention(m) \/ ReceiveText(m),
         m = End => \E s \in Senders : \E j \in Relays(s) : HasFile(r, j.file),
         NEW t \in Senders, NEW k \in Relays(t), NEW f, f = k.file,
         Kept(f) \/ (m = End /\ HasFile(r, f) /\ filename # NoName)
  PROVE  Kept(f)'
<1>1. CASE ~ReceiveEOF(m)
  <2>1. clientDisk' = clientDisk
    BY <1>1 DEF ReceiveInfo, ReceivePiece, ReceiveEOF_Throws, ReceiveMention, ReceiveText, receiver
  <2>2. ~(m = End /\ filename # NoName)
    BY <1>1 DEF End, ReceiveInfo, InfoIn, ReceivePiece, PieceIn, ReceiveEOF_Throws, ReceiveMention, ReceiveText
  <2> QED
    BY <2>1, <2>2 DEF Kept, UpToEOF, HasEOF
<1>2. CASE ReceiveEOF(m)
  <2>1. m = End
    BY <1>2, KindOfRecord DEF ReceiveEOF
  <2>2. PICK s \in Senders : \E j \in Relays(s) : HasFile(r, j.file)
    BY <2>1
  <2>3. PICK j \in Relays(s) : HasFile(r, j.file)
    BY <2>2
  <2>4. filename = j.file.name /\ fileBuffer = UpToEOF(j.file.pieces) /\ hash = Hash(fileBuffer)
    BY <2>3 DEF HasFile
  <2>5. clientDisk' = Store(clientDisk, <<now, filename>>, fileBuffer)
    BY <1>2, <2>4 DEF ReceiveEOF
  <2>6. PICK p : p = <<now, filename>>
    OBVIOUS
  <2>7. /\ p \in DOMAIN clientDisk' /\ clientDisk'[p] = fileBuffer /\ p[2] = filename
        /\ \A q \in DOMAIN clientDisk : q # p => q \in DOMAIN clientDisk' /\ clientDisk'[q] = clientDisk[q]
    BY <2>5, <2>6 DEF Store
  <2>8. CASE f.name = filename
    <3>1. j = k
      BY <2>4, <2>8, SoleTwo
    <3> QED
      BY <2>4, <2>6, <2>7, <2>8, <3>1 DEF Kept, UpToEOF, HasEOF
  <2>9. CASE f.name # filename
    <3>1. Kept(f)
      BY <2>9 DEF HasFile
    <3>2. PICK q \in DOMAIN clientDisk : q[2] = f.name /\ clientDisk[q] = UpToEOF(f.pieces)
      BY <3>1 DEF Kept
    <3>3. q \in DOMAIN clientDisk' /\ clientDisk'[q] = UpToEOF(f.pieces)
      BY <2>6, <2>7, <2>9, <3>2
    <3> QED
      BY <3>2, <3>3 DEF Kept, UpToEOF, HasEOF
  <2> QED
    BY <2>8, <2>9
<1> QED
  BY <1>1, <1>2

LEMMA WayTaken ==
  ASSUME Types, PlainRelays, NEW st \in Seq(Held), Way(st), Receives, NEW sv, sv = Tail(st)
  PROVE  /\ sv \in Seq(Held) /\ Way(sv)' /\ sv[Len(sv)] = st[Len(st)]
         /\ \A s \in Senders : \A j \in Relays(s) : \A f : f = j.file /\ Safe(st, f) => Safe(sv, f)'
<1>1. PICK m : /\ Arrives(m)
               /\ \/ ReceiveInfo(m) \/ ReceivePiece(m) \/ ReceiveEOF(m) \/ ReceiveEOF_Throws(m)
                  \/ ReceiveMention(m) \/ ReceiveText(m)
  BY DEF Receives, Receive
<1>2. plan' = plan
  BY DEF Receives, frozen
<1> DEFINE n == Len(toTarget')
           q == toTarget'
<1>3. /\ m \in ClientRecord /\ m = toTarget[1] /\ n \in Nat /\ Len(toTarget) = n + 1
      /\ \A i \in 1 .. n : q[i] = toTarget[i + 1]
  BY <1>1, ArrivesTyped DEF Types, ReceiverTypes
<1>4. /\ Len(st) = n + 2 /\ st[1] = [name |-> filename, pieces |-> fileBuffer, hash |-> hash]
      /\ \A i \in 1 .. n + 1 :
           /\ st[i + 1] = After(st[i], toTarget[i])
           /\ toTarget[i].is = "text" => toTarget[i].has \in {"nothing", "EOF"}
           /\ toTarget[i].is = "FILE" => toTarget[i].piece \notin Special
           /\ toTarget[i] = End =>
                \E s \in Senders : \E j \in Relays(s) : HasFile(st[i], j.file)
  <2>1. Len(st) = Len(toTarget) + 1
    BY DEF Way
  <2> QED
    BY <1>3, <2>1 DEF Way
<1> HIDE DEF n, q
<1>5. /\ sv \in Seq(Held) /\ Len(sv) = n + 1
      /\ \A i \in 1 .. n + 1 : sv[i] = st[i + 1]
  BY <1>3, <1>4
<1>6. PICK r : r = st[1]
  OBVIOUS
<1>7. /\ m.is = "text" => m.has \in {"nothing", "EOF"}
      /\ m.is = "FILE" => m.piece \notin Special
      /\ m = End => \E s \in Senders : \E j \in Relays(s) : HasFile(r, j.file)
      /\ st[2] = After(r, m) /\ r = [name |-> filename, pieces |-> fileBuffer, hash |-> hash]
  <2>1. 1 \in 1 .. n + 1
    BY <1>3
  <2> QED
    BY <1>3, <1>4, <1>6, <2>1
<1>8. m = End => r.name # NoName
  <2> SUFFICES ASSUME m = End
               PROVE  r.name # NoName
    OBVIOUS
  <2>1. PICK s \in Senders : \E j \in Relays(s) : HasFile(r, j.file)
    BY <1>7
  <2>2. PICK j \in Relays(s) : HasFile(r, j.file)
    BY <2>1
  <2>3. j \in Jobs
    BY OneTyped DEF Relays, Range
  <2> QED
    BY <2>2, <2>3, JobTyped DEF HasFile
<1>9. [name |-> filename', pieces |-> fileBuffer', hash |-> hash'] = st[2]
  BY <1>1, <1>3, <1>7, <1>8, ReceiverAfter
<1>10. \A s : Relays(s)' = Relays(s)
  BY <1>2 DEF Relays, Range
<1>11. Way(sv)'
  <2>1. Len(sv) = Len(toTarget') + 1
    BY <1>5 DEF n
  <2>2. sv[1] = [name |-> filename', pieces |-> fileBuffer', hash |-> hash']
    BY <1>3, <1>5, <1>9
  <2>3. ASSUME NEW i \in 1 .. n
        PROVE  /\ sv[i + 1] = After(sv[i], q[i])
               /\ q[i].is = "text" => q[i].has \in {"nothing", "EOF"}
               /\ q[i].is = "FILE" => q[i].piece \notin Special
               /\ q[i] = End => \E s \in Senders : \E j \in Relays(s) : HasFile(sv[i], j.file)
    <3>1. i + 1 \in 1 .. n + 1 /\ i \in 1 .. n + 1 /\ q[i] = toTarget[i + 1]
      BY <1>3
    <3>2. sv[i] = st[i + 1] /\ sv[i + 1] = st[(i + 1) + 1]
      BY <1>5, <3>1
    <3> QED
      BY <1>4, <3>1, <3>2
  <2>4. ASSUME NEW i \in 1 .. Len(toTarget')
        PROVE  /\ sv[i + 1] = After(sv[i], toTarget[i])'
               /\ toTarget'[i].is = "text" => toTarget'[i].has \in {"nothing", "EOF"}
               /\ toTarget'[i].is = "FILE" => toTarget'[i].piece \notin Special
    BY <2>3 DEF n, q, After, Idle, NoHash
  <2>5. ASSUME NEW i \in 1 .. Len(toTarget'), toTarget'[i] = End
        PROVE  \E s \in Senders : \E j \in Relays(s)' : HasFile(sv[i], j.file)
    BY <1>10, <2>3, <2>5 DEF n, q
  <2>6. ASSUME NEW i \in 1 .. Len(toTarget'), toTarget'[i] = End
        PROVE  \E s \in Senders : \E j \in Relays(s)' : HasFile(sv[i], j.file)'
    BY <2>5, <2>6 DEF HasFile, UpToEOF, HasEOF, Hash
  <2> QED
    BY <2>1, <2>2, <2>4, <2>6, Zenon DEF Way, End
<1>12. ASSUME NEW s \in Senders, NEW j \in Relays(s), NEW f, f = j.file, Safe(st, f)
       PROVE  Safe(sv, f)'
  <2>1. CASE Kept(f) \/ (m = End /\ HasFile(r, f))
    <3>1. m = End /\ HasFile(r, f) => filename # NoName
      BY <1>7, <1>8
    <3>2. Kept(f)'
      BY <1>1, <1>3, <1>7, <1>12, <2>1, <3>1, StaysKept
    <3> QED
      BY <3>2 DEF Safe
  <2>2. CASE ~Kept(f) /\ ~(m = End /\ HasFile(r, f))
    <3>1. PICK i \in 1 .. n + 1 : toTarget[i] = End /\ HasFile(st[i], f)
      BY <1>3, <1>12, <2>2 DEF Safe, Arriving
    <3>2. i # 1
      BY <1>3, <1>6, <2>2, <3>1
    <3>3. PICK k : k = i - 1
      OBVIOUS
    <3>4. k \in 1 .. n /\ q[k] = End /\ sv[k] = st[i]
      BY <1>3, <1>5, <3>1, <3>2, <3>3
    <3>5. k \in 1 .. Len(toTarget') /\ toTarget'[k] = End /\ HasFile(sv[k], f)
      BY <3>1, <3>4 DEF n, q
    <3> QED
      BY <3>5 DEF Safe, Arriving, HasFile, UpToEOF, HasEOF, Hash, End
  <2> QED
    BY <2>1, <2>2
<1>13. sv[Len(sv)] = st[Len(st)]
  BY <1>3, <1>4, <1>5
<1> QED
  BY <1>5, <1>11, <1>12, <1>13

(* What the other senders' steps leave alone.                              *)
LEMMA OutboxAlone ==
  ASSUME Types, Next, NEW s \in Senders, ~Worker(s)
  PROVE  UNCHANGED <<plan, place[s], job[s], got[s], outbox[s], verdict[s]>>
<1>1. ASSUME NEW t \in Senders, Worker(t)
      PROVE  outbox'[s] = outbox[s]
  BY <1>1 DEF Types, WorkerTypes, Worker, Upload, Relay, BeginUpload, UploadPiece, UploadEnd, UploadBroken,
              BeginRelay, RelayPiece, RelayEnd, RelayBroken, RelayWrite, RelayAnswer, Notice, ReadStray, worker
<1>2. ASSUME NEW t \in Senders, Worker(t)
      PROVE  Untouched(s) /\ plan' = plan
  BY <1>2, WorkerAlone
<1>3. ASSUME NEW t \in Senders, StartTransfer(t) \/ SendPiece(t) \/ Disappear(t)
      PROVE  UNCHANGED <<plan, worker, verdict>>
  BY <1>3 DEF StartTransfer, SendPiece, Disappear, frozen
<1>4. ASSUME Receives \/ Mention \/ Tick
      PROVE  UNCHANGED <<plan, worker, verdict>>
  BY <1>4 DEF Receives, Mention, Tick, frozen
<1>5. ASSUME UNCHANGED <<plan, worker, verdict>>
      PROVE  UNCHANGED <<plan, place[s], job[s], got[s], outbox[s], verdict[s]>>
  BY <1>5 DEF worker
<1> QED
  BY <1>1, <1>2, <1>3, <1>4, <1>5 DEF Next, Untouched

(* Only writing records moves a sender on halfway through a file.          *)
LEMMA SourceKept ==
  ASSUME Types, InTurn, Next, NEW s \in Senders, ~RelayWrite(s), NEW r, AtSource(s, r)
  PROVE  AtSource(s, r)'
<1>1. CASE ~Worker(s)
  <2>1. UNCHANGED <<place[s], job[s], got[s], outbox[s]>>
    BY <1>1, OutboxAlone
  <2> QED
    BY <2>1 DEF AtSource, Halfway, Hash, Idle, NoHash
<1>2. CASE Worker(s)
  <2>1. place[s] = "relaying" => RelayAnswer(s)
    BY <1>2 DEF Worker, Upload, Relay, BeginUpload, UploadPiece, UploadEnd, UploadBroken, BeginRelay,
                RelayPiece, RelayEnd, RelayBroken, Notice, ReadStray, Reads
  <2>2. ~Halfway(s)
    BY <2>1 DEF Halfway, RelayAnswer
  <2>3. r = Idle
    BY <2>2 DEF AtSource
  <2>4. ~Halfway(s)'
    <3>1. CASE RelayEnd(s)
      <4>1. got'[s] = got[s] /\ outbox'[s] = Records(job[s].file.name, got[s])
        BY <3>1 DEF RelayEnd, Types, WorkerTypes
      <4>2. Len(outbox'[s]) = Len(got'[s]) + 2
        <5>1. job[s] \in Jobs
          BY <3>1, BusyHasJob DEF RelayEnd, Reads
        <5>2. job[s].file.name \in FileNames
          BY <5>1, JobTyped
        <5>3. PICK p : p = got[s] /\ p \in Seq(Pieces)
          BY OneTyped
        <5>4. Len(Records(job[s].file.name, p)) = Len(p) + 2
          BY <5>2, <5>3, RecordsTyped
        <5> QED
          BY <4>1, <5>3, <5>4
      <4>3. Len(got'[s]) \in Nat
        BY <4>1, OneTyped
      <4> QED
        BY <4>2, <4>3 DEF Halfway
    <3>2. CASE ~RelayEnd(s)
      <4>1. place'[s] # "relaying"
        BY <1>2, <2>1, <3>2 DEF Worker, Upload, Relay, BeginUpload, UploadPiece, UploadEnd, UploadBroken,
                  BeginRelay, RelayPiece, RelayBroken, RelayAnswer, Notice, ReadStray, Reads, Goto,
                  Types, WorkerTypes, worker
      <4> QED
        BY <4>1 DEF Halfway
    <3> QED
      BY <3>1, <3>2
  <2> QED
    BY <2>3, <2>4 DEF AtSource, Idle, NoHash
<1> QED
  BY <1>1, <1>2

(* A file is reported as passed on when all its records have been written. *)
LEMMA NewVerdict ==
  ASSUME Types, Types', Next, NEW s \in Senders, NEW v \in Verdicts(s)', v.how = "relayed"
  PROVE  v \in Verdicts(s) \/ (v.job = job[s] /\ place[s] = "relaying" /\ outbox[s] = <<>>)
<1>1. CASE verdict'[s] = verdict[s]
  BY <1>1 DEF Verdicts
<1>2. CASE verdict'[s] # verdict[s]
  <2>1. Worker(s)
    BY <1>2, OutboxAlone
  <2>2. PICK j, how : Ends(s, j, how) /\ (how = "relayed" => RelayAnswer(s) /\ j = job[s])
    <3>1. "failed" # "relayed" /\ "saved" # "relayed"
      OBVIOUS
    <3>2. verdict' = verdict \/ \E j : Ends(s, j, "failed") \/ Ends(s, j, "saved")
                             \/ (RelayAnswer(s) /\ j = job[s] /\ Ends(s, j, "relayed"))
      BY <2>1, Zenon DEF Worker, Upload, Relay, BeginUpload, UploadPiece, UploadFails, UploadEnd, UploadBroken,
                BeginRelay, RelayPiece, RelayEnd, RelayBroken, RelayWrite, RelayAnswer, Notice, ReadStray
    <3> QED
      BY <1>2, <3>1, <3>2
  <2> DEFINE w == [job |-> j, how |-> how, path |-> path[s]]
  <2>3. verdict'[s] = Append(verdict[s], w) /\ w.how = how /\ w.job = j
    BY <2>2 DEF Ends, Types, WorkerTypes
  <2> HIDE DEF w
  <2>4. verdict'[s] \in Seq(Outcome) /\ verdict[s] \in Seq(Outcome)
    BY DEF Types, WorkerTypes
  <2>5. v = w \/ v \in Verdicts(s)
    <3>1. PICK i \in DOMAIN verdict'[s] : v = verdict'[s][i]
      BY DEF Verdicts, Range
    <3>2. i \in 1 .. Len(verdict'[s])
      BY <2>4, <3>1
    <3>3. CASE i \in 1 .. Len(verdict[s])
      <4>1. v = verdict[s][i] /\ i \in DOMAIN verdict[s]
        BY <2>3, <2>4, <3>1, <3>3
      <4> QED
        BY <4>1 DEF Verdicts, Range
    <3>4. CASE i \notin 1 .. Len(verdict[s])
      BY <2>3, <2>4, <3>1, <3>2, <3>4
    <3> QED
      BY <3>3, <3>4
  <2>6. CASE v = w
    BY <2>2, <2>3, <2>6 DEF RelayAnswer
  <2> QED
    BY <2>5, <2>6
<1> QED
  BY <1>1, <1>2

LEMMA EmptyOutbox ==
  ASSUME Types, InTurn, Next, NEW s \in Senders, ~RelayWrite(s), place'[s] = "relaying", outbox'[s] = <<>>
  PROVE  place[s] = "relaying" /\ outbox[s] = <<>> /\ job'[s] = job[s]
<1>1. ~Worker(s)
  <2> SUFFICES ASSUME Worker(s)
               PROVE  FALSE
    OBVIOUS
  <2>1. RelayEnd(s)
    BY DEF Worker, Upload, Relay, BeginUpload, UploadPiece, UploadEnd, UploadBroken,
           BeginRelay, RelayPiece, RelayBroken, RelayAnswer, Notice, ReadStray, Reads, Goto,
           Types, WorkerTypes, worker
  <2>2. outbox'[s] = Records(job[s].file.name, got[s]) /\ job[s] \in Jobs
    BY <2>1, BusyHasJob DEF RelayEnd, Reads, Types, WorkerTypes
  <2>3. Len(outbox'[s]) = Len(got[s]) + 2
    <3>1. job[s].file.name \in FileNames
      BY <2>2, JobTyped
    <3>2. PICK p : p = got[s] /\ p \in Seq(Pieces)
      BY OneTyped
    <3>3. Len(Records(job[s].file.name, p)) = Len(p) + 2
      BY <3>1, <3>2, RecordsTyped
    <3> QED
      BY <2>2, <3>2, <3>3
  <2>4. Len(got[s]) \in Nat /\ Len(<<>>) = 0
    BY OneTyped
  <2> QED
    BY <2>3, <2>4
<1> QED
  BY <1>1, OutboxAlone

(* From the course before a step to the one after it.                      *)
LEMMA CourseFrom ==
  ASSUME Types, Types', InTurn, Next, PlainRelays, NEW st, Course(st), NEW sv, Way(sv)',
         \A s \in Senders : Relays(s) # {} => AtSource(s, sv[Len(sv)])',
         \A s \in Senders : \A j \in Relays(s) : \A f : f = j.file /\ Safe(st, f) => Safe(sv, f)',
         \A s \in Senders : RelayWrite(s) /\ outbox'[s] = <<>> =>
           \A f : f = job'[s].file => Safe(sv, f)'
  PROVE  Course(sv)'
<1>1. plan' = plan
  BY WorkerAlone, Zenon DEF Next, StartTransfer, SendPiece, Disappear, Receives, Mention, Tick, frozen
<1>2. \A s : Relays(s)' = Relays(s)
  BY <1>1 DEF Relays, Range
<1>3. ASSUME NEW s \in Senders, place[s] = "relaying", outbox[s] = <<>>, NEW f, f = job[s].file
      PROVE  Safe(sv, f)'
  <2>1. Safe(st, f)
    BY <1>3 DEF Course
  <2> QED
    BY <1>3, <2>1, RelaysOf
<1>4. ASSUME NEW s \in Senders, NEW v \in Verdicts(s)', v.how = "relayed", NEW f, f = v.job.file
      PROVE  v.job \in Relays(s) /\ Safe(sv, f)'
  <2>1. CASE v \in Verdicts(s)
    <3>1. v.job \in Relays(s) /\ Safe(st, f)
      BY <1>4, <2>1 DEF Course
    <3> QED
      BY <1>4, <3>1
  <2>2. CASE v \notin Verdicts(s)
    <3>1. v.job = job[s] /\ place[s] = "relaying" /\ outbox[s] = <<>>
      BY <1>4, <2>2, NewVerdict
    <3> QED
      BY <1>3, <1>4, <3>1, RelaysOf
  <2> QED
    BY <2>1, <2>2
<1>5. ASSUME NEW s \in Senders, place'[s] = "relaying", outbox'[s] = <<>>, NEW f, f = job'[s].file
      PROVE  Safe(sv, f)'
  <2>1. CASE RelayWrite(s)
    BY <1>5, <2>1
  <2>2. CASE ~RelayWrite(s)
    <3>1. place[s] = "relaying" /\ outbox[s] = <<>> /\ job'[s] = job[s]
      BY <1>5, <2>2, EmptyOutbox
    <3> QED
      BY <1>3, <1>5, <3>1
  <2> QED
    BY <2>1, <2>2
<1>6. ASSUME NEW s \in Senders, NEW v \in Verdicts(s)', v.how = "relayed"
      PROVE  v.job \in Relays(s)' /\ Safe(sv, v.job.file)'
  <2>1. PICK f : f = v.job.file
    OBVIOUS
  <2>2. v.job \in Relays(s) /\ Safe(sv, f)'
    BY <1>4, <1>6, <2>1
  <2> QED
    BY <1>2, <2>1, <2>2
<1>7. ASSUME NEW s \in Senders, place'[s] = "relaying", outbox'[s] = <<>>
      PROVE  Safe(sv, job[s].file)'
  <2>1. PICK f : f = job'[s].file
    OBVIOUS
  <2>2. Safe(sv, f)'
    BY <1>5, <1>7, <2>1
  <2> QED
    BY <2>1, <2>2, Zenon DEF Safe, Kept, Arriving, HasFile, UpToEOF, HasEOF, Hash, End
<1>8. \A s \in Senders : Relays(s)' # {} => AtSource(s, sv[Len(sv)])'
  BY <1>2
<1> QED
  BY <1>6, <1>7, <1>8 DEF Course

(* A step that sends nothing to the receiver, which takes nothing.         *)
LEMMA CourseSame ==
  ASSUME Types, Types', InTurn, Next, PlainRelays, NEW st, Course(st),
         UNCHANGED <<toTarget, filename, fileBuffer, hash, clientDisk>>
  PROVE  Course(st)'
<1>1. ASSUME NEW s \in Senders
      PROVE  ~RelayWrite(s)
  <2> SUFFICES ASSUME RelayWrite(s)
               PROVE  FALSE
    OBVIOUS
  <2>1. toTarget \in Seq(ClientRecord) /\ toTarget' = Append(toTarget, Head(outbox[s])) /\ toTarget' = toTarget
    BY DEF RelayWrite, Types, ReceiverTypes
  <2> QED
    BY <2>1
<1>2. plan' = plan
  BY WorkerAlone, Zenon DEF Next, StartTransfer, SendPiece, Disappear, Receives, Mention, Tick, frozen
<1>3. Way(st)' /\ \A f : Safe(st, f) => Safe(st, f)'
  BY <1>2, WaySame DEF Course
<1>4. ASSUME NEW s \in Senders, Relays(s) # {}
      PROVE  AtSource(s, st[Len(st)])'
  BY <1>1, <1>4, SourceKept DEF Course
<1> QED
  BY <1>1, <1>3, <1>4, CourseFrom

(* Sequences.                                                              *)
LEMMA ZeroLength ==
  ASSUME NEW S, NEW q \in Seq(S)
  PROVE  q = <<>> <=> Len(q) = 0
  OBVIOUS

LEMMA TailShorter ==
  ASSUME NEW S, NEW q \in Seq(S), q # <<>>, NEW r, r = Tail(q)
  PROVE  r # q
<1>1. PICK n, k : n = Len(q) /\ k = Len(r)
  OBVIOUS
<1>2. r \in Seq(S) /\ n = k + 1 /\ n \in Nat /\ k \in Nat
  BY <1>1, TailOfSome
<1>3. n # k
  BY <1>2
<1> QED
  BY <1>1, <1>3

(* A worker that writes nothing.                                           *)
LEMMA NoWrite ==
  ASSUME Types, NEW s \in Senders, outbox' = outbox
  PROVE  ~RelayWrite(s)
<1> SUFFICES ASSUME RelayWrite(s)
             PROVE  FALSE
  OBVIOUS
<1>1. PICK out : out = outbox[s]
  OBVIOUS
<1>2. out \in Seq(ClientRecord) /\ out # <<>> /\ out = Tail(out)
  BY <1>1, OneTyped DEF RelayWrite, Types, WorkerTypes
<1> QED
  BY <1>2, TailShorter

LEMMA CourseTaken ==
  ASSUME Types, Types', InTurn, Next, PlainRelays, NEW st \in Seq(Held), Course(st), Receives
  PROVE  \E sv \in Seq(Held) : Course(sv)'
<1>1. PICK sv : sv = Tail(st)
  OBVIOUS
<1>2. /\ sv \in Seq(Held) /\ Way(sv)' /\ sv[Len(sv)] = st[Len(st)]
      /\ \A s \in Senders : \A j \in Relays(s) : \A f : f = j.file /\ Safe(st, f) => Safe(sv, f)'
  BY <1>1, WayTaken DEF Course
<1>3. UNCHANGED outbox
  BY DEF Receives, worker
<1>4. ASSUME NEW s \in Senders
      PROVE  ~RelayWrite(s)
  BY <1>3, NoWrite
<1>5. PICK r : r = st[Len(st)]
  OBVIOUS
<1>6. ASSUME NEW s \in Senders, Relays(s) # {}
      PROVE  AtSource(s, r)'
  BY <1>4, <1>5, <1>6, SourceKept DEF Course
<1>7. sv[Len(sv)] = r
  BY <1>2, <1>5
<1>8. \A s \in Senders : Relays(s) # {} => AtSource(s, sv[Len(sv)])'
  BY <1>6, <1>7
<1>9. Course(sv)'
  BY <1>2, <1>4, <1>8, CourseFrom
<1> QED
  BY <1>2, <1>9

(* A text of another client, or of a worker that is done.                  *)
LEMMA CourseText ==
  ASSUME Types, Types', InTurn, Next, PlainRelays, NEW st \in Seq(Held), Course(st),
         NEW letters \in {"nothing", "EOF"}, toTarget' = Append(toTarget, Text(letters)),
         UNCHANGED <<outbox, filename, fileBuffer, hash, clientDisk>>
  PROVE  \E sv \in Seq(Held) : Course(sv)'
<1>1. PICK m : m = Text(letters)
  OBVIOUS
<1>2. m \in ClientRecord /\ m.is = "text" /\ m.has = letters /\ m # End
  BY <1>1 DEF Text, ClientRecord, Mentions, End
<1>3. PICK r : r = st[Len(st)]
  OBVIOUS
<1>4. PICK sv : sv = Append(st, After(r, m))
  OBVIOUS
<1>5. plan' = plan
  BY WorkerAlone, Zenon DEF Next, StartTransfer, SendPiece, Disappear, Receives, Mention, Tick, frozen
<1>6. /\ sv \in Seq(Held) /\ Way(sv)' /\ sv[Len(sv)] = After(r, m)
      /\ \A f : Safe(st, f) => Safe(sv, f)'
  BY <1>1, <1>2, <1>3, <1>4, <1>5, WayExtended, Zenon DEF Course
<1>7. r \in Held
  BY <1>3 DEF Course, Way, Types, ReceiverTypes
<1>8. sv[Len(sv)] = r
  BY <1>2, <1>6, <1>7, AfterTyped
<1>9. ASSUME NEW s \in Senders
      PROVE  ~RelayWrite(s)
  BY NoWrite
<1>10. ASSUME NEW s \in Senders, Relays(s) # {}
       PROVE  AtSource(s, r)'
  BY <1>3, <1>9, <1>10, SourceKept DEF Course
<1>11. \A s \in Senders : Relays(s) # {} => AtSource(s, sv[Len(sv)])'
  BY <1>8, <1>10
<1>12. Course(sv)'
  BY <1>6, <1>9, <1>11, CourseFrom
<1> QED
  BY <1>6, <1>12

(* The sole sender's worker writes the next record.                        *)
LEMMA CourseWritten ==
  ASSUME Types, Types', InTurn, Next, PlainRelays, NEW st \in Seq(Held), Course(st),
         NEW s \in Senders, RelayWrite(s)
  PROVE  \E sv \in Seq(Held) : Course(sv)'
<1>1. /\ place[s] = "relaying" /\ place'[s] = "relaying" /\ outbox[s] # <<>>
      /\ toTarget' = Append(toTarget, Head(outbox[s])) /\ outbox'[s] = Tail(outbox[s])
      /\ UNCHANGED <<plan, job, got, filename, fileBuffer, hash, clientDisk>>
  BY DEF RelayWrite, receiver, frozen, Types, WorkerTypes
<1>2. job[s] \in Relays(s) /\ job[s] \in Jobs
  BY <1>1, RelaysOf
<1>3. PICK f, g, m, r : f = job[s].file /\ g = got[s] /\ m = Head(outbox[s]) /\ r = st[Len(st)]
  OBVIOUS
<1>4. PICK n, l : n = Len(g) /\ l = Len(outbox[s])
  OBVIOUS
<1>5. /\ n \in Nat /\ l \in 1 .. n + 2 /\ g \in Seq(Pieces) /\ g = UpToEOF(f.pieces)
      /\ l = n + 2 => m = Info(f.name, Hash(g))
      /\ l = 1 => m = End
      /\ l \in 2 .. n + 1 => /\ m = File(g[n + 2 - l]) /\ n + 2 - l \in 1 .. n
                             /\ g[n + 2 - l] \in Range(f.pieces)
  BY <1>1, <1>3, <1>4, OneTyped, NextRecord
<1>6. AtSource(s, r)
  BY <1>2, <1>3 DEF Course
<1>7. /\ l = n + 2 => r = Idle
      /\ l # n + 2 => r.name = f.name /\ r.hash = Hash(g) /\ r.pieces = SubSeq(g, 1, n + 1 - l)
  <2>1. Halfway(s) <=> l # n + 2
    BY <1>1, <1>3, <1>4, <1>5 DEF Halfway
  <2>2. CASE l = n + 2
    <3>1. ~Halfway(s)
      BY <2>1, <2>2
    <3> QED
      BY <1>6, <2>2, <3>1 DEF AtSource
  <2>3. CASE l # n + 2
    <3>1. Halfway(s)
      BY <2>1, <2>3
    <3>2. /\ r.name = job[s].file.name /\ r.hash = Hash(got[s])
          /\ r.pieces = SubSeq(got[s], 1, Len(got[s]) + 1 - Len(outbox[s]))
      BY <1>6, <3>1 DEF AtSource
    <3> QED
      BY <1>3, <1>4, <2>3, <3>2
  <2> QED
    BY <2>2, <2>3
<1>8. m \in ClientRecord /\ r \in Held
  <2>1. m \in ClientRecord
    BY <1>1, <1>3, OneTyped
  <2>2. r \in Held
    BY <1>3 DEF Course, Way, Types, ReceiverTypes
  <2> QED
    BY <2>1, <2>2
<1>9. l = 1 => HasFile(r, f)
  <2> SUFFICES ASSUME l = 1
               PROVE  HasFile(r, f)
    OBVIOUS
  <2>1. SubSeq(g, 1, n) = g /\ n + 1 - l = n /\ l # n + 2
    BY <1>4, <1>5
  <2> QED
    BY <1>5, <1>7, <2>1 DEF HasFile
<1>10. /\ m.is = "text" => m.has \in {"nothing", "EOF"}
       /\ m.is = "FILE" => m.piece \notin Special
       /\ m = End => \E t \in Senders : \E j \in Relays(t) : HasFile(r, j.file)
  <2>1. CASE l = n + 2
    BY <1>5, <2>1 DEF Info, End
  <2>2. CASE l = 1
    BY <1>2, <1>3, <1>5, <1>9, <2>2 DEF End
  <2>3. CASE l \in 2 .. n + 1
    <3>1. \A q \in Range(f.pieces) : q \notin Special
      BY <1>2, <1>3, SoleTwo
    <3> QED
      BY <1>5, <2>3, <3>1 DEF File, End
  <2> QED
    BY <1>5, <2>1, <2>2, <2>3
<1>11. PICK sv : sv = Append(st, After(r, m))
  OBVIOUS
<1>12. /\ sv \in Seq(Held) /\ Way(sv)' /\ sv[Len(sv)] = After(r, m)
       /\ \A h : Safe(st, h) => Safe(sv, h)'
       /\ \A h : m = End /\ HasFile(r, h) => Safe(sv, h)'
  <2>1. /\ Way(st) /\ toTarget' = Append(toTarget, m)
        /\ UNCHANGED <<plan, filename, fileBuffer, hash, clientDisk>>
    BY <1>1, <1>3 DEF Course
  <2>2. m \in ClientRecord /\ r = st[Len(st)]
    BY <1>3, <1>8
  <2> QED
    BY <1>10, <1>11, <2>1, <2>2, WayExtended
<1>13. Len(outbox'[s]) = l - 1 /\ (outbox'[s] = <<>> <=> l = 1)
  <2>1. PICK out, rest : out = outbox[s] /\ rest = Tail(out)
    OBVIOUS
  <2>2. out \in Seq(ClientRecord) /\ out # <<>> /\ l = Len(out) /\ outbox'[s] = rest
    BY <1>1, <1>4, <2>1, OneTyped
  <2>3. PICK k : k = Len(rest)
    OBVIOUS
  <2>4. rest \in Seq(ClientRecord) /\ l = k + 1 /\ k \in Nat
    BY <2>1, <2>2, <2>3, TailOfSome
  <2>5. rest = <<>> <=> k = 0
    BY <2>3, <2>4, ZeroLength
  <2> QED
    BY <2>2, <2>3, <2>4, <2>5
<1>14. PICK a : a = After(r, m)
  OBVIOUS
<1>15. /\ l = 1 => a = Idle
       /\ l # 1 => a.name = f.name /\ a.hash = Hash(g) /\ a.pieces = SubSeq(g, 1, n + 2 - l)
  <2>1. CASE l = n + 2
    <3>1. a.name = f.name /\ a.hash = Hash(g) /\ a.pieces = <<>>
      BY <1>5, <1>7, <1>8, <1>14, <2>1, AfterTyped DEF Info, Idle
    <3>2. SubSeq(g, 1, 0) = <<>> /\ n + 2 - l = 0 /\ l # 1
      BY <1>5, <2>1
    <3> QED
      BY <3>1, <3>2
  <2>2. CASE l = 1
    BY <1>5, <1>8, <1>14, <2>2, AfterTyped DEF End
  <2>3. CASE l \in 2 .. n + 1
    <3>1. m = File(g[n + 2 - l]) /\ n + 2 - l \in 1 .. n /\ l # n + 2 /\ l # 1
      BY <1>5, <2>3
    <3>2. PICK k : k = n + 1 - l
      OBVIOUS
    <3>3. k \in 0 .. n - 1 /\ n + 2 - l = k + 1
      BY <1>5, <2>3, <3>2
    <3>4. a.name = f.name /\ a.hash = Hash(g) /\ a.pieces = Append(SubSeq(g, 1, k), g[k + 1])
      <4>1. m.is = "FILE" /\ m.piece = g[k + 1]
        BY <3>1, <3>3 DEF File
      <4>2. r.name = f.name /\ r.hash = Hash(g) /\ r.pieces = SubSeq(g, 1, k)
        BY <1>7, <3>1, <3>2
      <4>3. a = [name |-> r.name, pieces |-> Append(r.pieces, m.piece), hash |-> r.hash]
        BY <1>8, <1>14, <4>1, AfterTyped
      <4> QED
        BY <4>1, <4>2, <4>3
    <3>5. Append(SubSeq(g, 1, k), g[k + 1]) = SubSeq(g, 1, k + 1)
      BY <1>4, <1>5, <3>3
    <3> QED
      BY <3>1, <3>3, <3>4, <3>5
  <2> QED
    BY <1>5, <2>1, <2>2, <2>3
<1>16. AtSource(s, a)'
  <2>1. CASE l = 1
    BY <1>13, <1>15, <2>1 DEF AtSource, Halfway, Idle, NoHash
  <2>2. CASE l # 1
    <3>1. Halfway(s)'
      BY <1>1, <1>3, <1>4, <1>5, <1>13, <2>2 DEF Halfway
    <3>2. /\ a.name = job'[s].file.name /\ a.hash = [known |-> TRUE, of |-> got'[s]]
          /\ a.pieces = SubSeq(got'[s], 1, Len(got'[s]) + 1 - Len(outbox'[s]))
      <4>1. n + 1 - (l - 1) = n + 2 - l
        BY <1>5
      <4> QED
        BY <1>1, <1>3, <1>4, <1>13, <1>15, <2>2, <4>1 DEF Hash
    <3> QED
      BY <3>1, <3>2 DEF AtSource, Hash
  <2> QED
    BY <2>1, <2>2
<1>17. \A t \in Senders : Relays(t) # {} => AtSource(t, sv[Len(sv)])'
  <2>1. \A t \in Senders : Relays(t) # {} => t = s
    BY <1>2 DEF PlainRelays
  <2>2. sv[Len(sv)] = a
    BY <1>12, <1>14
  <2> QED
    BY <1>16, <2>1, <2>2
<1>18. ASSUME NEW t \in Senders, RelayWrite(t), outbox'[t] = <<>>, NEW h, h = job'[t].file
       PROVE  Safe(sv, h)'
  <2>1. t = s
    <3>1. job[t] \in Relays(t)
      BY <1>18, RelaysOf DEF RelayWrite
    <3> QED
      BY <1>2, <3>1, SoleTwo
  <2>2. l = 1 /\ h = f
    BY <1>1, <1>3, <1>13, <1>18, <2>1
  <2> QED
    BY <1>5, <1>9, <1>12, <2>2
<1>19. Course(sv)'
  BY <1>12, <1>17, <1>18, CourseFrom
<1> QED
  BY <1>12, <1>19

(* A step that changes nothing.                                            *)
LEMMA CourseStays ==
  ASSUME UNCHANGED <<plan, place, outbox, got, job, verdict, toTarget>>,
         UNCHANGED <<filename, fileBuffer, hash, clientDisk>>, NEW st, Course(st)
  PROVE  Course(st)'
<1>1. Way(st)' /\ \A f : Safe(st, f) => Safe(st, f)'
  BY WaySame DEF Course
<1>2. \A s : Relays(s)' = Relays(s) /\ Verdicts(s)' = Verdicts(s)
  BY DEF Relays, Verdicts, Range
<1>3. ASSUME NEW s \in Senders, Relays(s)' # {}
      PROVE  AtSource(s, st[Len(st)])'
  <2>1. PICK r : r = st[Len(st)]
    OBVIOUS
  <2>2. AtSource(s, r)
    BY <1>2, <1>3, <2>1 DEF Course
  <2>3. UNCHANGED <<place[s], job[s], got[s], outbox[s]>>
    OBVIOUS
  <2>4. AtSource(s, r)'
    BY <2>2, <2>3 DEF AtSource, Halfway, Hash, Idle, NoHash
  <2> QED
    BY <2>1, <2>4
<1>4. ASSUME NEW s \in Senders, NEW v \in Verdicts(s)', v.how = "relayed"
      PROVE  v.job \in Relays(s)' /\ Safe(st, v.job.file)'
  BY <1>1, <1>2, <1>4 DEF Course
<1>5. ASSUME NEW s \in Senders, place'[s] = "relaying", outbox'[s] = <<>>
      PROVE  Safe(st, job[s].file)'
  <2>1. PICK f : f = job'[s].file
    OBVIOUS
  <2>2. Safe(st, f)'
    BY <1>1, <1>5, <2>1 DEF Course
  <2> QED
    BY <2>1, <2>2, Zenon DEF Safe, Kept, Arriving, HasFile, UpToEOF, HasEOF, Hash, End
<1> QED
  BY <1>1, <1>3, <1>4, <1>5 DEF Course

(* At the start nothing is on its way.                                     *)
LEMMA InitSole == Init => SoleOK
<1> SUFFICES ASSUME Init, PlainRelays
             PROVE  \E st \in Seq(Held) : Course(st)
  BY DEF SoleOK
<1>1. /\ Len(toTarget) = 0 /\ filename = NoName /\ fileBuffer = <<>> /\ hash = NoHash
      /\ \A s \in Senders : place[s] = "command" /\ verdict[s] = <<>>
  BY DEF Init, ReceiverInit
<1>2. Idle \in Held
  <2>1. Types
    BY InitTypes
  <2> QED
    BY <1>1, <2>1, HeldNow DEF Idle
<1>3. PICK st : st = <<Idle>>
  OBVIOUS
<1>4. st \in Seq(Held) /\ Len(st) = 1 /\ st[1] = Idle
  BY <1>2, <1>3
<1>5. Way(st)
  BY <1>1, <1>4 DEF Way, Idle
<1>6. \A s \in Senders : AtSource(s, st[Len(st)])
  BY <1>1, <1>4 DEF AtSource, Halfway
<1>7. \A s \in Senders : Verdicts(s) = {}
  BY <1>1 DEF Verdicts, Range
<1>8. Course(st)
  BY <1>1, <1>5, <1>6, <1>7 DEF Course
<1> QED
  BY <1>4, <1>8

LEMMA SoleKept ==
  ASSUME Types, Types', InTurn, NoticeOK, SoleOK, Next
  PROVE  SoleOK'
<1> SUFFICES ASSUME PlainRelays'
             PROVE  \E st \in Seq(Held) : Course(st)'
  BY DEF SoleOK
<1>1. UNCHANGED <<plan, mention>> /\ (said => said')
  <2>1. \A s \in Senders : Worker(s) => UNCHANGED <<plan, mention, said>>
    BY WorkerAlone
  <2>2. \A s \in Senders : StartTransfer(s) \/ SendPiece(s) \/ Disappear(s) => UNCHANGED <<plan, mention, said>>
    BY DEF StartTransfer, SendPiece, Disappear, frozen
  <2>3. Receives \/ Mention \/ Tick => UNCHANGED <<plan, mention>> /\ (said => said')
    BY DEF Receives, Mention, Tick, frozen
  <2> QED
    BY <2>1, <2>2, <2>3 DEF Next
<1>2. PlainRelays
  BY <1>1, PlainBefore
<1>3. PICK st \in Seq(Held) : Course(st)
  BY <1>2 DEF SoleOK
<1>4. ASSUME NEW s \in Senders, RelayWrite(s)
      PROVE  \E sv \in Seq(Held) : Course(sv)'
  BY <1>2, <1>3, <1>4, CourseWritten
<1>5. ASSUME NEW s \in Senders, Notice(s)
      PROVE  \E sv \in Seq(Held) : Course(sv)'
  <2>1. PICK letters : letters = job[s].notice
    OBVIOUS
  <2>2. letters \in {"nothing", "EOF"}
    BY <1>2, <1>5, <2>1 DEF NoticeOK, Notice, PlainRelays
  <2>3. /\ toTarget' = Append(toTarget, Text(letters))
        /\ UNCHANGED <<outbox, filename, fileBuffer, hash, clientDisk>>
    BY <1>5, <2>1 DEF Notice, receiver
  <2> QED
    BY <1>2, <1>3, <2>2, <2>3, CourseText
<1>6. CASE Mention
  <2>1. mention \in {"nothing", "EOF"}
    BY <1>6 DEF PlainRelays, Mention, frozen
  <2>2. /\ toTarget' = Append(toTarget, Text(mention))
        /\ UNCHANGED <<outbox, filename, fileBuffer, hash, clientDisk>>
    BY <1>6 DEF Mention, receiver, worker
  <2> QED
    BY <1>2, <1>3, <2>1, <2>2, CourseText
<1>7. CASE Receives
  BY <1>2, <1>3, <1>7, CourseTaken
<1>8. ASSUME UNCHANGED <<toTarget, receiver>>
      PROVE  \E sv \in Seq(Held) : Course(sv)'
  <2>1. UNCHANGED <<toTarget, filename, fileBuffer, hash, clientDisk>>
    BY <1>8 DEF receiver
  <2> QED
    BY <1>2, <1>3, <2>1, CourseSame
<1>9. ASSUME NEW s \in Senders, Worker(s), ~RelayWrite(s), ~Notice(s)
      PROVE  UNCHANGED <<toTarget, receiver>>
  BY <1>9 DEF Worker, Upload, Relay, BeginUpload, UploadPiece, UploadEnd, UploadBroken, BeginRelay,
              RelayPiece, RelayEnd, RelayBroken, RelayAnswer, ReadStray, Reads
<1>10. ASSUME NEW s \in Senders, StartTransfer(s) \/ SendPiece(s) \/ Disappear(s)
       PROVE  UNCHANGED <<toTarget, receiver>>
  BY <1>10 DEF StartTransfer, SendPiece, Disappear
<1>11. CASE Tick
  BY <1>8, <1>11 DEF Tick
<1> QED
  BY <1>4, <1>5, <1>6, <1>7, <1>8, <1>9, <1>10, <1>11 DEF Next

-----------------------------------------------------------------------------
(* The invariant, and what follows from it.                                *)

IInv == Types /\ InTurn /\ DiskOK /\ NoticeOK /\ AnnouncedOK /\ SoleOK

LEMMA InitIInv == Init => IInv
<1>1. Init => NoticeOK
  BY DEF Init, NoticeOK
<1> QED
  BY <1>1, InitTypes, InitInTurn, InitDisk, InitAnnounced, InitSole DEF IInv

LEMMA NextIInv ==
  ASSUME IInv, [Next]_vars
  PROVE  IInv'
<1>1. CASE Next
  <2>1. Types'
    BY <1>1, SenderTypesKept, WorkerTypesKept, DiskTypesKept, ReceiverTypesKept DEF IInv, Types
  <2> QED
    BY <1>1, <2>1, InTurnKept, DiskKept, NoticeKept, AnnouncedKept, SoleKept DEF IInv
<1>2. CASE UNCHANGED vars
  <2>1. UNCHANGED <<now, toTarget, receiver, plan, mention, said, turn, left, gone, wire, place, job,
                    got, outbox, path, linked, stored, serverDisk, opened, verdict, announced>>
    BY <1>2 DEF vars, frozen, senders, worker, disk
  <2>2. UNCHANGED <<filename, fileBuffer, hash, clientDisk, isReceivingFileMode>>
    BY <2>1 DEF receiver
  <2>3. Types'
    BY <2>1, <2>2 DEF IInv, Types, SenderTypes, WorkerTypes, DiskTypes, ReceiverTypes
  <2>4. InTurn'
    <3> SUFFICES ASSUME NEW s \in Senders
                 PROVE  Stage(s)'
      BY DEF InTurn
    <3> QED
      BY <2>1, StageFrame DEF IInv, InTurn
  <2>5. DiskOK'
    <3>1. UNCHANGED <<plan, worker, disk, verdict, turn>>
      BY <2>1 DEF worker, disk
    <3> QED
      BY <3>1, DiskStays DEF IInv
  <2>6. AnnouncedOK'
    BY <2>1, <2>2, AnnouncedStays DEF IInv
  <2>7. SoleOK'
    <3>1. PlainRelays' => PlainRelays
      BY <2>1, PlainBefore
    <3>2. \A st : Course(st) => Course(st)'
      BY <2>1, <2>2, CourseStays
    <3> QED
      BY <3>1, <3>2 DEF IInv, SoleOK
  <2>8. NoticeOK'
    BY <2>1 DEF IInv, NoticeOK, Relays, Range
  <2> QED
    BY <2>3, <2>4, <2>5, <2>6, <2>7, <2>8 DEF IInv
<1> QED
  BY <1>1, <1>2

(* The invariant holds in every state of every behaviour.                  *)
THEOREM SpecIInv == Spec => []IInv
  BY InitIInv, NextIInv, PTL DEF Spec

(* What the invariant says of each property.                               *)
LEMMA IInvTypeOK == IInv => TypeOK
<1> SUFFICES ASSUME IInv
             PROVE  TypeOK
  OBVIOUS
<1>1. SenderTypes /\ WorkerTypes /\ DiskTypes /\ ReceiverTypes
  BY DEF IInv, Types
<1>2. ASSUME NEW s \in Senders
      PROVE  /\ turn[s] \in 0 .. Len(plan[s]) /\ Len(verdict[s]) <= turn[s]
             /\ left[s] \in Seq(Pieces) /\ got[s] \in Seq(Pieces)
             /\ Len(got[s]) <= MaxPieces /\ stored[s] \in 0 .. MaxPieces
             /\ place[s] \in {"command", "receiving", "relaying", "notice", "closed"}
             /\ job[s] \in Jobs \cup {NoJob}
             /\ linked[s] => path[s] \in DOMAIN serverDisk
  <2>1. Stage(s)
    BY DEF IInv, InTurn
  <2>2. turn[s] <= Len(plan[s]) /\ Len(got[s]) <= MaxPieces
    BY <2>1 DEF Stage
  <2>3. turn[s] \in Nat
    BY <1>1 DEF SenderTypes
  <2>4. PICK n : n = Len(verdict[s])
    OBVIOUS
  <2>5. n \in Nat
    BY <2>4, OneTyped DEF IInv
  <2>6. n = turn[s] \/ n + 1 = turn[s]
    BY <2>1, <2>4 DEF Stage, AtRest, Asked, Receiving, Relaying
  <2>7. n <= turn[s]
    BY <2>3, <2>5, <2>6
  <2>8. linked[s] => path[s] \in DOMAIN serverDisk
    BY DEF IInv, DiskOK, StreamOK
  <2>9. PICK k : k = Len(plan[s])
    OBVIOUS
  <2>10. k \in Nat
    BY <1>1, <2>9 DEF SenderTypes
  <2>11. turn[s] \in 0 .. k
    BY <2>2, <2>3, <2>9, <2>10
  <2> QED
    BY <1>1, <2>2, <2>4, <2>7, <2>8, <2>9, <2>11 DEF SenderTypes, WorkerTypes, DiskTypes
<1> QED
  BY <1>1, <1>2, Zenon DEF TypeOK, SenderTypes, ReceiverTypes

LEMMA IInvSaved == IInv => SavedAsSaid
<1> SUFFICES ASSUME IInv
             PROVE  SavedAsSaid
  OBVIOUS
<1>1. ASSUME NEW s \in Senders, NEW v \in Verdicts(s), v.how = "saved", ~Shared(v.path)
      PROVE  v.path \in DOMAIN serverDisk /\ serverDisk[v.path] = UpToEOF(v.job.file.pieces)
  <2>1. PICK i \in DOMAIN verdict[s] : verdict[s][i] = v
    BY DEF Verdicts, Range
  <2>2. i \in 1 .. Len(verdict[s])
    BY <2>1, OneTyped DEF IInv
  <2>3. SavedAt(s, i)
    BY <1>1, <2>1, <2>2 DEF IInv, DiskOK, SavedOK
  <2>4. OnDisk(v.path, v.job.file)
    BY <2>1, <2>3 DEF SavedAt
  <2> QED
    BY <1>1, <2>4 DEF OnDisk
<1>2. \A p \in DOMAIN serverDisk :
        \E s \in Senders :
          \/ \E v \in Verdicts(s) : v.how = "saved" /\ v.path = p
          \/ place[s] = "receiving" /\ job[s].mode = "3" /\ path[s] = p
  BY DEF IInv, DiskOK, NothingElse, Uploading
<1> QED
  BY <1>1, <1>2 DEF SavedAsSaid

LEMMA IInvSole == IInv => SoleRelayKept
<1> SUFFICES ASSUME IInv, PlainRelays, toTarget = <<>>,
                    NEW s \in Senders, NEW v \in Verdicts(s), v.how = "relayed"
             PROVE  Kept(v.job.file)
  BY DEF SoleRelayKept, Kept
<1>1. PICK st \in Seq(Held) : Course(st)
  BY DEF IInv, SoleOK
<1>2. Safe(st, v.job.file)
  BY <1>1 DEF Course
<1>3. ~Arriving(st, v.job.file)
  BY DEF Arriving
<1> QED
  BY <1>2, <1>3 DEF Safe

(* Every part keeps its type: never more pieces in memory than             *)
(* MAX_FILE_SIZE, never more answers than transfers, and a stream that is  *)
(* not cut off has its file on the disk (receiveFileServer).               *)
THEOREM FileTypeOK == Spec => []TypeOK
  BY SpecIInv, IInvTypeOK, PTL

(* Under a path that only one transfer got, serverFile holds all the       *)
(* pieces of a file reported as saved, through any flushing, removing and  *)
(* truncating of other transfers; and it holds nothing that was neither    *)
(* reported nor is still being received (receiveFileServer).               *)
THEOREM FileSavedAsSaid == Spec => []SavedAsSaid
  BY SpecIInv, IInvSaved, PTL

(* What a receiving client keeps is one of the files passed on to it, whole *)
(* and under its name, or is what a piece or a text with INFO: in it itself *)
(* gave name and hash of, however the records of several workers, notices   *)
(* and texts of others are mixed on the way (receiveMessages).              *)
THEOREM FileKeptIsSource == Spec => []KeptIsSource
<1>1. IInv => KeptIsSource
  BY DEF IInv, AnnouncedOK
<1> QED
  BY <1>1, SpecIInv, PTL

(* A file that a worker reports as passed on is kept by the receiver when  *)
(* all has arrived, if one client alone passes on files without letters    *)
(* that mean something (receiveAndSendFile, receiveMessages).              *)
THEOREM FileSoleRelayKept == Spec => []SoleRelayKept
  BY SpecIInv, IInvSole, PTL
=============================================================================
