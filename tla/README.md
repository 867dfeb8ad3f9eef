# A TLA+ verification of the client-server network design

This directory holds TLA+ models of the chat and file server in `src/last_one`
(C++, POSIX threads, OpenSSL) and of its first version in `src/phase_1`, the TLC
configurations that check them, and proofs about them that TLAPS checks. `PROJECT.json` ties every definition to the
lines it models, every property to a mutation of the code it would notice, and
every hazard to its line. Paths below are relative to `src/last_one`.

## 1. The system

A server process accepts TLS connections and serves each with one worker thread
until it ends. A client is a program with two threads: one talks to its user,
one receives. Clients register, log in, and `send` in five modes: a message to
the server (1), a message to another client (2), a file to the server (3), a
file to another client (4), an audio file to the server (5).

| Component | Source | State | Operations |
|---|---|---|---|
| Account table | `UserManager.cpp` | `users` (name, password, flag), `clientStatus` (descriptor to name), `users.txt`, one mutex | register, login, logout, queries, load, save (append, outside the mutex) |
| Account commands | `ThreadPool.cpp` 102-162, 569-594 | locals of a worker: the command, the response | `register`, `login`, `logout`, `exit`, the clean-up after a connection |
| Server | `server.cpp` | `currentClients` and its mutex, `sslMap` (no lock), the listening socket | accept, handshake, admit or reject, decrement |
| Thread pool | `ThreadPool.cpp` 23-54, 597-660 | `jobQueue`, `isRunning`, mutex and condition variable | take a job, add a job, shut down |
| Message buffers | `ThreadPool.cpp` 9-10, 66-88 | two global arrays | clear, read, copy |
| `send` dialogue | `ThreadPool.cpp` 163-564 | which text is expected next, the mode | mode, message, relay, file, refusals |
| Client program | `client.cpp` | eight flags shared by two threads, `messageReceived` with a condition variable | command loop, receiving loop |
| Text files | `myfile.cpp` 1-332 | streams, hashes, `fileBuffer` | send in pieces, receive, pass on |
| Audio files | `myfile.cpp` 334-576 | `audioBuffer`, a playback callback | send, receive and play, save |
| TLS set-up, menus, texts | `server.cpp` 18-55, `client.cpp` 51-119, `defAndFuc.cpp` | none of their own | - |
| First version | `phase_1/code/` | a table of users, one global login, `userInfo.txt`; one client at a time | register, login, logout, message, exit, restart |

How they interact: the main thread of the server puts an accepted descriptor
in `sslMap` and in `jobQueue`; a worker takes it, looks its SSL object up once
and keeps it. Workers meet in `UserManager` (one critical section per method
call, none over two calls), in `sslMap`, in `currentClients`, in the global
message arrays, and - when they relay - in each other's SSL objects. Client and
worker meet in two ordered streams of TLS records in which a line carries no
mark of the question it answers.

What is hard in it: everything a worker checks in one call of `UserManager`
may be different at the next; a descriptor is reused as soon as it is closed;
pointers taken out of `sslMap` are used after the look-up; the process may end
at any write (`SIGPIPE`) and be started again on the same `users.txt`; the
receiving thread of the client wakes the other thread *before* it sets the
flags that thread goes on to read; messages and files of other clients arrive
between a question and its answer; pieces of files are told from commands, from
each other's files and from chat texts by letters in them; a PortAudio callback
plays and erases the front of a vector to which a worker appends.

## 2. The modules

    UserManager <- Sessions    -implements-> Accounts    MCSessions      SessionsProofs
    UserManager <- Server      -implements-> Admission   MCServer        ServerProofs
                   ThreadPool  -implements-> WorkQueue   MCThreadPool    ThreadPoolProofs
                   MessageBuffer                         MCMessageBuffer MessageBufferProofs
                   Dialogue                              MCDialogue      DialogueProofs
    FileReceiver <- FileTransfer                         MCFileTransfer  FileTransferProofs
                   AudioBuffer                           MCAudioBuffer   AudioBufferProofs
                   Phase1      -implements-> Accounts    MCPhase1        Phase1Proofs

(`<-` is EXTENDS; the lemmas about the account table are in both `SessionsProofs`
and `ServerProofs`, each with those it needs.)

**UserManager** - the account table. Each method is an operator, the scans of
the vector are sets of indices (`Entries`, `Entry` is the first match), and
`clientStatus.find(s) == end()` is the value `NoUser`. Extended by the two
modules that have workers.

**Sessions** - the account commands: a program counter per descriptor, one
action per call of `UserManager`, so that the workers interleave between any
two calls (`LoginExist`, `LoginAvailable`, `LoginCall` are three). `Save` is
apart from `RegisterCall`, as in the code, and may do nothing when the disk
fails. `Restart` ends the process at any point. Names and passwords over the
length limit are one value `LongName`. Two history variables: `acked` holds
the lines a client has been told are registered, `lost` those whose last
`saveUsers` could not open the file - and returned without a word, so that the
client was told the same (`UserManager.cpp` 71, `ThreadPool.cpp` 113).

**Accounts** - what a client may rely on: an account is registered once, is in
the hands of at most one connection at a time, and one connection holds at most
one account; a restart ends all sessions and keeps what was durable. Both
versions of the server are shown to implement it.

**Server** - the life of a connection: kernel backlog, `accept` with reuse of
descriptors (any closed one may be handed out again), handshake, the capacity
test, `sslMap`, the queue, a worker with `ssl` looked up once, relaying in its
steps (look up the name, look up the pointer, write), and the clean-up in the
order of the code. An SSL object is named by its connection and is `"none"`,
`"live"` or `"freed"`; `operator[]` of the map inserts `Null`. `Die` is the end
of the process through `SIGPIPE` or a bad pointer. The password check and the
flags are those of `UserManager`.

**Admission** - the gate as those who connect see it. A connection goes through
the phases `idle`, `waiting`, `secured` (handshake done), `admitted`, `served`,
`done`: refused only after its handshake and only while exactly `MaxClients`
others are inside, never more inside, served once.

**ThreadPool** - the critical sections of the pool. `pthread_cond_wait` gives
the mutex up and sleeps in one step; a signal makes one sleeper a contender for
the mutex; spurious wake-ups are actions; `pthread_create` may fail for any of
the threads. `GiveBack` is the call of `decrementClientCount` at the end of
`handleClient`, before the thread is back at the queue: in between, the server
may already let the next client in. `shutdown` is called by `~Server` only.
`main` never gets there (its loop does not end, and `SIGINT` calls `exit`), so
those properties are about the class, not about a run of the program.

**WorkQueue** - the pool as its users see it: first in, first out, each job to
one worker, ended only when closed.

**MessageBuffer** - how a worker gets a message out of the global array:
`memset`, `SSL_read`, the string up to the first NUL. With one worker and with
two.

**Dialogue** - one client program and its worker. Main thread and receiving
thread have a program counter each and share the flags of `client.cpp`; the
worker has a place at which it reads the next text. Every text remembers,
as a history, the place it was typed for (`at`). What may happen beside a user
who types what is asked is named in the variable `hazards`, one member of the
constant `Scenarios` that is chosen in `Init` and never changes:

| value | what it allows |
|---|---|
| `"race"` | main goes on before the receiver has set its flags |
| `"chat"`, `"file"` | other clients - or this one itself - send it a message, a whole file |
| `"files"`, `"bare"` | a second file begins before the first is through; a file fails, and only its notice comes |
| `"words"` | messages and notices hold letters the receiver looks for: EOF, FILE:, INFO:, `Login successful!`, `Receive failed.` |
| `"echo"` | the worker's own answers do, for the names and texts they repeat |
| `"long"` | a line fills the worker's array and is dropped or cut; an echo or a message does not fit the client's and is read as two |
| `"refuse"` | the worker refuses a file or gives it up half-way |
| `"empty"` | the user presses Enter on an empty line |
| `"SEND"` | a command in capitals |
| `"vanish"` | the file cannot be opened for sending after its name was sent |

A text that is written stands for what its receiver makes of it: with EOF, FILE:
or INFO: somewhere in it, it is a `"FILE:"` (exactly `EOF` is an `"EOF"`), and a
chat that says `Login successful!` is a `"Client_login"`. Only the echoes of modes
1 and 2 and the chats can exceed `BUFFER_SIZE`; every other answer is made of names
and paths whose lengths are limited (`MAX_USERNAME_LENGTH`, `MAX_FILEPATH`, the
length of a file's name on the disk). `Chat` and the files need nobody logged in:
the descriptor of the addressee is looked up before the write, and may be that of
a client that has logged out since, or of the next one.

This is how the properties that hold are told from those that need one of these
not to happen. Mode 3 stands for 3 and 5.

**FileReceiver** - the receiving half of `client.cpp` for files: records are told
apart by the letters in them (`InfoIn`, `PieceIn`), so a chat text that mentions
`EOF`, `FILE` or `INFO` counts as part of a file. After `INFO:` a name and a hash are
read wherever the letters stand, in a piece or a text too (`Announces`): the constant
`Claims` gives what, if anything, is to be read in which of them. One name, one buffer and one
hash for all that arrives; an end without a name throws and clears nothing.
The empty string is the name `NoName`; `Store` is a file created on a disk, or
one of the same path truncated.

**FileTransfer** - text files, from clients through their workers to `serverFile`
(mode 3) or to one receiving client (mode 4). Contents are sequences of pieces;
a piece with the letters EOF ends the transfer wherever it occurs, and what
follows is read as commands. Paths are named after the second; streams write
through a buffer, at their own offset, into a file that another stream may have
truncated or removed. The size limit, audio files given to the text modes,
senders that disappear, the notice that is sent whether or not a file was (and in
which, as it repeats the names of user and file, the same letters may occur), and
several workers writing to one receiver record by record.

**AudioBuffer** - the worker that receives frames, appends them to `audioBuffer`
and saves what is left, and the PortAudio callback that plays the front and
erases it; no lock. `vector::erase` moves the samples behind the erased ones to the
front, one by one (`MoveSample`), and then lowers the size (`LowerSize`). When an
insertion and an erasure overlap one of them may be lost (`raced` remembers it).
`saveAudioFile` reads the size, writes sample by sample from a buffer whose samples
move and which shrinks under it, and compares the sizes again; `mixed` remembers that
it did so in the middle of an erasure. `ending` is how the file's name ends: `.WAV` is
of type wav as well, but not the name of the file that is written.

**Phase1** - the first version: the accept loop, `handleUserStatus`,
`handleClient`, the global `userList`, the clients with their own idea of being
logged in, and SIGINT with a restart between any two steps. `register` is three
steps (table, file, reply).

Every mutated form a property is tested with (`LoginCall_NoRecheck`,
`Await_KeepsFlag`, ...) stands before the definition it mutates and is used by
no action.

## 3. What is checked

Passing runs:

| run | instance | states | shows |
|---|---|---|---|
| `sessions` | 2 descriptors, 2 names, 2 passwords, 1 restart, disk may fail | 189 492 | unique names, flags and sessions agree, no inherited login, an announced account is in the file unless its own save failed, implements `Accounts` |
| `server` | 3 connections, 3 descriptors, 2 workers, `MaxClients` 2 | 35 674 | the counter is exact; descriptors and SSL objects have one holder and the map is current (`FdHeldOnce`, `SslCurrent`); sessions end with their connection; implements `Admission` |
| `server_live` | 3 connections, 2 descriptors, `MaxClients` 1 | 37 293 | every connection is answered |
| `server_live_relay` | 2 connections, `MaxClients` 2, with relays | 21 537 | the admitted are served, slots are freed |
| `thread_pool` | 3 threads, 3 jobs, at most 2 outstanding | 4 351 | no lost wake-up, no job lost by a shutdown, a job is started, shutdown returns, implements `WorkQueue` |
| `message_buffer` | 1 worker, 2 characters, an array of 4 | 974 | a worker executes what its client sent |
| `dialogue` | six sets of hazards, below | 372 286 | client and worker in step (`InStep`), no two answers merge, the login flag right - out of step too, where all that is said of it is heard -, the prompt returns |
| `file_transfer` | 2 senders and a receiver, 18 plans | 55 760 | what is in `serverFile` and in the receiver's directory is what was said and sent; file mode ends; transfers are answered |
| `audio_buffer` | 4 recordings, callbacks of up to 3 samples, 3 endings of the name | 81 951 | heard in order, the saved file is the rest, a failed `.wav` leaves nothing |
| `phase1` | 2 clients, 3 texts and 1, 1 restart | 804 406 | no inherited login, replies and menus in step, implements `Accounts` |

Runs in which TLC finds that the code does not do what its comments say (each
is a finding in `PROJECT.json`, with the quotation):

| run | what happens |
|---|---|
| `server_relay` | a message reaches whoever took over the addressee's descriptor |
| `message_buffer_shared` | a worker executes another client's command |

Conditions under which other things go wrong are visible in the properties
themselves, and their hazards say so in `PROJECT.json`:

- `AckedDurable` excepts `lost` (in `Phase1`, `failed`): an account announced
  although nothing was written.
- `EveryConnectionAnswered` is checked under `HandshakeFairness`: one client that
  never starts its handshake keeps the only accepting thread in `SSL_accept`.
- `InStep` speaks of `Orderly` behaviours: without `refuse` and `SEND` (the pieces
  of a refused file are read as commands), `race`, `long` (an echo that is read as two
  answers wakes main twice, a line that fills the array is dropped or read as two),
  `words` (a chat or a notice sets flags, or begins a file that does not end), `bare`
  and `files` (a notice that follows no EOF of its own wakes main). TLC finds it broken
  by each of these. What others may do at any time is no more than to write messages
  without such words, and whole files one after the other; and the worker's own answers
  may hold such words (`echo`), which leaves main waiting for ever but nothing out of
  step.
- `AnswersNotMerged` and `PromptReturns` are about a client that nobody writes to and
  whose user enters no empty line and no names or texts with such words or beyond a
  buffer (with `chat` or `file`, main can be left spinning on `isReceivedMsg`; an empty
  line, an answer swallowed, and a line dropped are waited for in vain).
- `LoginAgrees` holds in `Orderly` behaviours, and out of step where all that the
  server says of the login is `Heard` and nothing else says the same: without `file`,
  `files`, `words` and `echo`. With words, or with overlapping files, TLC finds the flag
  wrong; of these the models show what happens, and no property promises anything.
- `SavedAsSaid` excepts, in what it says of a saved file's contents, paths that
  two transfers got in the same second, which the run reaches and for which it
  fails; that nothing else stays in `serverFile` needs no exception. `SoleRelayKept`
  needs that one client alone passes files on, with no letters in files, texts and
  notices that mean something (`PlainRelays`), and `FileModeEnds` that no chat text and
  no notice - of a user called GEOFF, say - put the receiver into file mode.
  `KeptIsSource` holds of mixed files, as they fail their hash; it excepts pieces and
  texts that have INFO: in them and themselves state the name and the hash of what is
  kept (`Claimed`).
- `PlayedInOrder` and `SavedIsRest` are about behaviours in which no insertion
  overlapped an erasure (`~raced`). `SavedIsRest` covers erasures during the save, but
  for one that is between its first move and the lowering of the size when the sizes
  are compared (`mixed`): the file may then have both sides of it. And
  `FailedLeavesNothing` is about names that end in `.wav`: a failed mp3, or a failed
  `x.WAV`, leaves the `.wav` made from it.
- In `Phase1`, `RepliesInStep` and `MenuFitsSession` except clients that sent
  something longer than a buffer, and the second those that wrote `LOGOUT` in
  capitals or registered with `LOGIN` in the name or in the password, both of which
  the reply repeats.

### The bounds

- *Sessions*: two workers are enough for every check-then-act race, as each
  involves one other worker between two calls; two names let a worker register
  one account and log in to the other; one restart separates what was written
  before from what came after. The theorems remove all these bounds.
- *Server*: three connections on three descriptors with room for two give a
  rejection, a hand-over of a slot, and a reuse of a descriptor while another
  worker still relays to it. `server_live` has fewer descriptors and room for
  one so that the full server is the normal case; no two clients are then on
  line at once, so relays are in `server_live_relay`. Every account exists at
  the start; registering is the subject of `Sessions`.
- *ThreadPool*: more threads than outstanding jobs, as in the server (10 and
  3), any number of which may be missing, and more jobs than outstanding ones,
  so that a thread is used again.
- *MessageBuffer*: an array of 4 holds messages shorter than, as long as, and
  filling the array; two characters tell an old rest from a new message.
- *Dialogue*: six sets of hazards. Nobody but the user, with no hazard, and the user in
  `Company`: `chat`, `file`, `echo`, `empty` and `vanish`. Both with files of up to two
  pieces, so that the loop of `process_send` goes round, and three records in flight,
  for which an answer and what a peer sends compete. `MaxInFlight` stands for the
  buffers of the connection: a write waits for room, as `SSL_write` does. Then the
  user's and the senders' mishaps together (`Faults`: `race`, `refuse`, `SEND`, `long`,
  `bare`, `empty`, `vanish`, a piece of a file), long messages, words in chats, and words
  in notices with overlapping files. One record in flight (two, when it is read in
  two) is enough for these: once the dialogue is out of step anything may be in the
  channels, and one record more makes millions of states of it. The last two sets are
  there for their behaviours; of them only the bounds of the channels are claimed.
  `mode`, `relayMsg` and `message` are local to the loops of the code and keep a value in
  the model when these begin anew; as no step reads it before it is set again, states
  that differ in no more count as one (`VIEW InScope`).
- *FileTransfer*: a sender has one record in flight (more would not be told
  apart, the worker reads one at a time); files of up to `MaxPieces` 2 pieces and
  one of 3, over the limit; the clock has two seconds, so that paths are shared
  and not shared; one sender may disappear. Each plan has the files that can
  disturb each other, two senders at once or one after the other: empty, too
  large, with EOF, INFO: (with and without a name and a hash after it) or a zero byte
  in it, an audio file in a text mode, and chats and notices with such letters.
- *AudioBuffer*: recordings of up to 7 samples against callbacks of up to 3, so
  that several callbacks fall between and into the insertions and the save, with
  a frame that contains EOF; at most one change is lost.
- *Phase1*: one client that sends three texts - register, login and something
  in the session - and one that sends one, before, after, or connected while the
  first is served; LOGIN in a new name and in a password; a restart with a non-empty
  file. The theorems remove these
  bounds.

`CHECK_DEADLOCK FALSE` is set where a system may really stop: in `Server` when
the bounded connections are used up or the process has died, in `Dialogue` when
the program has ended or one of its hazards has left both ends waiting (without
any, `PromptReturns` says that it does not), in the others when everything was
sent. Symmetry is used in safety runs only.

### Fairness

Weak fairness of each thread's own steps: the operating system runs a thread
that can go on. A mutex held for a bounded critical section is part of the step,
so that no strong fairness is needed. Nothing is assumed of users and clients,
with these exceptions: `HandshakeFairness` (a client finishes its TLS handshake
or gives up; without it `EveryConnectionAnswered` fails), `ClientsLeave` (for
`ShutdownReturns` only: the join waits for them), in `Dialogue` that the user
answers a prompt, in `FileTransfer` that a client that is not killed sends what
it has begun and the receiver reads, and in `Server` that a client a message is
relayed to reads it. A client that has closed its end is noticed by the read
that waits for it (`PeerGone`).

## 4. What is proved

Assumed are only the named assumptions of the constants: reserved values are
none of the data, the first `users.txt` (`userInfo.txt`) has no name twice, as
only the program writes it, and sizes are natural numbers. In `Server` the sets
of connections and workers are finite and `MaxClients` is at most the number of
workers (`server.hpp` 17-18). In `FileTransfer` the type of a file is in its name
(`parseFileType`), so that two files of one name have one type, and no hash is to be
read in a notice. All other bounds of the runs are gone.

| module | theorems | invariant |
|---|---|---|
| `SessionsProofs` | `SessionsTypeOK`, `SessionsUniqueNames`, `SessionsAgree`, `SessionsStartFresh`, `SessionsDurable`, `SessionsImplementAccounts` | `IInv == Base /\ FileOK /\ AckOK` |
| `ServerProofs` | `ServerTypeOK`, `ServerClientCountExact`, `ServerFdHeldOnce`, `ServerSslCurrent`, `ServerSessionIsServed`, `ServerImplementsAdmission` | `IInv == Base /\ SessionIsServed /\ ClientCountExact /\ InsideExact` |
| `ThreadPoolProofs` | `PoolTypeOK`, `PoolNoLostWakeup`, `PoolNoSleepAfterShutdown`, `PoolShutdownLosesNoJob`, `PoolJobHeldOnce`, `PoolImplementsWorkQueue` | `PoolInv` |
| `MessageBufferProofs` | `SoleWorkerExecutesOwn` | `InHand` |
| `DialogueProofs` | `DialogueTypeOK`, `DialogueInStep`, `DialogueLoginAgrees`, `DialogueAnswersNotMerged` | `IInv == TypeOK /\ FromOthers /\ LoginFollows /\ (Orderly => Turn \/ Lost)` |
| `FileTransferProofs` | `FileTypeOK`, `FileSavedAsSaid`, `FileKeptIsSource`, `FileSoleRelayKept` | `IInv == Types /\ InTurn /\ DiskOK /\ NoticeOK /\ AnnouncedOK /\ SoleOK` |
| `AudioBufferProofs` | `AudioTypeOK`, `AudioPlayedInOrder`, `AudioSavedIsRest`, `AudioFailedLeavesNothing` | `IInv` |
| `Phase1Proofs` | `Phase1TypeOK`, `Phase1NoInheritedLogin`, `Phase1AckedDurable`, `Phase1RepliesInStep`, `Phase1MenuFitsSession`, `Phase1ImplementsAccounts` | `Base`, `ExchangeOK`, `OutOK`, `MenuOK` |

**Sessions** (any set of descriptors, names and passwords, any number of
restarts).

- `SessionAgreement` is not inductive: `LoginCall` overwrites the entry of its
  descriptor in `clientStatus` without looking whether there is one, and would
  leave the flag of the account that was there. `LoggedOut` says why there is
  none: a worker between `isLoggedIn` and `loginUser` has no session, and only
  the worker itself could give it one. `UniqueUsers` makes the first match of a
  scan the only one, so that the flag set and cleared is that of the account
  meant. `LineOK` carries the length check to the places after it.
- `UniqueNames` in the *file* is not inductive either, as `saveUsers` does not
  look what is in the file. `FileOK` says that a line about to be written is in
  `users` but not yet in the file and that no other worker is about to write
  one of the same name.
- `AckOK` says that a line acknowledged, or about to be, is in the file or in
  `lost`; a later successful `Save` of the same line takes it out of `lost` and
  puts it into the file in one step.
- The refinement reads the owner of an account off `clientStatus` with a
  `CHOOSE`; `SessionAgreement` makes it a function (`OwnerIs`), and each step is
  then a step of `Accounts` or leaves its variables alone.

**Server** (any connections, descriptors and workers, with relays and with
descriptors handed out again). `FdHeldOnce` says that main, the queue and the
workers never hold a descriptor twice; by itself it is not inductive. `ConnOnce`
adds that the connections of open descriptors differ, so that a closed
descriptor is nobody's; `SslOK` that the SSL object of who serves is live;
`MapOK` that the map has that object from `Store` to the erasure - and, before
`Store`, *not* another connection's: what `operator[]` and the relays insert is
only `Null`. `SessionIsServed` needs all of them, for `clientStatus` is keyed by
descriptor. `InsideExact` ties the counter to the phases of `Admission`: that a
refused connection met exactly `MaxClients` others is the counter being exact
at the moment it is read.

**ThreadPool** (any number of threads and jobs, threads missing, spurious
wake-ups). `NoLostWakeup` says that with jobs in the queue not every thread is
asleep. `Stages` ties `isRunning` to the place of the owner, `ExitedLast` says
that a thread has ended only when the queue was empty after the shutdown began.

**MessageBuffer** (one worker, any alphabet, any size). `InHand` follows the
array through its three steps: zeroed, then the message and zeroes, or - a
message that fills it - the message alone.

**Dialogue** (files of any length, channels of any capacity, every set of
hazards). For `Orderly` behaviours - in which other clients may write messages and
whole files, one at a time, and answers may be swallowed for what they repeat -
the invariant is that client and worker take turns, `Turn`, or that an answer was
`Lost` and main waits for ever. `Turn` says that there are a phase `r`, 0 to 3, at
which the receiver is in what peers pass on, and at most one answer `own` of the
worker on its way. Four ideas: `QueueOK` - the texts on their way continue one another
(`Chain`), each is the one that is asked for after the one before it, and only the
last may be one that the worker answers. `Way` - the records on their way to the
client are pieces of peers' files in their order, chat, and `own` somewhere between
them; the receiver cannot tell its own answer from the reply that ends a peer's file.
`OneAnswer` - there is at most one of a text to be answered, an answer on its way or
in hand, a signal to be given, a signal to be taken, and the signal that is still
owed: the answer that comes right after a file does not wake main, and if it was the
worker's own, then the peer's reply, which comes late, does (`Late`). `AtMain` - for
each place of main, where the worker and the answer are. An answer that is swallowed
leaves nothing owed at all.

`Lost` takes over when the worker's answer is one of `Echoed`: the receiver takes it
for a chat or for a part of a file, main is at one of its waits with nothing to wake
it, and the worker has nothing left to read, so that `InStep` and `LoginAgrees` say
nothing more. It stays so (`Quiet`): a peer's file that begins behind such an answer
is swallowed to its end, and its reply finds `isSendingFileEnd` set. A lemma per group
of steps: the worker takes a text (`TextTaken`, `Answering`, `Unanswered`,
`Swallowed`), a record is written (`WayExtended`, `PeerWrites`) or taken
(`WayShortened`), an answer moves on to main (`Onward`), main types (`Typed`, `Moved`,
`BackToTop`), all is lost (`LostReceiver`, `LostStep`).

`LoginAgrees` does not need all that where everything is `Heard`: `FromOthers` says
that then the receiver is never in file mode and that others write nothing but
chats and bare notices, and `LoginFollows` that the last `loginOK` or `logoutMsg` on
its way, else the one in the receiver's hand, else `isLoginReady` is what the server
says, whatever main does and however far the two are out of step. In `Orderly`
behaviours with files or echoes it needs `Turn` and `Lost`: `loginOK` may be swallowed,
and only that main is not woken then keeps the user from being asked with a wrong
flag. TLC finds `isLoginReady` wrong when files are combined with what brings main
back all the same, and under `words`; `LoginAgrees` excepts both. It also excepts
`file` with `SEND`: there TLC finds nothing wrong, but the worker is out of step and
`Turn` does not say where it is.

**FileTransfer** (any senders, any plans with files of any length, any size
limit, clock and losses). None of the four properties is inductive; the
invariant has four parts over the types.

- `InTurn`: where a sender and its worker are with the transfer begun last. At
  rest it is answered; `Asked`, its name is the last record on the wire; in
  `Receiving`, what was received, what is on the wire and what is left to send
  are together the file and its EOF (`InPieces`), none of the received with the
  letters in it, so that at the end `got` is `UpToEOF` of the file; in
  `Relaying`, `outbox` is the rest of that file's records (`RestOf`).
- `DiskOK`, for `SavedAsSaid`. Every path was opened by a transfer that is
  answered or goes on (`OpenedOK`): a path that is not shared is nobody else's
  to write, truncate or remove. A file being received is on the disk as far as
  its stream was emptied (`AsReceived`), a saved one whole (`SavedOK`). An audio
  file given to mode 3 removes a path it did not open, without any record in
  `opened`; it is not that of a text file because its type is in its name.
- `AnnouncedOK`, for `KeptIsSource`: an INFO on its way, and the name and hash
  the receiver holds, are those of a file some worker passes on, or stated by a piece
  or a text that was written (a notice - `NoticeOK`: one of a file that was to be passed on - states none:
  no path that passes `isValidFileName` has a `|` in it, so that what follows INFO: ends
  before a hash; this is in the assumption on `Scenarios`). Whatever pieces come between, only contents of that hash are kept. A hash stands for the
  contents it was computed from: that two files do not collide is assumed.
- `SoleOK`, for `SoleRelayKept`: there is a sequence of what the receiver will
  have after each of the records on their way (`Way`), from what it has now to
  what the worker has written of the file (`AtSource`). Each EOF on its way
  then meets a whole file with its own hash, and a file reported as passed on is
  kept or has such an EOF on its way (`Safe`).

**AudioBuffer** (any recordings, any size of a callback). `Meet`: what was
played, followed by the buffer and the insertion under way, is what was received
- with what the callback has copied and not yet erased in both, and of an erasure
under way the first `moved` samples already where they will be. `Writing` and
`SavedOK`: as long as the size is that of the beginning and no sample is on the move,
sample *i* of the file is sample *i* of the buffer; an erasure that began since either
has lowered the size, and the comparison of sizes will fail, or is `mixed`.

**Phase1** (any clients, names, texts, restarts). `Base` has the session and the
file, `ExchangeOK` that a client has at most one text or one reply on its way,
`OutOK` that of a client that is not served nothing is answered, `MenuOK` that
client and server agree on the login, up to the reply on its way.

Model-checked only: all liveness, since fairness and ENABLED are outside the
prover.

## 5. What is not modelled

- TLS set-up, certificates, menus, colours, logging, `printLoginUserList`: no
  state of the program's own.
- Audio of mode 5 in `Dialogue`, which has it as mode 3: the two read and answer
  alike.
- The client after `rejectMsg`: it goes on to use an SSL object it has freed,
  which is undefined. A connection lost in the middle of a dialogue, and a write
  of an empty line (`SSL_write` of nothing), which is taken to send nothing.
- Overlapping operations on the unlocked `std::map`s, and two workers inside one
  SSL object at the same time: undefined behaviour of which only the
  interleaving of whole operations is modelled.
- Files: an orderly TLS shutdown in the middle of a file (the model has the lost
  connection), an addressee that leaves in the middle of one, pieces after an
  early EOF that spell a command (the stray ones are dropped), and partial writes.
- Audio: an audio file that the sender cannot read, a callback on a reader that
  was destroyed by an exception, and what is played when the buffer is empty.
  The answer names the `.mp3` although the file saved is a `.wav`.
- `phase_1`: `SIGPIPE`, a stale `errno` after `accept`, and TCP joining two short
  replies. `exit` in a session is answered "Message too long." (as modelled), so
  that `logoutFirst` is never sent.

## 6. Plan

Done: every module above and its proofs. Left, in this order:

1. `Dialogue` with a lost connection at every read and write, and two clients
   composed through `Server`'s relay instead of the actions `Chat` and
   `PeerFile`.
2. `LoginAgrees` for `file` with `SEND`: `Turn` with a worker that waits for a
   mode while main asks for a command.
3. What, if anything, can be promised of a client to which two files are passed on
   at once, or to which texts with words of the protocol are written: `Dialogue` has
   the steps, but no property covers them.
