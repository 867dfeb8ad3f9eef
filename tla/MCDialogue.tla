----------------------------- MODULE MCDialogue -----------------------------
EXTENDS Dialogue

(* The client alone with its worker, and a user who types what is asked.   *)
Alone == {}

(* Other clients write to this one whenever they like; the user presses    *)
(* Enter on an empty line, a file disappears, and answers are swallowed    *)
(* for the names and texts they repeat.                                    *)
Company == {"chat", "file", "echo", "empty", "vanish"}

(* Everything goes wrong with the user's own doings, main runs ahead of    *)
(* the receiver, and files fail at their senders.                          *)
Faults == {"race", "refuse", "SEND", "long", "bare", "empty", "vanish"}

(* Lines, answers and messages that no buffer holds.                       *)
Lengthy == {"long", "chat"}

(* Chats, or files' notices, with words that the receiver looks for.       *)
Chatter    == {"words", "chat"}
Misleading == {"words", "files"}

InOrder == {Alone, Company}

MCScenarios   == InOrder \cup {Faults, Lengthy, Chatter, Misleading}
MCMaxChunks   == [h \in MCScenarios |-> IF h \in InOrder THEN 2 ELSE IF h = Faults THEN 1 ELSE 0]
MCMaxInFlight == [h \in MCScenarios |-> IF h \in InOrder THEN 3 ELSE 1]

(* A state as it is told apart: without what local variables of the loops  *)
(* of worker, main and receiver hold where these are out of scope.         *)
InScope ==
  LET Held(value, scope) == IF scope THEN value ELSE "none"
  IN  <<toServer, toClient, place, loggedIn, main, chunks, recv, flags, peerFile, otherFile, hazards,
        Held(mode, place \in {"message", "file"}),
        Held(relayMsg, main \in {"awaitRequest", "askMessage", "sendFile"}),
        Held(message, recv # "read")>>
=============================================================================
