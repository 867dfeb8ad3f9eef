------------------------------ MODULE MCPhase1 ------------------------------
EXTENDS Phase1, TLC

CONSTANTS c1, c2, ann, bob, login, pw, other

(* The account that comes with the program.                                *)
MCInitialFile == << <<ann, pw>> >>

MCMaxTexts == c1 :> 3 @@ c2 :> 1

(* Any text, with the right and the wrong password, for an account that is *)
(* there and for one that is not; with LOGIN in a new name (login), and in *)
(* the password (other) of a new account.                                  *)
MCTexts ==
  { [cmd |-> "login", name |-> ann, pwd |-> pw],
    [cmd |-> "login", name |-> ann, pwd |-> other],
    [cmd |-> "login", name |-> login, pwd |-> pw],
    [cmd |-> "register", name |-> ann, pwd |-> other],
    [cmd |-> "register", name |-> login, pwd |-> pw],
    [cmd |-> "register", name |-> bob, pwd |-> other] }
  \cup {Plain(w) : w \in Words \ {"send", "send ", "other"}}
=============================================================================
