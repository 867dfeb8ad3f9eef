--------------------------- MODULE MCFileTransfer ---------------------------
(* Plans for two senders, and one receiver of what is passed on.           *)
EXTENDS FileTransfer, TLC

CONSTANTS s1, s2

Text_(name, pieces) == [name |-> name, audio |-> FALSE, pieces |-> pieces]

f     == Text_("f.txt", <<"a">>)
other == Text_("g.txt", <<"b", "c">>)
empty == Text_("e.txt", <<>>)
large == Text_("l.txt", <<"a", "b", "c">>)
marks == Text_("m.txt", <<"a", "EOF~", "b">>)
fake  == Text_("i.txt", <<"a", "INFO~">>)
claim == Text_("c.txt", <<"CLAIM~", "b">>)
zero  == Text_("z.txt", <<"NUL~">>)
song  == [name |-> "s.mp3", audio |-> TRUE, pieces |-> <<"a">>]

Noted(x, letters) == [mode |-> "4", file |-> x, notice |-> letters]

Put(x)  == [mode |-> "3", file |-> x, notice |-> "nothing"]
Pass(x) == Noted(x, "nothing")

Two(text, first, second) == [mention |-> text, plan |-> s1 :> first @@ s2 :> second]

(* "INFO~" has nothing to read in it, "CLAIM~" a name and a hash.          *)
MCClaims ==
  "INFO~" :> [name |-> NoName, hash |-> NoHash]
  @@ "CLAIM~" :> [name |-> "x.txt", hash |-> Hash(<<"b">>)]

MCSenders == {s1, s2}

MCScenarios ==
  { Two("nothing", <<Put(large), Put(f)>>, <<Put(f)>>),
    Two("nothing", <<Put(marks), Put(song)>>, <<Put(empty)>>),
    Two("nothing", <<Pass(f)>>, <<Pass(other)>>),
    Two("nothing", <<Pass(f), Pass(empty)>>, <<Put(f)>>),
    Two("nothing", <<Pass(large)>>, <<Pass(f)>>),
    Two("nothing", <<Pass(fake), Pass(f)>>, <<>>),
    Two("nothing", <<Pass(zero), Pass(marks)>>, <<>>),
    Two("nothing", <<Pass(fake)>>, <<Pass(f)>>),
    Two("nothing", <<Pass(zero)>>, <<Pass(empty)>>),
    Two("nothing", <<Pass(claim)>>, <<Pass(f)>>),
    Two("CLAIM~", <<Pass(other)>>, <<>>),
    Two("nothing", <<Put(other)>>, <<Put(other)>>) }
  \cup {Two(text, <<Pass(f), Pass(song)>>, <<>>) : text \in {"EOF", "FILE", "INFO~"}}
  \cup {Two("nothing", <<Noted(song, text), Noted(f, text), Noted(other, text)>>, <<>>) :
           text \in {"EOF", "FILE", "INFO~"}}
=============================================================================
