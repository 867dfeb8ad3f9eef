--------------------------- MODULE MCAudioBuffer ---------------------------
EXTENDS AudioBuffer

(* Whole and half frames, a frame that contains the letters EOF, and an    *)
(* empty file.                                                             *)
MCRecordings ==
  { <<>>,
    <<Frame(<<1, 2>>, FALSE), Frame(<<3, 4>>, FALSE), Frame(<<5>>, FALSE)>>,
    <<Frame(<<1, 2>>, FALSE), Frame(<<3>>, TRUE), Frame(<<4>>, FALSE)>>,
    <<Frame(<<1, 2>>, FALSE), Frame(<<3, 4>>, FALSE), Frame(<<5, 6>>, FALSE), Frame(<<7>>, FALSE)>> }
=============================================================================
