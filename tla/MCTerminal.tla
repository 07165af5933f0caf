----------------------------- MODULE MCTerminal -----------------------------
(* A plain key and a cursor key, which sends three characters: with three     *)
(* places the buffer fills up in the middle of a key.                         *)
EXTENDS Terminal

MCKeys == {<<"a">>, <<"b", "a", "b">>}
=============================================================================
