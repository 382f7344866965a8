--------------------------- MODULE MCMessageBuffer ---------------------------
(* MessageBuffer with a 4-char array: reads of one or two bytes, a CR LF  *)
(* pair, a lone CR or LF (a CR LF split across reads), and a two-byte     *)
(* non-ASCII character.                                                   *)
EXTENDS MessageBuffer

MCChunks == {<<"x">>, <<"x", "x">>, <<"CR", "LF">>, <<"CR">>, <<"LF">>, <<"hi", "hi">>}
=============================================================================
