------------------------------ MODULE MCIrcInput ------------------------------
(* The input path with a 4-byte array and reads of an ASCII byte, a CR LF *)
(* pair and a two-byte non-ASCII character.                              *)
EXTENDS IrcInput

MCInputChunks == {<<"x">>, <<"CR", "LF">>, <<"hi", "hi">>}
=============================================================================
