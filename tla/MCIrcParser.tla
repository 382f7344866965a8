----------------------------- MODULE MCIrcParser -----------------------------
(* Every frame of up to MaxLen characters built from one letter, the      *)
(* space and colon of the parameter syntax, and the '@', '!' and '.' of    *)
(* prefixes.                                                               *)
EXTENDS IrcParser

\* Two parameters instead of 15: the code's limits are all written in
\* terms of MAX_MSG_PARAMS, and frames of 7 characters then reach every
\* branch: a middle part that fits, one with MAX_MSG_PARAMS pieces, a
\* lone trailing, and nick, nick@host, nick!user@host and server prefixes.
MCAlphabet == {"x", SP, ":", "@", "!", "."}
MCLetter == {"x"}
=============================================================================
