----------------------------- MODULE MCNameReply -----------------------------
EXTENDS NameReply

\* n nicks of 9 bytes (the longest valid_nick accepts).
Nicks9(n) == [k \in 1..n |-> 9]

\* The line is 8 + host + chan bytes plus the list; n 9-byte nicks add
\* 10n - 1.  With host and channel lengths from 1..9 the lists of 48 to
\* 50 nicks fall on both sides of 510, and some land on 511 and 512.
MCReplies == {<<5, 9>>, Nicks9(48), Nicks9(49), Nicks9(50), <<1>> \o Nicks9(49)}
=============================================================================
