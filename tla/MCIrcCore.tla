------------------------------ MODULE MCIrcCore ------------------------------
(* Model-checking instance of IrcCore: a few connections, nicks and one or *)
(* two channel names as model values.                                     *)
EXTENDS IrcCore

CONSTANTS c1, c2, c3, n1, n2, ch1, ch2

MCClient2 == {c1, c2}
MCClient3 == {c1, c2, c3}
MCNick1   == {n1}
MCNick2   == {n1, n2}
MCChan1   == {ch1}

ClientSymmetry == Permutations(MCClient3)

\* No guard and no other variable depends on Channel.topic, so states that
\* differ only in it have the same futures; a run whose properties do not
\* mention topic may identify them.
TopicFreeView == <<ctype, proto, unick, ustate, uchans, ns, cname, members,
                   pc, arg, obj, tgt, snap>>

=============================================================================
