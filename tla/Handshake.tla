------------------------------ MODULE Handshake ------------------------------
(***************************************************************************)
(* The registration state machine of spec 4.6, one per connection, with   *)
(* every command a single atomic step.  hs[c] is the connection's state,  *)
(* the nick it is pending with or registered under, and whether a USER   *)
(* has been received.  The username and real name are left out, so USER  *)
(* on a ProtoUser that is waiting for its nick ("USER updates pending")  *)
(* changes nothing here.  A command the state machine rejects (a taken  *)
(* nick, USER when registered) is a step that changes nothing.          *)
(***************************************************************************)
CONSTANTS Client, Nick, NoName

VARIABLE hs

Conn(st, n, u) == [st |-> st, nick |-> n, user |-> u]

Init == hs = [c \in Client |-> Conn("Unregistered", NoName, FALSE)]

Becomes(c, st, n, u) == hs' = [hs EXCEPT ![c] = Conn(st, n, u)]

\* Unregistered --NICK n--> ProtoUser{n,_,_}
NickFirst(c, n) == hs[c].st = "Unregistered" /\ Becomes(c, "ProtoUser", n, FALSE)

\* Unregistered --USER u,r--> ProtoUser{_,u,r}
UserFirst(c) == hs[c].st = "Unregistered" /\ Becomes(c, "ProtoUser", NoName, TRUE)

\* ProtoUser{n,_,_} --USER u,r--> User(register(n,u,r))
UserCompletes(c) ==
  /\ hs[c].st = "ProtoUser" /\ hs[c].nick # NoName
  /\ Becomes(c, "User", hs[c].nick, TRUE)

\* ProtoUser{_,u,r} --NICK n--> User(register(n,u,r))
NickCompletes(c, n) ==
  /\ hs[c].st = "ProtoUser" /\ hs[c].nick = NoName /\ hs[c].user
  /\ Becomes(c, "User", n, TRUE)

\* ProtoUser{n,u,r} --NICK n'--> ProtoUser{n',u,r}
NickReplaces(c, n) ==
  /\ hs[c].st = "ProtoUser" /\ hs[c].nick # NoName
  /\ Becomes(c, "ProtoUser", n, hs[c].user)

\* User(_) --NICK n--> User(_) with nick = n
Rename(c, n) == hs[c].st = "User" /\ Becomes(c, "User", n, TRUE)

\* any --disconnect--> Dead
Disconnect(c) == hs[c].st # "Dead" /\ Becomes(c, "Dead", NoName, FALSE)

Next ==
  \E c \in Client :
    \/ UserFirst(c) \/ UserCompletes(c) \/ Disconnect(c)
    \/ \E n \in Nick : NickFirst(c, n) \/ NickCompletes(c, n)
                       \/ NickReplaces(c, n) \/ Rename(c, n)

Spec == Init /\ [][Next]_hs

=============================================================================
