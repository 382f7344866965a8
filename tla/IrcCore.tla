------------------------------- MODULE IrcCore -------------------------------
(***************************************************************************)
(* The IRC daemon core of src/irc.rs: the namespace registry (Core), the   *)
(* User and Channel entities and the command dispatcher, run by one task   *)
(* per connection.  Tasks of different connections run in parallel, so     *)
(* every handler is split into one step per lock it takes (the namespace   *)
(* mutex, a channel's member map, a user's channel list); the steps of     *)
(* different tasks interleave freely.                                      *)
(*                                                                         *)
(* Data are abstracted: a nick or a channel name is a model value, a       *)
(* message body, a username, a real name and a topic are left out (the     *)
(* handlers never branch on them), USER always carries its 4 parameters,  *)
(* and every name given to NICK and JOIN is valid.  A User object is named *)
(* by the connection that registered it (User.id is the client id).       *)
(***************************************************************************)
EXTENDS Naturals, FiniteSets, Functions, TLC

CONSTANTS
  Client,     \* the connections (model values)
  Nick,       \* the nicks the clients use
  Chan,       \* the channel names the clients use
  MaxChanObj, \* bound on the Channel objects ever allocated (Channel::new)
  NoName      \* "no nick" in a ProtoUser, "no name" in a local

ASSUME NoName \notin Nick \cup Chan
ASSUME Nick \cap Chan = {}
ASSUME MaxChanObj \in Nat \ {0}

Name  == Nick \cup Chan
ObjId == 1..MaxChanObj        \* identity of a Channel object (an Arc)

VARIABLES
  ctype,    \* ClientType of each connection
  proto,    \* the ProtoUser record of a connection in the handshake
  unick,    \* User.nick of the User object of each connection
  ustate,   \* lifecycle of that User object: "none", "live", "dropping", "gone"
  uchans,   \* User.channel_list: channel name -> Channel object (0 = absent)
  ns,       \* Core.namespace: a partial function Name -> NamedEntity
  cname,    \* Channel.name of each allocated Channel object
  members,  \* Channel members: object -> client -> "out" | "none" | "op"
  pc,       \* where each task is in the handler it runs
  arg,      \* the name the running handler works on
  obj,      \* the Channel Arc the running handler holds (0 = none)
  tgt,      \* the User the running handler works on (PRIVMSG target, Drop)
  snap,     \* the channel Arcs cloned by search_user_chans_purge
  topic     \* Channel.topic of each object: "" until a TOPIC sets it

vars == <<ctype, proto, unick, ustate, uchans, ns, cname, members,
          pc, arg, obj, tgt, snap, topic>>

ChanFlag == {"none", "op"}    \* ChanFlags::None, ChanFlags::Op

\* NamedEntity::User(Weak<User>) and NamedEntity::Chan(Arc<Channel>)
UserE(u) == [kind |-> "user", ref |-> u]
ChanE(k) == [kind |-> "chan", ref |-> k]
Entity   == {UserE(u) : u \in Client} \cup {ChanE(k) : k \in ObjId}

-----------------------------------------------------------------------------
(* Core: the namespace map under its mutex (irc.rs 384-440).               *)

\* insert_name: create-if-absent; the caller checks presence first
insert_name(n, e) == ns @@ (n :> e)
\* remove_name: removes whatever entity the name maps to
remove_name(n) == Restrict(ns, DOMAIN ns \ {n})

NsChans == {ns[n].ref : n \in {m \in DOMAIN ns : ns[m].kind = "chan"}}

\* get_name, get_nick, get_chan: a snapshot lookup (an Option, as a set).
get_name(n)  == IF n \in DOMAIN ns THEN {ns[n]} ELSE {}
get_nick(n)  == {e.ref : e \in {x \in get_name(n) : x.kind = "user"}}
get_chan(ch) == {e.ref : e \in {x \in get_name(ch) : x.kind = "chan"}}

(* Channel (chan.rs): members are keyed by the user id with a nick index,  *)
(* so get_user_key(nick) finds a member whose nick is nick.                *)
Members(k)       == {v \in Client : members[k][v] # "out"}
UserKeys(k, n)   == {v \in Members(k) : unick[v] = n}
is_joined(k, n)  == UserKeys(k, n) # {}
rm_key(k, v)     == [members EXCEPT ![k][v] = "out"]

(* User::add_channel, User::rm_channel: the user's channel_list keyed by  *)
(* the channel name; 0 stands for an absent entry.                         *)
add_channel(u, ch, k) == [uchans EXCEPT ![u][ch] = k]
rm_channel(u, ch)     == [uchans EXCEPT ![u][ch] = 0]

\* The tasks that hold a strong reference (an upgraded Arc) to User u
\* besides its own Client.
HoldPc == {"msg_send", "clear", "clear_empty", "clear_rm"}
Holders(u) == {s \in Client : pc[s] \in HoldPc /\ tgt[s] = u}

\* A Channel object is alive while the namespace or some task holds an Arc.
ChanAlive(k) ==
  \/ k \in NsChans
  \/ \E t \in Client : obj[t] = k \/ k \in snap[t]

Transition(t, from, to) ==
  /\ pc[t] = from
  /\ pc' = [pc EXCEPT ![t] = to]

\* The handler of task t returns; its locals are released.
Return(t, from) ==
  /\ Transition(t, from, "idle")
  /\ arg' = [arg EXCEPT ![t] = NoName]
  /\ obj' = [obj EXCEPT ![t] = 0]
  /\ tgt' = [tgt EXCEPT ![t] = t]

-----------------------------------------------------------------------------
(* Registration handshake: nick() and user() (irc.rs 735-853).            *)

\* Mutant: the test at 830 is dropped, a ProtoUser always registers.
Nick_noreplace(c, n) ==
  /\ pc[c] = "idle"
  /\ ctype[c] \in {"Unregistered", "ProtoUser", "User"}
  /\ n \notin DOMAIN ns
  /\ \/ /\ ctype[c] = "Unregistered"
        /\ ctype' = [ctype EXCEPT ![c] = "ProtoUser"]
        /\ proto' = [proto EXCEPT ![c] = [nick |-> n, user |-> FALSE]]
        /\ UNCHANGED <<pc, arg>>
     \/ /\ ctype[c] = "User"
        /\ pc' = [pc EXCEPT ![c] = "nick_change"]
        /\ arg' = [arg EXCEPT ![c] = n]
        /\ UNCHANGED <<ctype, proto>>
     \/ /\ ctype[c] = "ProtoUser"
        /\ pc' = [pc EXCEPT ![c] = "register"]
        /\ arg' = [arg EXCEPT ![c] = n]
        /\ UNCHANGED <<ctype, proto>>
  /\ UNCHANGED <<unick, ustate, uchans, ns, cname, members, obj, tgt, snap, topic>>

\* NICK n: the namespace lookup at 803 and the ClientType match at 810-847.
\* NICK with a taken name returns NicknameInUse and changes nothing.
Nick_(c, n) ==
  /\ pc[c] = "idle"
  /\ ctype[c] \in {"Unregistered", "ProtoUser", "User"}
  /\ n \notin DOMAIN ns
  /\ \/ /\ ctype[c] = "Unregistered"
        /\ ctype' = [ctype EXCEPT ![c] = "ProtoUser"]
        /\ proto' = [proto EXCEPT ![c] = [nick |-> n, user |-> FALSE]]
        /\ UNCHANGED <<pc, arg>>
     \/ /\ ctype[c] = "User"                       \* user_ref.change_nick
        /\ pc' = [pc EXCEPT ![c] = "nick_change"]
        /\ arg' = [arg EXCEPT ![c] = n]
        /\ UNCHANGED <<ctype, proto>>
     \/ /\ ctype[c] = "ProtoUser" /\ proto[c].nick # NoName
        /\ proto' = [proto EXCEPT ![c].nick = n]
        /\ UNCHANGED <<ctype, pc, arg>>
     \/ /\ ctype[c] = "ProtoUser" /\ proto[c].nick = NoName
        /\ pc' = [pc EXCEPT ![c] = "register"]     \* irc.register(nick, ...)
        /\ arg' = [arg EXCEPT ![c] = n]
        /\ UNCHANGED <<ctype, proto>>
  /\ UNCHANGED <<unick, ustate, uchans, ns, cname, members, obj, tgt, snap, topic>>

\* USER u 0 * :r (a registered client gets AlreadyRegistred, no change).
\* A ProtoUser without a nick locks proto_user_ref at 776 while the guard
\* taken at 763 is still held: std's Mutex never returns, the task hangs.
User_(c) ==
  /\ pc[c] = "idle"
  /\ \/ /\ ctype[c] = "Unregistered"
        /\ ctype' = [ctype EXCEPT ![c] = "ProtoUser"]
        /\ proto' = [proto EXCEPT ![c] = [nick |-> NoName, user |-> TRUE]]
        /\ UNCHANGED <<pc, arg>>
     \/ /\ ctype[c] = "ProtoUser" /\ proto[c].nick # NoName
        /\ pc' = [pc EXCEPT ![c] = "register"]
        /\ arg' = [arg EXCEPT ![c] = proto[c].nick]
        /\ UNCHANGED <<ctype, proto>>
     \/ /\ ctype[c] = "ProtoUser" /\ proto[c].nick = NoName
        /\ pc' = [pc EXCEPT ![c] = "hung"]
        /\ UNCHANGED <<ctype, proto, arg>>
  /\ UNCHANGED <<unick, ustate, uchans, ns, cname, members, obj, tgt, snap, topic>>

\* Core::register (532-558): User::new, then insert_name.  On success the
\* caller sets ClientType::User; on NicknameInUse the new User is dropped,
\* and its Drop (86-100) removes the nick from the namespace.
Register(c) ==
  LET n == arg[c] IN
  /\ pc[c] = "register"
  /\ IF n \notin DOMAIN ns
     THEN /\ ns' = insert_name(n, UserE(c))
          /\ ctype' = [ctype EXCEPT ![c] = "User"]
          /\ unick' = [unick EXCEPT ![c] = n]
          /\ ustate' = [ustate EXCEPT ![c] = "live"]
          /\ Return(c, "register")
     ELSE /\ pc' = [pc EXCEPT ![c] = "reg_drop"]
          /\ UNCHANGED <<ns, ctype, unick, ustate, arg, obj, tgt>>
  /\ UNCHANGED <<proto, uchans, cname, members, snap, topic>>

\* Drop of the User that failed to register: its channel list is empty, so
\* only self.irc.remove_name(&self.get_nick()) at 99 does anything.
RegDrop(c) ==
  /\ pc[c] = "reg_drop"
  /\ ns' = remove_name(arg[c])
  /\ Return(c, "reg_drop")
  /\ UNCHANGED <<ctype, proto, unick, ustate, uchans, cname, members, snap, topic>>

\* Core::try_nick_change (503-530), atomic under the namespace lock and the
\* user's channel-list lock: the entity under the old nick moves to the new
\* one, User.nick changes, and channel-list entries whose Channel is gone
\* are deleted (update_nick re-indexes the live ones).  If the old nick is no
\* longer in the namespace the call does nothing and still returns Ok.
NickChange(c) ==
  LET n   == arg[c]
      old == unick[c]
  IN
  /\ pc[c] = "nick_change"
  /\ IF n \notin DOMAIN ns /\ old \in DOMAIN ns
     THEN /\ ns' = remove_name(old) @@ (n :> ns[old])
          /\ unick' = [unick EXCEPT ![c] = n]
          /\ uchans' = [uchans EXCEPT ![c] =
                          [ch \in Chan |-> IF ChanAlive(@[ch]) THEN @[ch] ELSE 0]]
     ELSE UNCHANGED <<ns, unick, uchans>>
  /\ Return(c, "nick_change")
  /\ UNCHANGED <<ctype, proto, ustate, cname, members, snap, topic>>

-----------------------------------------------------------------------------
(* Teardown of a User whose Client is gone.  Drop for User (86-100) and    *)
(* User::clear_chans_and_exit (165-184, called by fetch_client at 193-203) *)
(* run the same loop over the drained channel list: upgrade the Channel,   *)
(* find the member by nick and remove it, and if the channel is now empty  *)
(* remove the channel's NAME from the namespace.  Each of the three is a   *)
(* separate lock, so a step each.  Task t tears down User tgt[t].          *)

\* Drain one entry of the channel list, or run Done when it is empty.
UnlinkPick(t, at, emptyPc, Done) ==
  LET u == tgt[t] IN
  /\ pc[t] = at
  /\ IF \E ch \in Chan : uchans[u][ch] # 0
     THEN \E ch \in {x \in Chan : uchans[u][x] # 0} :
            LET k == uchans[u][ch] IN
            /\ uchans' = [uchans EXCEPT ![u][ch] = 0]
            /\ IF ChanAlive(k) /\ is_joined(k, unick[u])
               THEN \E v \in UserKeys(k, unick[u]) :
                      /\ members' = rm_key(k, v)
                      /\ pc' = [pc EXCEPT ![t] = emptyPc]
                      /\ arg' = [arg EXCEPT ![t] = ch]
                      /\ obj' = [obj EXCEPT ![t] = k]
               ELSE UNCHANGED <<members, pc, arg, obj>>
            /\ UNCHANGED <<ctype, ustate, tgt>>
     ELSE /\ Done
          /\ UNCHANGED <<uchans, members>>
  /\ UNCHANGED <<proto, unick, ns, cname, snap, topic>>

\* chan.is_empty() after the member was removed.
UnlinkEmpty(t, at, rmPc, loopPc) ==
  /\ pc[t] = at
  /\ IF Members(obj[t]) = {}
     THEN UNCHANGED <<obj, arg>> /\ pc' = [pc EXCEPT ![t] = rmPc]
     ELSE /\ pc' = [pc EXCEPT ![t] = loopPc]
          /\ obj' = [obj EXCEPT ![t] = 0]
          /\ arg' = [arg EXCEPT ![t] = NoName]
  /\ UNCHANGED <<ctype, proto, unick, ustate, uchans, ns, cname, members, tgt, snap, topic>>

\* self.irc.remove_name(chan_name).
UnlinkRm(t, at, loopPc) ==
  /\ pc[t] = at
  /\ ns' = remove_name(arg[t])
  /\ pc' = [pc EXCEPT ![t] = loopPc]
  /\ obj' = [obj EXCEPT ![t] = 0]
  /\ arg' = [arg EXCEPT ![t] = NoName]
  /\ UNCHANGED <<ctype, proto, unick, ustate, uchans, cname, members, tgt, snap, topic>>

\* The last strong reference to u goes: Drop runs (in the releasing task;
\* it is modelled as u's own task, whose connection is already closed).
StartDrop(u) == ustate' = [ustate EXCEPT ![u] = "dropping"]

\* The connection closes between two commands: the Client and with it the
\* ClientType::User strong reference are dropped.
Disconnect(c) ==
  /\ pc[c] = "idle"
  /\ ctype[c] \in {"Unregistered", "ProtoUser", "User"}
  /\ ctype' = [ctype EXCEPT ![c] = "Dead"]
  /\ IF ctype[c] = "User" /\ Holders(c) = {}
     THEN StartDrop(c) /\ pc' = [pc EXCEPT ![c] = "drop"]
     ELSE UNCHANGED <<ustate, pc>>
  /\ UNCHANGED <<proto, unick, uchans, ns, cname, members, arg, obj, tgt, snap, topic>>

DropPick(u)  == UnlinkPick(u, "drop", "drop_empty",
                  pc' = [pc EXCEPT ![u] = "drop_nick"] /\ UNCHANGED <<arg, obj, ctype, ustate, tgt>>)
DropEmpty(u) == UnlinkEmpty(u, "drop_empty", "drop_rm", "drop")
DropRm(u)    == UnlinkRm(u, "drop_rm", "drop")

\* Drop, line 99: self.irc.remove_name(&self.get_nick()).
DropNick(u) ==
  /\ pc[u] = "drop_nick"
  /\ ns' = remove_name(unick[u])
  /\ ustate' = [ustate EXCEPT ![u] = "gone"]
  /\ Return(u, "drop_nick")
  /\ UNCHANGED <<ctype, proto, unick, uchans, cname, members, snap, topic>>

-----------------------------------------------------------------------------
(* PRIVMSG / NOTICE to a nick: msg() (681-733) with one target.  The body  *)
(* is not modelled; only the steps that can change the registry are.       *)

\* irc.get_name(target) at 707 finds NamedEntity::User(weak).
MsgStart(s, n) ==
  /\ pc[s] = "idle"
  /\ ctype[s] = "User"
  /\ \E u \in get_nick(n) :
       /\ pc' = [pc EXCEPT ![s] = "msg_upgrade"]
       /\ arg' = [arg EXCEPT ![s] = n]
       /\ tgt' = [tgt EXCEPT ![s] = u]
  /\ UNCHANGED <<ctype, proto, unick, ustate, uchans, ns, cname, members, obj, snap, topic>>

\* User::upgrade (335-341): fails once the last strong reference is gone,
\* and msg() then calls User::cleanup(irc, nick) at 712.
MsgUpgrade(s) ==
  /\ pc[s] = "msg_upgrade"
  /\ pc' = [pc EXCEPT ![s] = IF ustate[tgt[s]] = "live" THEN "msg_send"
                                                       ELSE "cleanup_name"]
  /\ UNCHANGED <<ctype, proto, unick, ustate, uchans, ns, cname, members,
                 arg, obj, tgt, snap, topic>>

\* send_msg -> fetch_client (193-203): a live Client gets the line; a dead
\* one makes the sender run clear_chans_and_exit on the target.
MsgSend(s) ==
  /\ pc[s] = "msg_send"
  /\ IF ctype[tgt[s]] # "Dead"
     THEN Return(s, "msg_send")
     ELSE Transition(s, "msg_send", "clear") /\ UNCHANGED <<arg, obj, tgt>>
  /\ UNCHANGED <<ctype, proto, unick, ustate, uchans, ns, cname, members, snap, topic>>

\* Mutant: the last-reference test does not count the releasing task.
Release_lastref(s) ==
  LET u == tgt[s] IN
  /\ arg' = [arg EXCEPT ![s] = NoName]
  /\ obj' = [obj EXCEPT ![s] = 0]
  /\ tgt' = [tgt EXCEPT ![s] = s]
  /\ UNCHANGED ctype
  /\ IF ustate[u] = "live" /\ ctype[u] = "Dead" /\ Holders(u) = {}
     THEN StartDrop(u) /\ pc' = [pc EXCEPT ![s] = "idle", ![u] = "drop"]
     ELSE UNCHANGED ustate /\ pc' = [pc EXCEPT ![s] = "idle"]

\* The sender drops its upgraded Arc of u at the end of msg(); if that was
\* the last strong reference, Drop for User runs.
Release(s) ==
  LET u == tgt[s] IN
  /\ arg' = [arg EXCEPT ![s] = NoName]
  /\ obj' = [obj EXCEPT ![s] = 0]
  /\ tgt' = [tgt EXCEPT ![s] = s]
  /\ UNCHANGED ctype
  /\ IF ustate[u] = "live" /\ ctype[u] = "Dead" /\ Holders(u) = {s}
     THEN StartDrop(u) /\ pc' = [pc EXCEPT ![s] = "idle", ![u] = "drop"]
     ELSE UNCHANGED ustate /\ pc' = [pc EXCEPT ![s] = "idle"]

ClearPick(s)  == UnlinkPick(s, "clear", "clear_empty", Release(s))
ClearEmpty(s) == UnlinkEmpty(s, "clear_empty", "clear_rm", "clear")
ClearRm(s)    == UnlinkRm(s, "clear_rm", "clear")

\* User::cleanup (158-163): remove_name(nick) ...
CleanupName(s) ==
  /\ pc[s] = "cleanup_name"
  /\ ns' = remove_name(arg[s])
  /\ pc' = [pc EXCEPT ![s] = "purge_snap"]
  /\ UNCHANGED <<ctype, proto, unick, ustate, uchans, cname, members,
                 arg, obj, tgt, snap, topic>>

\* ... then search_user_chans_purge(nick) (560-590): clone every channel
\* Arc of the namespace under its lock ...
PurgeSnap(s) ==
  /\ pc[s] = "purge_snap"
  /\ snap' = [snap EXCEPT ![s] = NsChans]
  /\ pc' = [pc EXCEPT ![s] = "purge"]
  /\ UNCHANGED <<ctype, proto, unick, ustate, uchans, ns, cname, members,
                 arg, obj, tgt, topic>>

\* ... and for each: remove its name if it is empty, then remove the member
\* keyed by nick (the emptiness test comes first, 570-577).
PurgeOne(s) ==
  /\ pc[s] = "purge"
  /\ IF snap[s] # {}
     THEN \E k \in snap[s] :
            /\ ns' = IF Members(k) = {} THEN remove_name(cname[k]) ELSE ns
            /\ IF is_joined(k, arg[s])
               THEN \E v \in UserKeys(k, arg[s]) : members' = rm_key(k, v)
               ELSE UNCHANGED members
            /\ snap' = [snap EXCEPT ![s] = @ \ {k}]
            /\ UNCHANGED <<pc, arg, obj, tgt>>
     ELSE /\ Return(s, "purge")
          /\ UNCHANGED <<ns, members, snap>>
  /\ UNCHANGED <<ctype, proto, unick, ustate, uchans, cname, topic>>

-----------------------------------------------------------------------------
(* JOIN: join() (641-658) with one target, Core::join_chan (467-500).      *)

FreeObj == {k \in ObjId : cname[k] = NoName}

\* get_chan(chanmask) at 472; if absent, Channel::new at 482.
JoinStart(c, ch) ==
  /\ pc[c] = "idle"
  /\ ctype[c] = "User"
  /\ IF get_chan(ch) # {}
     THEN /\ pc' = [pc EXCEPT ![c] = "join_add"]
          /\ \E k \in get_chan(ch) : obj' = [obj EXCEPT ![c] = k]
          /\ UNCHANGED cname
     ELSE LET k == CHOOSE x \in FreeObj : \A y \in FreeObj : x <= y IN
          /\ FreeObj # {}
          /\ cname' = [cname EXCEPT ![k] = ch]
          /\ pc' = [pc EXCEPT ![c] = "join_insert"]
          /\ obj' = [obj EXCEPT ![c] = k]
  /\ arg' = [arg EXCEPT ![c] = ch]
  /\ UNCHANGED <<ctype, proto, unick, ustate, uchans, ns, members, tgt, snap, topic>>

\* 475-479: already joined -> Ok(None); else add_user(user, ChanFlags::None).
JoinAdd(c) ==
  LET k == obj[c] IN
  /\ pc[c] = "join_add"
  /\ IF is_joined(k, unick[c])
     THEN Return(c, "join_add") /\ UNCHANGED members
     ELSE /\ Transition(c, "join_add", "join_link")
          /\ members' = [members EXCEPT ![k][c] = "none"]
          /\ UNCHANGED <<arg, obj, tgt>>
  /\ UNCHANGED <<ctype, proto, unick, ustate, uchans, ns, cname, snap, topic>>

\* 483: insert_name(chanmask, Chan); NicknameInUse if the name was taken
\* since get_chan (the new Channel is dropped, join() reports the error).
JoinInsert(c) ==
  LET ch == arg[c] IN
  /\ pc[c] = "join_insert"
  /\ IF ch \notin DOMAIN ns
     THEN /\ ns' = insert_name(ch, ChanE(obj[c]))
          /\ Transition(c, "join_insert", "join_op")
          /\ UNCHANGED <<arg, obj, tgt>>
     ELSE Return(c, "join_insert") /\ UNCHANGED ns
  /\ UNCHANGED <<ctype, proto, unick, ustate, uchans, cname, members, snap, topic>>

\* 484: the creator is added with ChanFlags::Op.
JoinOp(c) ==
  /\ Transition(c, "join_op", "join_link")
  /\ members' = [members EXCEPT ![obj[c]][c] = "op"]
  /\ UNCHANGED <<ctype, proto, unick, ustate, uchans, ns, cname, arg, obj, tgt, snap, topic>>

\* Mutant: the channel list records the channel name, not the Channel.
JoinLink_name(c) ==
  /\ pc[c] = "join_link"
  /\ uchans' = add_channel(c, arg[c], cname[obj[c]])
  /\ Return(c, "join_link")
  /\ UNCHANGED <<ctype, proto, unick, ustate, ns, cname, members, snap, topic>>

\* 488-499: user.add_channel(chanmask, weak), then the TOPIC, NAMES and
\* EndofNames replies to the joining user's own (live) client.
JoinLink(c) ==
  /\ pc[c] = "join_link"
  /\ uchans' = add_channel(c, arg[c], obj[c])
  /\ Return(c, "join_link")
  /\ UNCHANGED <<ctype, proto, unick, ustate, ns, cname, members, snap, topic>>

-----------------------------------------------------------------------------
(* PART: part() (660-679) with one target, Core::part_chan (442-465).      *)
(* PART of an unknown channel only returns NoSuchChannel.                  *)

PartStart(c, ch) ==
  /\ pc[c] = "idle"
  /\ ctype[c] = "User"
  /\ \E k \in get_chan(ch) : obj' = [obj EXCEPT ![c] = k]
  /\ pc' = [pc EXCEPT ![c] = "part_rm"]
  /\ arg' = [arg EXCEPT ![c] = ch]
  /\ UNCHANGED <<ctype, proto, unick, ustate, uchans, ns, cname, members, tgt, snap, topic>>

\* 449-455: not joined -> NotOnChannel; else rm_channel, then the member
\* found by nick is removed.
PartRm(c) ==
  LET k == obj[c] IN
  /\ pc[c] = "part_rm"
  /\ IF is_joined(k, unick[c])
     THEN /\ uchans' = rm_channel(c, arg[c])
          /\ \E v \in UserKeys(k, unick[c]) : members' = rm_key(k, v)
          /\ Transition(c, "part_rm", "part_empty")
          /\ UNCHANGED <<arg, obj, tgt>>
     ELSE Return(c, "part_rm") /\ UNCHANGED <<uchans, members>>
  /\ UNCHANGED <<ctype, proto, unick, ustate, ns, cname, snap, topic>>

\* 456-459: if chan.is_empty() remove its name, else notify_part.
PartEmpty(c) ==
  /\ pc[c] = "part_empty"
  /\ IF Members(obj[c]) = {}
     THEN Transition(c, "part_empty", "part_remove") /\ UNCHANGED <<arg, obj, tgt>>
     ELSE Return(c, "part_empty")
  /\ UNCHANGED <<ctype, proto, unick, ustate, uchans, ns, cname, members, snap, topic>>

\* 457: self.remove_name(chanmask)? (NoSuchNick if already gone).
PartRemove(c) ==
  /\ pc[c] = "part_remove"
  /\ ns' = remove_name(arg[c])
  /\ Return(c, "part_remove")
  /\ UNCHANGED <<ctype, proto, unick, ustate, uchans, cname, members, snap, topic>>

-----------------------------------------------------------------------------
(* TOPIC: topic() (615-640) with a new topic.  A query (one parameter)     *)
(* only reads get_topic and replies, and NeedMoreParams, NoSuchChannel,   *)
(* NotOnChannel and ChanOPrivsNeeded only reply: none changes state.      *)

\* Channel::is_op(user) (chan.rs, from spec 4.5: the flag of the member
\* keyed by the user's id).
is_op(k, u) == members[k][u] = "op"

\* irc.get_chan(&chanmask) at 621.
TopicStart(c, ch) ==
  /\ pc[c] = "idle"
  /\ ctype[c] = "User"
  /\ \E k \in get_chan(ch) : obj' = [obj EXCEPT ![c] = k]
  /\ pc' = [pc EXCEPT ![c] = "topic_check"]
  /\ arg' = [arg EXCEPT ![c] = ch]
  /\ UNCHANGED <<ctype, proto, unick, ustate, uchans, ns, cname, members, tgt, snap, topic>>

\* 622-625: chan.is_joined(&user.get_nick()) and chan.is_op(user), each
\* under the member map's lock; the error paths only reply.
TopicCheck(c) ==
  /\ pc[c] = "topic_check"
  /\ IF is_joined(obj[c], unick[c]) /\ is_op(obj[c], c)
     THEN Transition(c, "topic_check", "topic_set") /\ UNCHANGED <<arg, obj, tgt>>
     ELSE Return(c, "topic_check")
  /\ UNCHANGED <<ctype, proto, unick, ustate, uchans, ns, cname, members, snap, topic>>

\* 626: chan.set_topic(..) under the topic's own lock.
TopicSet(c) ==
  /\ pc[c] = "topic_set"
  /\ topic' = [topic EXCEPT ![obj[c]] = "set"]
  /\ Return(c, "topic_set")
  /\ UNCHANGED <<ctype, proto, unick, ustate, uchans, ns, cname, members, snap>>

-----------------------------------------------------------------------------
Init ==
  /\ ctype   = [c \in Client |-> "Unregistered"]
  /\ proto   = [c \in Client |-> [nick |-> NoName, user |-> FALSE]]
  /\ unick   = [c \in Client |-> NoName]
  /\ ustate  = [c \in Client |-> "none"]
  /\ uchans  = [c \in Client |-> [ch \in Chan |-> 0]]
  /\ ns      = [n \in {} |-> UserE(n)]
  /\ cname   = [k \in ObjId |-> NoName]
  /\ members = [k \in ObjId |-> [c \in Client |-> "out"]]
  /\ pc      = [c \in Client |-> "idle"]
  /\ arg     = [c \in Client |-> NoName]
  /\ obj     = [c \in Client |-> 0]
  /\ tgt     = [c \in Client |-> c]
  /\ snap    = [c \in Client |-> {}]
  /\ topic   = [k \in ObjId |-> ""]

\* The commands a client sends: not fair, a client may stay silent.
Command(c) ==
  \/ \E n \in Nick : Nick_(c, n) \/ MsgStart(c, n)
  \/ User_(c)
  \/ \E ch \in Chan : JoinStart(c, ch) \/ PartStart(c, ch) \/ TopicStart(c, ch)
  \/ Disconnect(c)

\* The steps of a handler already running (or of a Drop).
Step(t) ==
  \/ Register(t) \/ RegDrop(t) \/ NickChange(t)
  \/ JoinAdd(t) \/ JoinInsert(t) \/ JoinOp(t) \/ JoinLink(t)
  \/ PartRm(t) \/ PartEmpty(t) \/ PartRemove(t)
  \/ MsgUpgrade(t) \/ MsgSend(t)
  \/ ClearPick(t) \/ ClearEmpty(t) \/ ClearRm(t)
  \/ CleanupName(t) \/ PurgeSnap(t) \/ PurgeOne(t)
  \/ DropPick(t) \/ DropEmpty(t) \/ DropRm(t) \/ DropNick(t)
  \/ TopicCheck(t) \/ TopicSet(t)

Next == \E c \in Client : Command(c) \/ Step(c)

\* A running handler is never descheduled forever (tokio polls every ready
\* task); nothing in these steps blocks.
Fairness == \A t \in Client : WF_vars(Step(t))

Spec == Init /\ [][Next]_vars /\ Fairness

-----------------------------------------------------------------------------
(* Properties                                                              *)

TypeOK ==
  /\ ctype \in [Client -> {"Unregistered", "ProtoUser", "User", "Dead"}]
  /\ proto \in [Client -> [nick : Nick \cup {NoName}, user : BOOLEAN]]
  /\ unick \in [Client -> Nick \cup {NoName}]
  /\ ustate \in [Client -> {"none", "live", "dropping", "gone"}]
  /\ uchans \in [Client -> [Chan -> ObjId \cup {0}]]
  /\ DOMAIN ns \subseteq Name /\ \A n \in DOMAIN ns : ns[n] \in Entity
  /\ cname \in [ObjId -> Chan \cup {NoName}]
  /\ members \in [ObjId -> [Client -> {"out"} \cup ChanFlag]]
  /\ arg \in [Client -> Name \cup {NoName}]
  /\ obj \in [Client -> ObjId \cup {0}]
  /\ tgt \in [Client -> Client]
  /\ snap \in [Client -> SUBSET ObjId]
  /\ topic \in [ObjId -> {"", "set"}]


\* The tasks in the middle of a step sequence that will populate or remove
\* channel object k (between insert_name and add_user, or between rm_key
\* and remove_name).
Pending(k) ==
  \E t \in Client :
    /\ obj[t] = k
    /\ pc[t] \in {"join_add", "join_op", "part_empty", "part_remove",
                  "drop_empty", "drop_rm", "clear_empty", "clear_rm"}

RegisteredIdle(c) == ctype[c] = "User" /\ pc[c] = "idle"

(* I1 (spec 3): no two registered connections hold the same nick.  Broken *)
(* if a failed register (Drop at 99) or a stale cleanup removes a nick     *)
(* that is in use, so that NICK/USER can take it a second time.            *)
UniqueNicks ==
  \A u, v \in Client :
    u # v /\ ctype[u] = "User" /\ ctype[v] = "User" => unick[u] # unick[v]

(* A registered client is reachable by its nick: the namespace maps its    *)
(* nick to its own User (what PRIVMSG and NICK collisions rely on).        *)
RegisteredReachable ==
  \A c \in Client :
    RegisteredIdle(c) => unick[c] \in DOMAIN ns /\ ns[unick[c]] = UserE(c)

(* I2 / spec 8: a User found in the namespace under N has nick N, as long *)
(* as the User is alive.  try_nick_change (511-516) moves whatever entry  *)
(* the old nick names and sets its own user's nick, so the two agree only *)
(* if that entry is the renaming user's own.                             *)
NickEntryMatches ==
  \A n \in DOMAIN ns :
    ns[n].kind = "user" /\ ustate[ns[n].ref] = "live" => unick[ns[n].ref] = n

(* Spec 4.6, TOPIC with two parameters is for an operator only: a task   *)
(* that passed the is_op check (625) is still an op of that Channel when   *)
(* set_topic runs (626).                                                   *)
TopicSetterIsOp ==
  \A c \in Client : pc[c] = "topic_set" => is_op(obj[c], c)

(* I4 / spec 8: every member of a channel in the namespace lists it in its *)
(* channel list, and every channel a live user lists has it as a member.  *)
MembershipSymmetric ==
  /\ \A k \in NsChans : \A u \in Members(k) :
       RegisteredIdle(u) => uchans[u][cname[k]] = k
  /\ \A u \in Client, ch \in Chan :
       RegisteredIdle(u) /\ uchans[u][ch] # 0 /\ ChanAlive(uchans[u][ch])
         => u \in Members(uchans[u][ch])

(* I3 / spec 8: an empty channel is never observable in the namespace      *)
(* once the PART, JOIN or teardown step sequence touching it is over.      *)
NoEmptyChannel ==
  \A k \in NsChans : Members(k) = {} => Pending(k)

(* A channel a registered user is in is the one its name resolves to: a   *)
(* channel removed from the namespace while it still has members strands  *)
(* them (a later JOIN of the name creates a second channel).              *)
JoinedChannelReachable ==
  \A u \in Client, ch \in Chan :
    RegisteredIdle(u) /\ uchans[u][ch] # 0
      => ch \in DOMAIN ns /\ ns[ch] = ChanE(uchans[u][ch])

\* The handshake state of connection c that spec 4.6 speaks of: its
\* ClientType, with the ProtoUser's pending nick or the User's nick.
ConnOf(c) ==
  CASE ctype[c] = "User"      -> [st |-> "User", nick |-> unick[c], user |-> TRUE]
    [] ctype[c] = "ProtoUser" -> [st |-> "ProtoUser", nick |-> proto[c].nick,
                                  user |-> proto[c].user]
    [] OTHER                  -> [st |-> ctype[c], nick |-> NoName, user |-> FALSE]

HS == INSTANCE Handshake WITH hs <- [c \in Client |-> ConnOf(c)]

(* Spec 4.6: the handshake implements the registration state machine.     *)
(* nick() and user() (735-853) decide on the ClientType and the pending   *)
(* ProtoUser, register's insert (556) and its failure path (Drop at 99)   *)
(* and try_nick_change (503-530) run as later steps interleaved with     *)
(* other connections, yet every connection moves only as the spec's table *)
(* allows: NICK replaces a pending nick, USER or NICK completes it, a      *)
(* failed register leaves the ProtoUser as it was.                        *)
HandshakeRefines == HS!Spec

(* Every User whose connection has closed is eventually dropped: Drop for *)
(* User runs to its end once the last Arc, the client's or a PRIVMSG      *)
(* sender's upgrade, goes.  What the Drop releases is the subject of the  *)
(* namespace properties above, not of this one.                          *)
DeadUserReclaimed ==
  \A u \in Client :
    (ctype[u] = "Dead" /\ ustate[u] \in {"live", "dropping"}) ~> ustate[u] = "gone"

=============================================================================
