# TLA+ models of irc_daemon

This directory holds TLA+ specifications of the IRC daemon under `src/`, with the TLC
configurations that check them. `PROJECT.json` lists the components, the runs, the
mutants, the map from each definition to the source lines it translates, the findings
and the hazards.

## The system

The daemon runs one tokio task per connection (the connection code, `client.rs`, is
not in the repository). A task reads bytes into a `MessageBuffer` (`src/buffer.rs`)
and extracts lines. It parses each line into a `ParsedMsg` (`src/parser.rs`) and hands
it to `command()` (`src/irc.rs`), which dispatches NICK, USER, JOIN, PART,
PRIVMSG/NOTICE and TOPIC. The handlers share one `Core`:

* the **namespace**, a mutex-protected map from nick or channel name to
  `NamedEntity::User(Weak<User>)` or `NamedEntity::Chan(Arc<Channel>)`;
* **User** objects, each with its nick (a mutex) and its channel list (a mutex, name to
  `Weak<Channel>`). A User is kept alive by its Client's `ClientType::User` and by any
  Arc a handler has upgraded;
* **Channel** objects (`chan.rs`, not in the repository), each a member map under its own
  lock.

There is no global lock around a handler. Each call such as `get_chan`, `add_user` or
`remove_name` takes and releases its own lock, so the handlers of different
connections interleave between those calls. A User's teardown (`Drop for User`,
`User::cleanup`, `clear_chans_and_exit`) runs in whichever task releases the last
reference or detects the dead client.

## Modules

| module | models | source |
|---|---|---|
| `IrcCore` | namespace, User, Channel membership and topic, handshake and the NICK, USER, JOIN, PART, TOPIC and PRIVMSG handlers, User teardown | `src/irc.rs` |
| `MCIrcCore` | model values, symmetry and a view without the topic for `IrcCore` | |
| `Handshake` | the registration state machine of spec 4.6, one atomic step per command | spec 4.6 |
| `MessageBuffer` | the fixed-size line buffer: `append`, `extract`, `get_eol`, `shift_bytes_to_start` | `src/buffer.rs` |
| `MCMessageBuffer` | the chunks a read may deliver | |
| `NameReply` | `send_rpl`'s split of an over-long NAMES (353) reply | `src/irc.rs` 287-325 |
| `MCNameReply` | the nick lists replied with | |
| `FrameStream` | what the input framing promises: a pending byte sequence whose first line is delivered | `src/buffer.rs` 52-54 |
| `IrcParser` | `parse_message`, `get_prefix`, `split_colon_arg`, `parse_prefix`, `parse_host`, and the grammar they are checked against | `src/parser.rs` |
| `MCIrcParser` | the alphabet frames are built from | |
| `IrcInput` | a connection's input path: append, extract, strip CR LF, parse | `src/buffer.rs`, `src/parser.rs`, spec 2 |
| `MCIrcInput` | the chunks a read may deliver | |

### IrcCore

State: one variable per piece of shared state.

* `ns` is the namespace, a partial function built with `@@`, `:>` and `Restrict`.
* `ctype` and `proto` are the ClientType and ProtoUser of each connection.
* `unick`, `ustate` and `uchans` are each User's nick, lifecycle and channel list.
* `cname`, `members` and `topic` are each Channel object's name, member map and
  topic (`""` until a TOPIC sets it; the text is abstracted to `"set"`).
* A User is named by its connection. Channel objects are `1..MaxChanObj`, so two
  Channel objects with the same name can coexist, as in the code.

Each connection is a task with a program counter `pc` and handler locals: `arg` (a
name), `obj` (a held Channel Arc), `tgt` (a target User) and `snap` (the channel Arcs
cloned by the purge).

A handler is split into one action per lock it takes, so `part_chan` is `PartStart`
(`get_chan`), `PartRm` (`is_joined`, `rm_channel`, `rm_key`), `PartEmpty`
(`is_empty`) and `PartRemove` (`remove_name`). Commands start handlers: `Nick_`,
`User_`, `JoinStart`, `PartStart`, `TopicStart`, `MsgStart` and `Disconnect`. The
handlers look names up with `get_name`, `get_nick` and `get_chan` (irc.rs 422-440),
which return an Option as a set of at most one element. The user's channel list
changes only through `add_channel` and `rm_channel` (irc.rs 126-135). The steps of running
handlers are grouped in `Step(t)`. The teardown loops (`Drop`, `clear_chans_and_exit`)
share `UnlinkPick`, `UnlinkEmpty` and `UnlinkRm`: drain one channel-list entry, test
emptiness, remove the name.

Reference counts are derived, not stored. A Channel is alive (`ChanAlive`) while the
namespace or a task holds its Arc. A User's strong references are its Client's and
those of the tasks in `HoldPc` targeting it. When the last one goes (`Disconnect`
or `Release`), the User's Drop runs. It is modelled as the dead user's own task, in
the states `drop`…`drop_nick`.

Abstractions:

* Names are model values, and every name is valid (`rfc_defs` is absent).
* Message bodies, usernames, the topic's text and reply texts are left out: no
  handler branches on them.
* Each command has one target; the comma-separated lists are loops over the
  single-target handler.
* TOPIC is modelled for a new topic: `TopicStart` (`get_chan`), `TopicCheck`
  (`is_joined` and `is_op`, which spec 4.5 keys by the user) and `TopicSet`
  (`set_topic`, under the topic's own lock). A TOPIC query only reads.
* PRIVMSG to a channel and the `notify_*` fan-out are not modelled, because `chan.rs`
  is absent.

The code takes two locks in opposite orders. `try_nick_change` takes the namespace,
then the user's channel_list (504-505). The drain loops of `Drop` and
`clear_chans_and_exit` hold a channel_list lock and call `remove_name`, which takes the
namespace. Only ownership keeps them from meeting on one User: its own task renames
it and holds an Arc of it and of its Client, while a teardown needs the last Arc or
the Client gone. In IrcCore that argument is the guards of `Disconnect` and
`MsgSend`, so no property restates it. The hazard is listed without one.

`Handshake` is the registration state machine of spec 4.6 with every command one
atomic step on a connection's state `hs[c]`: its state, its pending or registered
nick, and whether a USER came. IrcCore instantiates it as
`HS == INSTANCE Handshake WITH hs <- [c \in Client |-> ConnOf(c)]`, where `ConnOf`
reads the ClientType, the ProtoUser and the User's nick. `HandshakeRefines == HS!Spec`
says that, although `register` and `try_nick_change` run as later steps interleaved
with other connections, and a failed `register` runs a Drop, each connection moves
only as the table allows. Names are not in the abstract state, so the uniqueness of
nicks is not part of this property. It is what `core_registered_reachable` refutes.

### MessageBuffer

`buffer` is `buffer[0..index)`. The history variables `sent` (bytes accepted by
`append`) and `got` (Strings returned by `extract`, as UTF-8 bytes) let the properties
compare input with output. Bytes are abstracted to `"x"` (ASCII), `"CR"`, `"LF"` and
`"hi"` (a byte of 0x80 or above). `extract` rebuilds the String char by char, so
`"hi"` comes out as `<<"lead","hi">>`, which is what `String::extend` over chars
does. The caller is absent, so appends and extracts interleave freely. An OverFlow
closes the connection.

`FrameStream` is the abstract specification of the framing. It has no capacity and no
array: `pending` holds the bytes received and not yet delivered. `Deliver` hands on
the first line through the first CR LF, or everything when no CR LF is pending. This
is what the code's comment at 52-54 promises, rather than spec 4.2, which returns
nothing for a partial line. MessageBuffer instantiates it as
`FS == INSTANCE FrameStream WITH pending <- buffer, out <- ...`. The property
`BufferRefinesFrameStream == FS!Spec` says that every append is a `Receive` (or, on
OverFlow, a `Close`) and every extract is a `Deliver`. The mapping reads the extracted
Strings back as bytes.

### IrcParser

The parser is pure, so it is a set of operators; a string is a sequence of
one-character strings, and an `Option` is a set of at most one element. `splitn`
and `find` are Rust's `str::splitn` and `str::find`, `splitn` as a RECURSIVE operator.
`params_of` is lines 108-125. When `" :"` is found but the middle part already has
`MAX_MSG_PARAMS` pieces, the `Some` arm leaves `param_slices` unassigned, which rustc
rejects (E0381). The comment at 122-123 says that case falls through to the `splitn`
of the whole rest, and that is what is modelled. Likewise `MsgPrefix::Host` is built
with the wrong arity and `MsgPrefix::Nick` does not exist (218, 227); their evident
meaning is modelled. `rfc_defs` is absent: `is_valid_command`, `valid_nick`,
`valid_user` and `valid_hostname` follow spec 3 (marked spec_modelled). The alphabets
have no digits, so no IPv4 or IPv6 literal is ever valid. `parse_host` is therefore
`valid_hostname`. That is sound for RFC 2812's `ip6addr`, which needs hex digits, but
a `std::net`-based IPv6 check in `rfc_defs` would also accept `::`.

The reference definitions are written from the grammars, not from the code:

* `RefParams` and `RefParse` come from spec 4.3's `params` rule. With the grammar's
  14 read as `MAX_MSG_PARAMS - 1`, they give the set of parameter lists a string
  derives. It is a set because the grammar is ambiguous after 14 middles.
* `RefPrefix` comes from RFC 2812's `servername / nickname [[ "!" user ] "@" host]`.
  It gives every reading of a prefix.

The variable `msg` runs through every string of up to `MaxLen` characters, and the
properties compare `parse_message(msg)` with the references.

### IrcInput

The connection loop (`client.rs`) is absent. It is modelled from spec 2 and 4.3
(spec_modelled): each read is `append`ed, and each String `extract` returns has its
CR LF stripped and is passed to `parse_message`. A panic ends the task.

### NameReply

A nick is abstracted to its length in bytes, and the host and channel names likewise.
`Budget` is `overhead`, computed modulo `USIZE` (release build). In a debug build, an
underflow is a panic (`pc = "panic"`); the build is chosen in `Init`. `SendRpl` is
the length test and either the direct send or the budget computation. `Split` is the
loop body's split branch. The other branch changes nothing (the code never advances
`i` or `sum`), so it is a stuttering step. A line over 510 bytes always has a
non-empty nick list (nicks are at most 9 bytes, channels at most 50), so the loop
exit is unreachable and has no action. The loop's `fetch_client()?` (307) and
`send_line(..).await?` (308) exit only once the client is gone. The model keeps the
client connected, which is the case where the reply is owed.

`USIZE` is 2^30, not 2^64, because TLC's integers are 32-bit. The only use of the
wrapped value is `sum + len >= overhead` with `sum + len` below 600, and every wrapped
value is far above that, so the outcome is the same as at 64 bits.

## Runs

| run | expect | what it shows |
|---|---|---|
| `core_nicks` | pass | `HandshakeRefines`: every connection's NICK, USER, rename and disconnect implement spec 4.6's state machine (module `Handshake`). This holds in every state, including after the registration race; no constraint is used. `TypeOK`: the channel lists hold Channels. |
| `core_liveness` | pass | `DeadUserReclaimed`: every User whose connection closed is eventually dropped, even while a PRIVMSG sender holds the last Arc. It checks that the Drop completes, not what it releases. |
| `core_registered_reachable` | violation | Drop of a User whose registration lost a race removes the winner's nick (irc.rs 556/99) |
| `core_joined_channel_reachable` | violation | PART removes a channel's name after a concurrent JOIN added a member (irc.rs 456-457). The same property catches the Drop path: with PART excluded, TLC finds a Drop that empties the channel and removes its name (irc.rs 94-95) while a JOIN that already holds the Channel adds its member. |
| `core_no_empty_channel` | violation | the purge tests emptiness before removing the dead member (irc.rs 570-577) |
| `core_membership_symmetric` | violation | Drop removes a member by a nick that now belongs to someone else (irc.rs 90, 160) |
| `buffer_safety` | pass | the array refines `FrameStream` (`BufferRefinesFrameStream`): no byte is lost, duplicated or reordered, and frames end at the first CR LF. The index stays within capacity (`TypeOK`). |
| `parser_grammar` | pass | `ParamsBounded`: at most `MAX_MSG_PARAMS` parameters for any frame. `MiddleFirstAgrees`: every grammatical frame whose parameters start with a middle is parsed as the grammar derives it. `PrefixAgrees`: `parse_prefix` accepts exactly the prefixes RFC 2812 derives, with the same readings. `TypeOK`: an accepted command is letters. |
| `core_topic_setter_is_op` | violation | a TOPIC passes the op check, then a dead user's Drop removes the setter by a nick the setter has since taken (irc.rs 90), and `set_topic` runs for a non-member (irc.rs 624-628) |
| `input_parse_never_panics` | violation | a blank line is extracted as the frame CR LF and reaches `parse_message` as an empty String, and `&message[..1]` panics (parser.rs 161) |
| `namereply_delivered` | violation | a NAMES reply over 510 bytes is never delivered. TLC's trace is a debug build with a 1-byte host and a 3-byte channel: `overhead` is 1 with no underflow. The first nick fails the test, so the loop splits at 0 and resends an empty 353 line forever. When host and channel together exceed 5 bytes, 297 underflows instead. A debug build then panics. A release build wraps, and the loop spins without sending. |
| `core_nick_entry_matches` | violation | after the registration race frees n1 and the loser re-registers it, the first holder's NICK n2 moves the loser's entry to n2 (irc.rs 511-513). The namespace then names a live User under a nick it does not have (spec 8 I2). |

The violation runs are the findings of `PROJECT.json`. Reading the code for the
models also showed five divergences that a single unit test reaches, so no run is
spent on them:

* A trailing parameter right after the command (`QUIT :bye`, `x :a b`) keeps its colon
  and is split at its spaces, because `split_colon_arg` looks for `" :"` (parser.rs
  250). The reference `RefParams` therefore requires a middle first, and
  `MiddleFirstAgrees` checks the rest of the grammar.
* USER sent twice before NICK relocks the ProtoUser mutex whose guard is still held
  (irc.rs 763/776), and the task blocks for good. IrcCore models this as the state
  `hung`.
* `extract` returns a partial line when no CR LF is buffered (buffer.rs 64). Spec 4.2
  says it returns None.
* Bytes of 0x80 or above are stored as chars and re-encoded as two UTF-8 bytes
  (buffer.rs 80).
* `insert_name` compares names exactly (irc.rs 386). Spec I1 asks for case-folded
  uniqueness.

Several violation runs use `CONSTRAINT UniqueNicks`. It prunes every state in which
two registered users hold the same nick. That is the outcome of the registration race
(the first finding), which breaks most namespace invariants on its own. Each of those
runs therefore finds a trace with no two holders of one nick. The trace can still go
through the failed register's Drop at 99: `core_topic_setter_is_op` does. The passing
runs use no such constraint. `core_nick_entry_matches` has none either, because its
trace is the step after a nick is held twice.

Every property of a passing run has a mutant in `PROJECT.json`: a plausible bug in
the mapped definition that TLC reports as a violation. The mutants are:

* a channel list that records names;
* a last-reference test off by the releasing task;
* an off-by-one capacity test;
* an index reset instead of a shift;
* the last CR LF instead of the first;
* a second NICK before USER that registers instead of replacing the pending nick;
* an unvalidated command;
* `split` for `splitn`;
* `<=` for `<` in the piece count;
* a prefix parser that rejects server names.

### Bounds

* `IrcCore`: two clients, two nicks and one channel name.
  * Two clients are enough for every race above: each finding needs two tasks.
  * Two nicks allow a rename to a free nick, and a collision.
  * One channel name. With `MaxChanObj` 2, used by the channel violation runs, a
    channel can be removed and re-created, or exist twice.
  * `core_nicks` uses 1 object and no constraint: 1.2M states in 31 s. With 2
    objects and no constraint it is 16M states in 6.5 min, too long for a run. The
    refinement does not involve channel identity.
  * The liveness run uses 1 object and the view `TopicFreeView`, which leaves out
    `topic` (0.6M states, under 1 min).
    No guard and no other variable reads `topic`, so states that differ only in
    it have the same futures.
  * With three clients the state space exceeds 20M states.
* `NameReply`: 512 and 15 as in the code, hosts of 1, 4 and 9 bytes, channels of 2, 3, 5
  and 50 bytes, and lists of 2 and of 48 to 50 nicks. These give lines below,
  at 511 and above 510 bytes, with and without underflow, in both builds.
* `IrcParser`: `MAX_MSG_PARAMS` 2 and every frame of up to 7 characters over `x`,
  space, `:`, `@`, `!` and `.` (336k frames, 10 s). The code's limits are written in
  terms of `MAX_MSG_PARAMS`. With 2, frames of 7 characters reach the following:
  * a middle part that fits and one with `MAX_MSG_PARAMS` pieces;
  * more pieces than the limit, and a lone trailing;
  * every prefix form: nick, host, nick@host and nick!user@host, with a '!' in the
    user part.
* `IrcInput`: capacity 4, 6 bytes in all, chunks `x`, CR LF and a two-byte character.
* `MessageBuffer`: capacity 4 and 8 bytes appended in all.
  * The chunks are `x`, `xx`, `CR LF`, a lone `CR`, a lone `LF` and a two-byte
    high-byte character.
  * Those chunks cover a full buffer, an OverFlow, a CR LF split across two appends,
    two lines in one buffer, and a partial line (2.2M states, 10 s, with the
  refinement property checked on every step).

### Fairness

`Fairness` is weak fairness on each task's `Step`: a handler that is running is
eventually scheduled, since tokio polls every ready task and none of the modelled
steps blocks. The USER re-lock is modelled as the state `hung` with no step, which is
what a blocking std Mutex does. Commands and disconnects are not fair: a client may
stay silent forever. No property claims that every handler returns. JOIN's
`send_rpl` (303-314) never returns for a NAMES line over 510 bytes (`namereply_delivered`),
and IrcCore leaves that loop to NameReply.

`NameReply` assumes weak fairness of its whole `Next`. `send_rpl` is one task's code:
between `send_line` awaits it is polled again, and its loop holds no lock. The
non-advancing loop iteration is a stuttering step, which fairness does not force
past, so a spin shows up as infinite stuttering short of `done`.

`MessageBuffer`, `IrcParser` and `IrcInput` are checked for safety only, with no
fairness. Their runs set `CHECK_DEADLOCK FALSE` because their behaviours end: the
stream bound is reached, the longest frame has been generated, or the task panicked.

## Not modelled

What remains outside the models cannot be modelled faithfully from this
repository, or would check nothing the code could get wrong:

* **Channel PRIVMSG and `notify_*`**: `chan.rs` is not in the repository. Its
  membership operations are modelled from the spec (`spec_modelled`). The fan-out's
  order of upgrades and sends cannot be read off any code, so it is left out rather
  than invented. PRIVMSG to a nick, including the teardown it triggers, is modelled.
* **The client-id index** (`assign_id`, `insert_client`, `get_client`,
  `remove_client`, irc.rs 374-420): the callers are in the absent `client.rs`.
  `assign_id` increments and reads `id_counter` under one mutex, so a model of it
  would be a single atomic step. Spec I5 (ids strictly increasing) would then hold
  by the model's shape. A u64 counter cannot wrap in any real run.
* **An abstract namespace**: a specification with atomic register, rename and
  unregister that IrcCore would refine. Under the races the violation runs show,
  IrcCore does not refine it. `Handshake` covers the part that does hold.
* **Code never called**: `get_command` (parser.rs 147-154), `clear_channel_list`
  and `get_channel_list` (irc.rs 186, 216).
* **Absent code**: `valid_channel` and the IPv4/IPv6 parsers need the absent
  `rfc_defs`.
* **Pure formatting and I/O**: the getters, `get_prefix`, `send_err`, `send_line`,
  `User::new`, the `Clone` impls, TCP/TLS and logging.
