------------------------------ MODULE IrcParser ------------------------------
(***************************************************************************)
(* parse_message of src/parser.rs: one frame (its CR LF stripped) is cut  *)
(* into an optional prefix, a command and at most MAX_MSG_PARAMS          *)
(* parameters.  The code is pure, so it is a set of operators; a string   *)
(* is a sequence of one-character strings.  An Option is a set of at most *)
(* one element.                                                            *)
(*                                                                         *)
(* The parser is checked against the grammar of spec 4.3 (RefParse) over  *)
(* every string of at most MaxLen characters of Alphabet, which the       *)
(* variable msg runs through.                                             *)
(***************************************************************************)
EXTENDS Naturals, Sequences, SequencesExt

CONSTANTS
  MAX_MSG_PARAMS,  \* rfc::MAX_MSG_PARAMS (15 in the spec)
  Letter,          \* the characters of Alphabet that are ASCII letters
  Alphabet,        \* the characters a frame is built from
  MaxLen           \* longest frame generated

ASSUME MAX_MSG_PARAMS \in Nat /\ MAX_MSG_PARAMS >= 2

SP == " "

\* The outcome of parse_message: "ok" (ParsedMsg), "err" (a ParseError) or
\* "panic" (the task aborts).  prefix and params are Options.
Result(kind, err, prefix, command, params) ==
  [kind |-> kind, err |-> err, prefix |-> prefix, command |-> command,
   params |-> params]
Panic == Result("panic", "", {}, <<>>, {})
Err(e) == Result("err", e, {}, <<>>, {})

\* str::find: the 1-based position of the first occurrence of pat, or 0.
find(s, pat) ==
  LET P == {p \in 1..(Len(s) - Len(pat) + 1) : SubSeq(s, p, p + Len(pat) - 1) = pat}
  IN IF P = {} THEN 0 ELSE Min(P)

From(s, p) == SubSeq(s, p, Len(s))

\* str::splitn(n, sep): at most n pieces, the last one keeps the rest.
RECURSIVE splitn(_, _, _)
splitn(s, n, sep) ==
  LET k == find(s, <<sep>>)
  IN IF n = 1 \/ k = 0 THEN <<s>>
     ELSE <<SubSeq(s, 1, k - 1)>> \o splitn(From(s, k + 1), n - 1, sep)

\* str::split(sep): every piece (never more than Len(s) + 1 of them).
split(s, sep) == splitn(s, Len(s) + 1, sep)

\* rfc::is_valid_command (spec 4.3: letters, or three digits; the alphabet
\* has no digits).
\* Mutant: the command is not validated.
is_valid_command_any(c) == c # <<>>
is_valid_command(c) == c # <<>> /\ \A i \in 1..Len(c) : c[i] \in Letter

(* rfc_defs is not in the repository; its predicates follow spec 3       *)
(* restricted to the alphabets: they hold no digits, so neither an IPv4   *)
(* nor an IPv6 literal is ever valid, and no name is long enough for the *)
(* length limits (9, 63, 253) to bite.                                    *)
valid_nick(s) == 1 <= Len(s) /\ Len(s) <= 9 /\ \A i \in 1..Len(s) : s[i] \in Letter
valid_user(s) == s # <<>> /\ \A i \in 1..Len(s) : s[i] \notin {SP, "@"}
valid_hostname(s) ==
  \A i \in 1..Len(split(s, ".")) :
    LET l == split(s, ".")[i] IN l # <<>> /\ \A c \in 1..Len(l) : l[c] \in Letter

\* MsgPrefix (30-35) and the outcome of parse_prefix.
Prefix(kind, nick, user, host) == [kind |-> kind, nick |-> nick, user |-> user, host |-> host]
PrefixOk(pre) == [ok |-> TRUE, err |-> "", prefix |-> pre]
PrefixErr(e) == [ok |-> FALSE, err |-> e, prefix |-> Prefix("", <<>>, <<>>, <<>>)]

\* parse_host (235-245): IPv4, then IPv6, then a hostname.
parse_host(h) == valid_hostname(h)

\* parse_prefix, 184-212: nick@host or nick!user@host, the user tested first.
prefix_with_host(name, host) ==
  LET bang == splitn(name, 2, "!") IN
  IF Len(bang) = 2
  THEN IF ~valid_user(bang[2]) THEN PrefixErr("InvalidUser")
       ELSE IF ~valid_nick(bang[1]) THEN PrefixErr("InvalidNick")
       ELSE IF ~parse_host(host) THEN PrefixErr("InvalidHost")
       ELSE PrefixOk(Prefix("NickUserHost", bang[1], bang[2], host))
  ELSE IF ~valid_nick(name) THEN PrefixErr("InvalidNick")
       ELSE IF ~parse_host(host) THEN PrefixErr("InvalidHost")
       ELSE PrefixOk(Prefix("NickHost", name, <<>>, host))

\* Mutant: a prefix that is no nick is rejected, servers included.
prefix_without_host_nickonly(name) ==
  IF ~valid_nick(name) THEN PrefixErr("InvalidNick")
  ELSE IF parse_host(name) THEN PrefixOk(Prefix("Name", name, <<>>, name))
  ELSE PrefixOk(Prefix("Nick", name, <<>>, <<>>))

\* parse_prefix, 213-230: no '@': a server (Host), or a nick that may also
\* be a host (Name).  Host and Nick are written with the wrong arity or do
\* not exist in MsgPrefix (rustc rejects 218 and 227); their evident
\* meaning is modelled.
prefix_without_host(name) ==
  IF ~valid_nick(name)
  THEN IF parse_host(name) THEN PrefixOk(Prefix("Host", <<>>, <<>>, name))
       ELSE PrefixErr("InvalidHost")
  ELSE IF parse_host(name) THEN PrefixOk(Prefix("Name", name, <<>>, name))
  ELSE PrefixOk(Prefix("Nick", name, <<>>, <<>>))

\* parse_prefix (178-231): split once on '@'.
parse_prefix(p) ==
  LET at == splitn(p, 2, "@") IN
  IF Len(at) = 2 THEN prefix_with_host(at[1], at[2]) ELSE prefix_without_host(p)

\* get_prefix (156-174): message[..1] panics on an empty message and on one
\* whose first character is multi-byte ("lead" is a UTF-8 lead byte).
get_prefix(m) ==
  IF m = <<>> \/ m[1] = "lead" THEN Panic
  ELSE IF m[1] = ":"
  THEN LET parts == splitn(From(m, 2), 2, SP) IN
       [kind |-> "ok", prefix |-> {parts[1]},
        body |-> IF Len(parts) = 2 THEN {parts[2]} ELSE {}]
  ELSE [kind |-> "ok", prefix |-> {}, body |-> {m}]

\* split_colon_arg (249-255): cut at the first " ", ":" pair.
split_colon_arg(s) ==
  LET t == find(s, <<SP, ":">>)
  IN IF t = 0 THEN [middle |-> s, trail |-> {}]
     ELSE [middle |-> SubSeq(s, 1, t - 1), trail |-> {From(s, t + 2)}]

\* 116: the trailing argument gets its own slot while the middle part has
\* fewer than MAX_MSG_PARAMS pieces.
\* Mutant: <= for <.
TrailFits_le(middle) == Len(split(middle, SP)) <= MAX_MSG_PARAMS
TrailFits(middle) == Len(split(middle, SP)) < MAX_MSG_PARAMS

\* 122-124: with no trailing argument the whole rest is split into at most
\* MAX_MSG_PARAMS pieces.
\* Mutant: split for splitn.
NoTrailParams_split(rest) == split(rest, SP)
NoTrailParams(rest) == splitn(rest, MAX_MSG_PARAMS, SP)

\* 109-125.  When " :" is found but the middle part is already too long,
\* the Some arm leaves param_slices unassigned (rustc rejects this, E0381);
\* the comment at 122-123 says that case falls to the splitn of the whole
\* rest, which is what is modelled.
params_of(rest) ==
  LET sc == split_colon_arg(rest)
  IN IF \E t \in sc.trail : TrailFits(sc.middle)
     THEN splitn(sc.middle, MAX_MSG_PARAMS - 1, SP) \o <<CHOOSE t \in sc.trail : TRUE>>
     ELSE NoTrailParams(rest)

\* parse_message (57-140): get_prefix, parse_prefix, the command, the
\* parameters.
parse_message(m) ==
  LET gp == get_prefix(m) IN
  IF gp.kind = "panic" THEN Panic
  ELSE IF gp.body = {} THEN Err("NoCommand")
  ELSE IF \E p \in gp.prefix : ~parse_prefix(p).ok
  THEN Err(parse_prefix(CHOOSE p \in gp.prefix : TRUE).err)
  ELSE LET body == CHOOSE b \in gp.body : TRUE
           k == find(body, <<SP>>)
           command == IF k = 0 THEN body ELSE SubSeq(body, 1, k - 1)
       IN IF ~is_valid_command(command) THEN Err("InvalidCommand")
          ELSE Result("ok", "", {parse_prefix(p).prefix : p \in gp.prefix}, command,
                      IF k = 0 THEN {} ELSE {params_of(From(body, k + 1))})

-----------------------------------------------------------------------------
(* The reference: spec 4.3's grammar, with 14 = MAX_MSG_PARAMS - 1.       *)
(*   message  = [ ':' prefix SP ] command [ params ]                      *)
(*   params   = *14( SP middle ) [ SP ':' trailing ]                       *)
(*            | 14( SP middle ) [ SP [':'] trailing ]                      *)
(*   middle   = nospcrlfcl *( ':' / nospcrlfcl )                           *)
(* RefParams(s, k) is the set of parameter lists s derives after k        *)
(* middles; the grammar is ambiguous on "SP :x" after 14 middles, hence a *)
(* set.  {} means s is not in the language.  The first parameter must be *)
(* a middle: a trailing first parameter ("QUIT :bye") is where the code   *)
(* and the grammar part (split_colon_arg looks for " :" after a middle).  *)
RECURSIVE RefParams(_, _)
RefParams(s, k) ==
  IF s = <<>> THEN {<<>>}
  ELSE IF Head(s) # SP THEN {}
  ELSE LET r == Tail(s)
           j == find(r, <<SP>>)
           m == IF j = 0 THEN r ELSE SubSeq(r, 1, j - 1)
       IN (IF r # <<>> /\ Head(r) = ":" /\ k > 0 THEN {<<Tail(r)>>} ELSE {})
          \cup (IF k = MAX_MSG_PARAMS - 1 THEN {<<r>>} ELSE {})
          \cup (IF k < MAX_MSG_PARAMS - 1 /\ m # <<>> /\ Head(m) # ":"
                THEN {<<m>> \o ps : ps \in RefParams(From(r, Len(m) + 1), k + 1)}
                ELSE {})

\* The command is the longest run of letters; what follows is params.
RefBody(prefix, b) ==
  LET n == CHOOSE n \in 0..Len(b) :
             /\ \A i \in 1..n : b[i] \in Letter
             /\ (n = Len(b) \/ b[n + 1] \notin Letter)
      s == From(b, n + 1)
  IN IF n = 0 THEN {}
     ELSE {Result("ok", "", prefix, SubSeq(b, 1, n), IF s = <<>> THEN {} ELSE {ps}) :
             ps \in RefParams(s, 0)}

\* The prefix's reading is parse_prefix's, which PrefixAgrees checks
\* against the prefix grammar on its own.
RefParse(m) ==
  IF m # <<>> /\ Head(m) = ":"
  THEN LET j == find(m, <<SP>>) IN
       IF j <= 2 \/ ~parse_prefix(SubSeq(m, 2, j - 1)).ok THEN {}
       ELSE RefBody({parse_prefix(SubSeq(m, 2, j - 1)).prefix}, From(m, j + 1))
  ELSE RefBody({}, m)

(* RFC 2812 2.3.1: prefix = servername / nickname [ [ "!" user ] "@" host ]. *)
(* RefPrefix(p) is the set of its readings of p.                          *)
RefPrefix(p) ==
  LET at == {i \in 1..Len(p) : p[i] = "@"}
      bang == {j \in 1..Len(p) : p[j] = "!"}
  IN (IF valid_hostname(p) THEN {Prefix("Host", <<>>, <<>>, p)} ELSE {})
     \cup (IF valid_nick(p) THEN {Prefix("Nick", p, <<>>, <<>>)} ELSE {})
     \cup {Prefix("NickHost", SubSeq(p, 1, i - 1), <<>>, From(p, i + 1)) :
            i \in {i \in at : valid_nick(SubSeq(p, 1, i - 1)) /\ valid_hostname(From(p, i + 1))}}
     \cup {Prefix("NickUserHost", SubSeq(p, 1, ji[1] - 1), SubSeq(p, ji[1] + 1, ji[2] - 1),
                  From(p, ji[2] + 1)) :
            ji \in {ji \in bang \X at :
                     /\ ji[1] < ji[2]
                     /\ valid_nick(SubSeq(p, 1, ji[1] - 1))
                     /\ valid_user(SubSeq(p, ji[1] + 1, ji[2] - 1))
                     /\ valid_hostname(From(p, ji[2] + 1))}}

\* The readings a parsed MsgPrefix stands for: Name is both a nick and a host.
Readings(pre) ==
  IF pre.kind = "Name" THEN {Prefix("Nick", pre.nick, <<>>, <<>>), Prefix("Host", <<>>, <<>>, pre.host)}
  ELSE {pre}

-----------------------------------------------------------------------------
VARIABLE msg

Init == msg = <<>>

\* The next frame to parse is the current one with one more character.
Extend == Len(msg) < MaxLen /\ \E c \in Alphabet : msg' = Append(msg, c)

Spec == Init /\ [][Extend]_msg

-----------------------------------------------------------------------------
(* Properties (the buffer never hands over an empty frame: spec 4.3).     *)

Parsed == parse_message(msg)

TypeOK ==
  /\ msg \in Seq(Alphabet)
  /\ Parsed.kind \in {"ok", "err", "panic"}
  /\ Parsed.kind = "ok" => Parsed.command # <<>> /\ Parsed.command \in Seq(Letter)
  /\ \A ps \in Parsed.params : ps \in Seq(Seq(Alphabet))

(* RFC 2812 / spec 4.3: a message carries at most MAX_MSG_PARAMS          *)
(* parameters, whatever the frame: the counted test at 116 and the       *)
(* splitn limits at 118 and 124 together bound the list.                  *)
ParamsBounded ==
  msg # <<>> => \A ps \in Parsed.params : Len(ps) <= MAX_MSG_PARAMS

(* Every grammatical frame whose parameters start with a middle is parsed *)
(* as the grammar derives it (prefix, command, every parameter): the " :" *)
(* search, the piece count at 116 and the two splitn limits agree with    *)
(* the *14 / 14 alternatives of the grammar.                              *)
MiddleFirstAgrees ==
  RefParse(msg) # {} => Parsed \in RefParse(msg)

(* Spec 4.3 step 5: a prefix is accepted exactly when the RFC grammar     *)
(* derives it, and its MsgPrefix stands for every reading the grammar     *)
(* gives it: the '@' and '!' splits (splitn 2, first occurrence) and the *)
(* order of the nick, user and host tests in parse_prefix.               *)
PrefixAgrees ==
  msg # <<>> =>
    IF parse_prefix(msg).ok THEN Readings(parse_prefix(msg).prefix) = RefPrefix(msg)
    ELSE RefPrefix(msg) = {}

=============================================================================
