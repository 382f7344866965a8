------------------------------ MODULE NameReply ------------------------------
(***************************************************************************)
(* User::send_rpl (src/irc.rs 287-325) for a NAMES reply (353) during     *)
(* JOIN.  A reply line longer than MAX_MSG_SIZE - 2 bytes is to be split  *)
(* into several 353 lines; the code computes a usize budget "overhead"   *)
(* and loops over the nick list.                                           *)
(*                                                                         *)
(* A nick is abstracted to its length in bytes, a nick list to the        *)
(* sequence of those lengths, the host and channel names to their lengths.*)
(* usize arithmetic wraps modulo USIZE in a release build and panics in a *)
(* debug build; the build is chosen in Init.                              *)
(***************************************************************************)
EXTENDS Integers, Sequences, SequencesExt, Functions

CONSTANTS
  MAX_MSG_SIZE,    \* rfc::MAX_MSG_SIZE (512)
  MAX_MSG_PARAMS,  \* rfc::MAX_MSG_PARAMS (15)
  USIZE,           \* 2^width of usize
  HostLens,        \* lengths of Core.hostname a daemon may run with
  ChanLens,        \* lengths of the channel name
  Replies,         \* nick lists (sequences of nick lengths) to reply with
  MaxLines         \* the count of lines sent saturates here

ASSUME USIZE > MAX_MSG_SIZE /\ MaxLines \in Nat \ {0}

VARIABLES
  pc,        \* "start", "loop", "done" (returned), "panic" (task aborted)
  build,     \* "debug" or "release"
  host,      \* host.len()
  chan,      \* chan.len()
  nicks,     \* the nick list the reply was built with
  nick_vec,  \* the loop's nick_vec
  i, sum, vec_len, overhead,
  sent,      \* the nicks of every 353 line sent so far, in order
  nsent      \* lines sent, saturating at MaxLines

vars == <<pc, build, host, chan, nicks, nick_vec, i, sum, vec_len, overhead,
          sent, nsent>>

\* format!(":{} {}", host, NameReply(chan, nick_vec)), with the reply
\* written "353 <chan> :<nicks separated by one space>".
LineLen(nv) ==
  1 + host + 1 + 4 + chan + 2 +
    (IF nv = <<>> THEN 0 ELSE SumFunction(nv) + Len(nv) - 1)

\* usize subtraction a - b: wraps in release, None (a panic) in debug.
usize_sub(a, b) == (a - b) % USIZE
Underflows(a, b) == b > a

\* let overhead = rfc::MAX_MSG_PARAMS - (10 + chan.len() + host.len())
Budget == usize_sub(MAX_MSG_PARAMS, 10 + chan + host)

\* my_client.send_line(&line) for the reply with nick list nv.
SendLine(nv) ==
  /\ sent' = sent \o nv
  /\ nsent' = IF nsent < MaxLines THEN nsent + 1 ELSE nsent

Init ==
  /\ pc = "start"
  /\ build \in {"debug", "release"}
  /\ host \in HostLens
  /\ chan \in ChanLens
  /\ nicks \in Replies
  /\ nick_vec = nicks
  /\ i = 0 /\ sum = 0 /\ vec_len = 0 /\ overhead = 0
  /\ sent = <<>> /\ nsent = 0

\* 290-297, 317-324: a line of at most limit bytes is sent as is;
\* otherwise the budget overhead = MAX_MSG_PARAMS - (10 + chan.len() +
\* host.len()) is computed and the split loop entered.
SendRpl ==
  LET ovh == 10 + chan + host IN
  /\ pc = "start"
  /\ \/ /\ LineLen(nick_vec) <= MAX_MSG_SIZE - 2
        /\ SendLine(nick_vec)
        /\ pc' = "done"
        /\ UNCHANGED <<vec_len, overhead>>
     \/ /\ LineLen(nick_vec) > MAX_MSG_SIZE - 2
        /\ build = "debug" /\ Underflows(MAX_MSG_PARAMS, ovh)
        /\ pc' = "panic"
        /\ UNCHANGED <<vec_len, overhead, sent, nsent>>
     \/ /\ LineLen(nick_vec) > MAX_MSG_SIZE - 2
        /\ ~(build = "debug" /\ Underflows(MAX_MSG_PARAMS, ovh))
        /\ overhead' = Budget
        /\ vec_len' = Len(nick_vec)
        /\ pc' = "loop"
        /\ UNCHANGED <<sent, nsent>>
  /\ UNCHANGED <<build, host, chan, nicks, nick_vec, i, sum>>

\* 303-313: when nick i no longer fits the budget, the first i nicks go out
\* in one line and the loop restarts on the rest.  When it fits, the body
\* changes nothing (i and sum are never advanced): that iteration is a
\* stuttering step, so it has no action of its own.  fetch_client()? (307)
\* and send_line's ? (308) leave the loop only once the client is gone; the
\* client stays connected here, the case in which the reply is owed.
Split ==
  /\ pc = "loop"
  /\ i < vec_len
  /\ sum + nick_vec[i + 1] >= overhead
  /\ SendLine(SubSeq(nick_vec, 1, i))
  /\ nick_vec' = SubSeq(nick_vec, i + 1, Len(nick_vec))
  /\ i' = 0 /\ sum' = 0
  /\ vec_len' = Len(nick_vec) - i
  /\ UNCHANGED <<pc, build, host, chan, nicks, overhead>>

\* The loop test i < vec_len (303) never fails: the loop is entered only
\* for a line over 510 bytes, which with nicks of at most 9 and channel
\* names of at most 50 bytes (rfc_defs) has a non-empty list, and nothing
\* ever advances i.  So the exit to 316 is unreachable and has no action.
Next == SendRpl \/ Split

\* The joining task runs send_rpl to completion: it is polled again after
\* every send_line, and nothing else it waits on can fail to come.
Spec == Init /\ [][Next]_vars /\ WF_vars(Next)

-----------------------------------------------------------------------------
(* Properties                                                              *)

(* Spec 4.6: the NAMES reply is eventually delivered in full: send_rpl    *)
(* returns (and JOIN goes on to EndofNames) after the 353 lines together  *)
(* carry every nick, in order.                                             *)
ReplyDelivered == <>(pc = "done" /\ sent = nicks)

=============================================================================
