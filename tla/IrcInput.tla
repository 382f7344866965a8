------------------------------ MODULE IrcInput ------------------------------
(***************************************************************************)
(* A connection's input path (spec 2): bytes -> MessageBuffer.append ->   *)
(* MessageBuffer.extract -> the CR LF stripped -> parse_message.  The      *)
(* connection loop (client.rs) is not in the repository; it is modelled   *)
(* from spec 2 and 4.3: it parses every String extract returns, and a     *)
(* panic in the parser aborts the connection's task.                      *)
(***************************************************************************)
EXTENDS MessageBuffer

CONSTANT MAX_MSG_PARAMS

VARIABLE task  \* "reading", or "panicked" once parse_message panicked

P == INSTANCE IrcParser
       WITH Letter <- {"x"}, Alphabet <- {}, MaxLen <- 0, msg <- <<>>

\* Spec 4.3: the terminator is stripped before the call.
Strip(f) ==
  IF Len(f) >= 2 /\ SubSeq(f, Len(f) - 1, Len(f)) = <<"CR", "LF">>
  THEN SubSeq(f, 1, Len(f) - 2) ELSE f

Read(s) == task = "reading" /\ append(s) /\ UNCHANGED task

\* The loop extracts a String and hands it to parse_message.
Handle ==
  /\ task = "reading"
  /\ extract
  /\ task' = IF P!parse_message(Strip(Last(got'))).kind = "panic"
             THEN "panicked" ELSE "reading"

InputNext == (\E s \in Chunks : Read(s)) \/ Handle

InputSpec == Init /\ task = "reading" /\ [][InputNext]_<<vars, task>>

(* Spec 4.3: "empty frames are not delivered by the buffer and need not   *)
(* be handled", so parse_message, whose get_prefix slices message[..1]   *)
(* (parser.rs 161), never panics on a String extract returns.            *)
ParseNeverPanics == task # "panicked"
=============================================================================
