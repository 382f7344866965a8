----------------------------- MODULE FrameStream -----------------------------
(***************************************************************************)
(* What a connection's input framing promises, with no capacity and no     *)
(* array: the bytes received and not yet handed on form one sequence,     *)
(* pending; each delivery hands on its first line, through the first CR   *)
(* LF, or all of it when it holds no CR LF (buffer.rs 52-54: "return      *)
(* whatever string happens to currently be in there").  The connection   *)
(* may be closed, after which nothing moves.                              *)
(***************************************************************************)
EXTENDS Naturals, Sequences, SequencesExt

VARIABLES
  pending,  \* bytes received, not yet delivered
  out,      \* the frames delivered, in order
  closed

vars == <<pending, out, closed>>

CRLF == <<"CR", "LF">>

\* The end of the first CR LF in s, or 0.
FirstEol(s) ==
  LET E == {p \in 1..(Len(s) - 1) : SubSeq(s, p, p + 1) = CRLF}
  IN IF E = {} THEN 0 ELSE Min(E) + 1

\* The frame a delivery takes off the front of s.
FirstFrame(s) == IF FirstEol(s) = 0 THEN s ELSE SubSeq(s, 1, FirstEol(s))

Init == pending = <<>> /\ out = <<>> /\ closed = FALSE

\* More bytes arrive, behind the ones pending.
Receive ==
  /\ ~closed
  /\ pending' # pending /\ IsPrefix(pending, pending')
  /\ UNCHANGED <<out, closed>>

Deliver ==
  /\ ~closed
  /\ pending # <<>>
  /\ out' = Append(out, FirstFrame(pending))
  /\ pending' = SubSeq(pending, Len(FirstFrame(pending)) + 1, Len(pending))
  /\ UNCHANGED closed

Close == ~closed /\ closed' = TRUE /\ UNCHANGED <<pending, out>>

Next == Receive \/ Deliver \/ Close

Spec == Init /\ [][Next]_vars
=============================================================================
