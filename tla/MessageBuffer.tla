---------------------------- MODULE MessageBuffer ----------------------------
(***************************************************************************)
(* The per-connection input buffer of src/buffer.rs (MessageBuffer): a     *)
(* fixed array of MESSAGE_SIZE chars with a write index.  The connection   *)
(* driver appends the Strings it reads and extracts lines; the driver is  *)
(* not in the repository, so any interleaving of append and extract is     *)
(* allowed, and an OverFlow makes it close the connection (spec 4.2).      *)
(*                                                                         *)
(* Bytes are abstracted to "x" (an ASCII byte), "CR", "LF" and "hi" (a     *)
(* byte >= 0x80 of a multi-byte UTF-8 character).  The array holds chars: *)
(* append stores each byte as a char (byte as char), and extract rebuilds *)
(* a String from the chars, so a char >= 0x80 comes out as two UTF-8      *)
(* bytes: a lead byte 0xC2/0xC3 ("lead") and a continuation ("hi").       *)
(***************************************************************************)
EXTENDS Naturals, Sequences, SequencesExt

CONSTANTS
  MESSAGE_SIZE,  \* capacity of the array (512 in the code)
  Chunks,        \* the Strings (byte sequences) a read may deliver
  MaxStream      \* bound on the bytes appended over a run

Byte == {"x", "CR", "LF", "hi"}

ASSUME MESSAGE_SIZE \in Nat \ {0}
ASSUME Chunks \subseteq Seq(Byte) \ {<<>>}
ASSUME MaxStream \in Nat

VARIABLES
  buffer,  \* buffer[0..index), as a sequence; its length is index
  sent,    \* every byte append accepted, in order (history)
  got,     \* every String extract returned, as UTF-8 bytes (history)
  closed   \* the driver closed the connection after an OverFlow

vars == <<buffer, sent, got, closed>>

-----------------------------------------------------------------------------
\* String::extend over chars: each char becomes its UTF-8 encoding.
Utf8(c) == IF c = "hi" THEN <<"lead", "hi">> ELSE <<c>>
to_string(s) == FlattenSeq([i \in 1..Len(s) |-> Utf8(s[i])])

\* get_eol (26-35): the index just past the first CR LF below index, or 0
\* for None.  Sequence positions are 1-based: CR at p means i-1 = p-1.
get_eol_last ==
  LET E == {p \in 1..(Len(buffer) - 1) : buffer[p] = "CR" /\ buffer[p+1] = "LF"}
  IN IF E = {} THEN 0 ELSE Max(E) + 1
get_eol ==
  LET E == {p \in 1..(Len(buffer) - 1) : buffer[p] = "CR" /\ buffer[p+1] = "LF"}
  IN IF E = {} THEN 0 ELSE Min(E) + 1

\* shift_bytes_to_start (39-46): the bytes past start move to the front
\* and index drops by start.
shift_bytes_reset(start) == <<>>
shift_bytes_to_start(start) == SubSeq(buffer, start + 1, Len(buffer))

Init ==
  /\ buffer = <<>>
  /\ sent = <<>>
  /\ got = <<>>
  /\ closed = FALSE

\* append (73-84): fails with OverFlow unless the whole String fits.
append_offbyone(s) ==
  /\ ~closed
  /\ Len(sent) + Len(s) <= MaxStream
  /\ IF Len(s) > MESSAGE_SIZE - Len(buffer) + 1
     THEN closed' = TRUE /\ UNCHANGED <<buffer, sent>>
     ELSE /\ buffer' = buffer \o s
          /\ sent' = sent \o s
          /\ UNCHANGED closed
  /\ UNCHANGED got
append(s) ==
  /\ ~closed
  /\ Len(sent) + Len(s) <= MaxStream
  /\ IF Len(s) > MESSAGE_SIZE - Len(buffer)
     THEN closed' = TRUE /\ UNCHANGED <<buffer, sent>>
     ELSE /\ buffer' = buffer \o s
          /\ sent' = sent \o s
          /\ UNCHANGED closed
  /\ UNCHANGED got

\* extract (55-68): None on an empty buffer; the line through the first
\* CR LF if there is one; otherwise whatever is buffered, and index = 0.
extract ==
  /\ ~closed
  /\ buffer # <<>>
  /\ LET eol == get_eol IN
     IF eol # 0
     THEN /\ got' = Append(got, to_string(SubSeq(buffer, 1, eol)))
          /\ buffer' = shift_bytes_to_start(eol)
     ELSE /\ got' = Append(got, to_string(buffer))
          /\ buffer' = <<>>
  /\ UNCHANGED <<sent, closed>>

Next ==
  \/ \E s \in Chunks : append(s)
  \/ extract

Spec == Init /\ [][Next]_vars

-----------------------------------------------------------------------------
(* Properties                                                              *)

TypeOK ==
  /\ buffer \in Seq(Byte) /\ Len(buffer) <= MESSAGE_SIZE
  /\ sent \in Seq(Byte)
  /\ got \in Seq(Seq(Byte \cup {"lead"}))
  /\ closed \in BOOLEAN

\* The chars of an extracted String, read back as bytes.
FromString(s) == SelectSeq(s, LAMBDA b : b # "lead")

\* The frames extract returned, read back as bytes, and the bytes held.
FS == INSTANCE FrameStream
        WITH pending <- buffer,
             out <- [i \in 1..Len(got) |-> FromString(got[i])],
             closed <- closed

(* The fixed array implements FrameStream: every append is a Receive (or, *)
(* on OverFlow, a Close), every extract a Deliver of the first line.  So  *)
(* no byte is lost, duplicated or reordered (get_eol, the copy and        *)
(* shift_bytes_to_start's index update), and lines are cut at the FIRST   *)
(* CR LF, so two messages never come out as one frame.                    *)
BufferRefinesFrameStream == FS!Spec

=============================================================================
