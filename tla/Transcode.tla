----------------------------- MODULE Transcode ------------------------------
(***************************************************************************)
(* transcode() of binary-engine.cc and the functions that call it:         *)
(* B_DECODE, B_ENCODE and B_TRANSCODE.                                     *)
(***************************************************************************)
EXTENDS Integers, Sequences, Iconv

VARIABLES
  from,       \* the source's encoding while transcode() runs, "no" otherwise
  srcBuf,     \* what is left of it
  dstBuf,     \* what was written
  room        \* dst_bytes_left, in pieces

transcodeVars == <<from, srcBuf, dstBuf, room>>

TranscodeInit == from = "no" /\ srcBuf = <<>> /\ dstBuf = <<>> /\ room = 0

(* dst has ten bytes for a byte of src; a unit has two. *)
BeginTranscode(pieces, encoding) ==
  /\ from = "no"
  /\ from' = encoding /\ srcBuf' = pieces /\ dstBuf' = <<>>
  /\ room' = IF encoding = "bytes" THEN 5 * Len(pieces) ELSE 20 * Len(pieces)

TranscodeTurns == from # "no" /\ room > 0 /\ srcBuf # <<>>

(* [mutant] A character that is cut off ends the text. *)
SrcLeft_CutsOff(done) == <<>>

(* What iconv() did not take. *)
SrcLeft(done) == done.left

(* One turn of the loop; EINVAL is no reason to stop. *)
TurnWorks(text, discards) ==
  LET done == Convert(text, srcBuf, from, room, discards) IN
  /\ TranscodeTurns
  /\ done.stop \in {"done", "EINVAL"}
  /\ srcBuf' = SrcLeft(done) /\ dstBuf' = dstBuf \o done.out /\ room' = room - Len(done.out)
  /\ UNCHANGED from

TurnFails(text, discards) ==
  /\ TranscodeTurns
  /\ Convert(text, srcBuf, from, room, discards).stop \notin {"done", "EINVAL"}
  /\ from' = "no" /\ srcBuf' = <<>> /\ dstBuf' = <<>> /\ room' = 0

(* The loop has ended; nothing may be left. *)
TranscodeEnds ==
  /\ from # "no" /\ ~TranscodeTurns
  /\ from' = "no" /\ srcBuf' = <<>> /\ dstBuf' = <<>> /\ room' = 0

(* What is left is the beginning of a character: the loop turns for ever.  *)
Spins(text, discards) ==
  /\ TranscodeTurns
  /\ LET done == Convert(text, srcBuf, from, room, discards) IN
     done.stop = "EINVAL" /\ done.left = srcBuf
=============================================================================
