------------------------------ MODULE ByteFifo ------------------------------
(***************************************************************************)
(* What a ByteIO promises: bytes are read once, in the order in which they *)
(* were written, as many as were asked for and are there.  A byte is the   *)
(* number of its writing.                                                  *)
(***************************************************************************)
EXTENDS Integers, Sequences

CONSTANTS Sizes,    \* how many bytes may be written at once
          Asks,     \* how many may be asked for
          Error     \* the result of a call that throws

VARIABLES held,     \* the bytes written and not read yet
          written,  \* how many were written
          result    \* of the last read() or toByteString()

fifoVars == <<held, written, result>>

FifoInit == held = <<>> /\ written = 0 /\ result = <<>>

Put(k) ==
  /\ held' = held \o [i \in 1..k |-> written + i]
  /\ written' = written + k
  /\ UNCHANGED result

(* read(want) takes, toByteString() looks. *)
Get(want, keep) ==
  LET m == IF want < 0 THEN 0 ELSE IF want < Len(held) THEN want ELSE Len(held) IN
  /\ result' = SubSeq(held, 1, m)
  /\ held' = IF keep THEN held ELSE SubSeq(held, m + 1, Len(held))
  /\ UNCHANGED written

(* A call that throws leaves everything there. *)
Fails == result' = Error /\ UNCHANGED <<held, written>>

FifoNext ==
  \/ \E k \in Sizes : Put(k)
  \/ \E want \in Asks : Get(want, FALSE)
  \/ Get(Len(held), FALSE)
  \/ Get(Len(held), TRUE)
  \/ Fails

FifoSpec == FifoInit /\ [][FifoNext]_fifoVars
=============================================================================
