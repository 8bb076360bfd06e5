------------------------------- MODULE ByteIO -------------------------------
(***************************************************************************)
(* ByteIO of io-engine.js over the byte arrays of binary-engine.cc: a list *)
(* of ByteStrings, each an extent of a byte array, and the number of bytes *)
(* in all of them.                                                         *)
(*                                                                         *)
(* The content of a byte is the number of its writing, 0 in an array that  *)
(* was just allocated and -1 around the bytes of a ByteString that is part *)
(* of a larger array.                                                      *)
(***************************************************************************)
EXTENDS Integers, Sequences

CONSTANTS MaxBytes,   \* bound: how many bytes are written
          MaxSegments,\* bound: how many ByteStrings are held
          MaxAround,  \* bound: bytes before and after a ByteString
          Wants,      \* what read() is asked for
          Error

ASSUME ByteIOAssumption ==
  /\ MaxBytes \in Nat /\ MaxAround \in Nat /\ MaxSegments \in Nat
  /\ Wants \subseteq Int
  /\ Error \notin Seq(Int)

VARIABLES
  buffer,     \* the ByteStrings: [bytes, offset, length]
  length,     \* this.length
  reading,    \* "no", or what for: "read", "keep" (toByteString)
  want,       \* length of the read() that is running
  dst,        \* the bytes it allocated
  position,   \* how many it has copied
  result,     \* of the last call
  written,    \* [history] how many bytes were ever written
  taken       \* [history] how many of them were taken by read()s that ended

byteVars == <<buffer, length, reading, want, dst, position, result, written, taken>>

ByteTypeOK ==
  /\ buffer \in Seq([bytes : Seq(Int), offset : Nat, length : Nat])
  /\ length \in Nat
  /\ reading \in {"no", "read", "keep"}
  /\ want \in Int /\ dst \in Seq(Int) /\ position \in Nat
  /\ result \in Seq(Int) \cup {Error}
  /\ written \in Nat /\ taken \in Nat

ByteInit ==
  /\ buffer = <<>> /\ length = 0
  /\ reading = "no" /\ want = 0 /\ dst = <<>> /\ position = 0 /\ result = <<>>
  /\ written = 0 /\ taken = 0

Smaller(a, b) == IF a < b THEN a ELSE b

(* write(): the next k bytes come as a ByteString with a bytes before and  *)
(* b bytes after it in its array.                                          *)
ByteString(k, a, b) ==
  [bytes |-> [i \in 1..(a + k + b) |-> IF i \in (a + 1)..(a + k) THEN written + i - a ELSE -1],
   offset |-> a, length |-> k]

ByteWrite(k, a, b) ==
  /\ reading = "no"
  /\ buffer' = Append(buffer, ByteString(k, a, b))
  /\ length' = length + k
  /\ written' = written + k
  /\ UNCHANGED <<reading, want, dst, position, result, taken>>

ByteRoom(k) == written + k <= MaxBytes /\ Len(buffer) < MaxSegments

(* read(w) up to the loop; B_ALLOC clears what it allocates, and may fail. *)
BeginByteRead(w, for) ==
  /\ reading = "no"
  /\ for = "keep" => w = length
  /\ \/ /\ w <= 0 /\ result' = <<>>
        /\ IF for = "keep"
           THEN buffer' = << [bytes |-> <<>>, offset |-> 0, length |-> 0] >> /\ length' = 0
           ELSE UNCHANGED <<buffer, length>>
        /\ UNCHANGED <<reading, want, dst, position>>
     \/ /\ w > 0
        /\ reading' = for /\ want' = w /\ position' = 0
        /\ dst' = [i \in 1..w |-> 0]
        /\ UNCHANGED <<buffer, length, result>>
     \/ /\ w > 0 /\ result' = Error
        /\ UNCHANGED <<buffer, length, reading, want, dst, position>>
  /\ UNCHANGED <<written, taken>>

(* B_COPY *)
InBounds(src, srcOffset, dstOffset, len) ==
  srcOffset + len <= Len(src) /\ dstOffset + len <= Len(dst)
Copied(src, srcOffset, dstOffset, len) ==
  [i \in DOMAIN dst |-> IF i \in (dstOffset + 1)..(dstOffset + len)
                        THEN src[srcOffset + i - dstOffset] ELSE dst[i]]

(* [mutant] What is left of a segment begins where the segment began. *)
Rest_SameStart(segment, len) ==
  [bytes |-> segment.bytes, offset |-> segment.offset, length |-> segment.length - len]

(* segment.slice(len) *)
Rest(segment, len) ==
  [bytes |-> segment.bytes, offset |-> segment.offset + len, length |-> segment.length - len]

(* A turn of the loop. *)
CopySegment ==
  LET segment == Head(buffer)
      len == Smaller(segment.length, want - position) IN
  /\ reading # "no" /\ position < want /\ length > 0
  /\ IF InBounds(segment.bytes, segment.offset, position, len)
     THEN /\ dst' = Copied(segment.bytes, segment.offset, position, len)
          /\ position' = position + len
          /\ length' = length - len
          /\ buffer' = IF len < segment.length
                       THEN [buffer EXCEPT ![1] = Rest(segment, len)]
                       ELSE Tail(buffer)
          /\ UNCHANGED <<reading, result>>
     ELSE /\ reading' = "no" /\ result' = Error
          /\ UNCHANGED <<dst, position, length, buffer>>
  /\ UNCHANGED <<want, written, taken>>

(* After the loop; toByteString() puts the result back. *)
EndByteRead ==
  /\ reading # "no" /\ ~(position < want /\ length > 0)
  /\ result' = SubSeq(dst, 1, position)
  /\ IF reading = "keep"
     THEN /\ buffer' = << [bytes |-> dst, offset |-> 0, length |-> position] >>
          /\ length' = position
          /\ UNCHANGED taken
     ELSE /\ taken' = taken + position
          /\ UNCHANGED <<buffer, length>>
  /\ reading' = "no" /\ want' = 0 /\ dst' = <<>> /\ position' = 0
  /\ UNCHANGED written

ByteNext ==
  \/ \E k \in 0..MaxBytes, a, b \in 0..MaxAround : ByteRoom(k) /\ ByteWrite(k, a, b)
  \/ \E w \in Wants : BeginByteRead(w, "read")
  \/ BeginByteRead(length, "read")
  \/ BeginByteRead(length, "keep")
  \/ CopySegment \/ EndByteRead

ByteSpec == ByteInit /\ [][ByteNext]_byteVars

-----------------------------------------------------------------------------
(* What is held, by number: all that was written and not taken by a read() *)
(* that has ended.                                                         *)
Held == [i \in 1..(written - taken) |-> taken + i]

Fifo == INSTANCE ByteFifo WITH held <- Held, Sizes <- 0..MaxBytes, Asks <- Wants

(* A ByteIO implements a queue of bytes: whatever the sizes and the sharing *)
(* of what is written, no byte is lost, repeated or moved, this.length     *)
(* never disagrees with the list, no copy leaves its array, and a failed   *)
(* allocation loses nothing.                                               *)
ImplementsFifo == Fifo!FifoInit /\ [][Fifo!FifoNext]_(Fifo!fifoVars)
=============================================================================
