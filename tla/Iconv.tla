------------------------------- MODULE Iconv --------------------------------
(***************************************************************************)
(* iconv(), as io-engine.cc and binary-engine.cc use it, between the bytes *)
(* of an 8-bit encoding and UTF-16 units.  External: the library is not in *)
(* the repository.                                                         *)
(*                                                                         *)
(* A text is a sequence of kinds of character; <<i, j>> is the j-th piece  *)
(* (byte or unit) of its i-th character.                                   *)
(***************************************************************************)
EXTENDS Integers, Sequences

Legal == {"ascii", "newline", "accent", "astral"}
Kinds == Legal \cup {"bad",   \* no character begins so
                     "cut"}   \* the first piece of one, at the end of the text

Piece == Nat \X Nat

Other(encoding) == IF encoding = "bytes" THEN "units" ELSE "bytes"

Width(kind, encoding) ==
  CASE kind = "accent" -> IF encoding = "bytes" THEN 2 ELSE 1
    [] kind = "astral" -> IF encoding = "bytes" THEN 4 ELSE 2
    [] OTHER           -> 1

Character(text, i, encoding) == [j \in 1..Width(text[i], encoding) |-> <<i, j>>]
Pieces(text, encoding) ==
  LET upTo[i \in 0..Len(text)] ==
        IF i = 0 THEN <<>> ELSE upTo[i - 1] \o Character(text, i, encoding)
  IN  upTo[Len(text)]

(* What is in front of iconv(): nothing ("done"), no character (EILSEQ),   *)
(* the beginning of one (EINVAL), or a character.                          *)
Front(text, src, encoding) ==
  LET i == Head(src)[1] IN
  IF src = <<>> THEN "done"
  ELSE IF Head(src)[2] # 1 \/ text[i] = "bad" THEN "EILSEQ"
  ELSE IF text[i] = "cut" \/ Len(src) < Width(text[i], encoding) THEN "EINVAL"
  ELSE "character"

(* One call: what it writes, what it leaves, and why it stops: at the end, *)
(* amid a character, where there is none (discards: it is skipped, the     *)
(* target says //IGNORE), or without room for the next (E2BIG).            *)
Turned(text, src, from, room, discards, convert) ==
  LET front == Front(text, src, from)
      made == Character(text, Head(src)[1], Other(from))
      width == Width(text[Head(src)[1]], from)
      Stop(why) == [out |-> <<>>, left |-> src, stop |-> why] IN
  IF front = "EILSEQ" /\ discards THEN convert[Tail(src)][room]
  ELSE IF front # "character" THEN Stop(front)
  ELSE IF room < Len(made) THEN Stop("E2BIG")
  ELSE LET rest == convert[SubSeq(src, width + 1, Len(src))][room - Len(made)]
       IN  [out |-> made \o rest.out, left |-> rest.left, stop |-> rest.stop]

Convert(text, src, from, room, discards) ==
  LET convert[s \in Seq(Piece)] ==
        [r \in Nat |-> Turned(text, s, from, r, discards, convert)]
  IN  convert[src][room]
=============================================================================
