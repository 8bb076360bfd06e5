----------------------------- MODULE DecodingMC -----------------------------
(***************************************************************************)
(* Instances of Decoding for TLC.                                          *)
(***************************************************************************)
EXTENDS Decoding

Texts(heads, k) == {Append(s, last) : s \in [1..(k - 1) -> heads], last \in Kinds}

ShortTexts ==
  Texts(Legal, 1) \cup Texts((Legal \cup {"bad"}) \ {"ascii"}, 2)

(* Longer than inBuffer, with a line end in the middle. *)
LongTexts == {<<"accent", "newline", "ascii", "accent">>,
              <<"ascii", "bad", "newline", "newline", "ascii">>,
              <<"newline", "astral", "ascii", "astral">>}

BinaryTexts == {<<"accent", "ascii">>, <<"ascii", "bad", "cut">>}

TextsByWriter ==
  [w \in Writers |-> CASE w = "copy" -> {<<>>} \cup ShortTexts \cup LongTexts
                       [] w = "string" -> ShortTexts
                       [] OTHER -> BinaryTexts]
=============================================================================
