----------------------------- MODULE ProcessMC -----------------------------
(***************************************************************************)
(* Instances of ProcessProps for TLC.                                      *)
(***************************************************************************)
EXTENDS ProcessProps

CONSTANT c1         \* one of the children

(* How much is written to each stream. *)
Bytes(in, out, err) == [s \in Stream |-> CASE s = "in" -> in [] s = "out" -> out [] s = "err" -> err]
Silent == [c \in Children |-> Bytes(0, 0, 0)]
Unlike == [c \in Children |-> IF c = c1 THEN Bytes(1, 2, 0) ELSE Bytes(0, 0, 1)]

(* What a script may close: streams of its children, and of its own. *)
Closes(own, childs) == [q \in Process |-> IF q = Script THEN own ELSE childs]
InAndErr == Closes({"in"}, {"in", "err"})
JustIn == Closes({}, {"in"})
OnlyFirst == [q \in Process |-> IF q = c1 THEN {"in", "out"} ELSE {}]
TwoOfItsOwn == Closes({"in", "out"}, {})

=============================================================================
