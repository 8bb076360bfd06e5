------------------------------ MODULE Channels ------------------------------
(***************************************************************************)
(* What popen promises, whatever descriptors, tables and copies of them    *)
(* are behind it: each child is connected with the script by three         *)
(* channels of its own.  A channel hands on every byte once and in order;  *)
(* its reader is told of the end only when the writer is through and       *)
(* everything that was written has been read; and a channel never holds    *)
(* more than Room bytes.                                                   *)
(***************************************************************************)
EXTENDS Integers, Sequences

CONSTANTS Children, Room

Stream == {"in", "out", "err"}

VARIABLES
  state,           \* of each child: "new", "running" or "ended"
  shut,            \* the streams the script does not write to any more
  written,         \* how many bytes were written to each channel
  got,             \* the bytes its reader has got
  told             \* whether the reader was told of the end

vars == <<state, shut, written, got, told>>

Init ==
  /\ state = [c \in Children |-> "new"]
  /\ shut = {}
  /\ written = [c \in Children |-> [s \in Stream |-> 0]]
  /\ got = [c \in Children |-> [s \in Stream |-> <<>>]]
  /\ told = [c \in Children |-> [s \in Stream |-> FALSE]]

Start(c) ==
  /\ state[c] = "new"
  /\ state' = [state EXCEPT ![c] = "running"]
  /\ UNCHANGED <<shut, written, got, told>>

(* A child ends, or was never started. *)
End(c) ==
  /\ state[c] # "ended"
  /\ state' = [state EXCEPT ![c] = "ended"]
  /\ UNCHANGED <<shut, written, got, told>>

Shut(S) ==
  /\ shut' = shut \cup S
  /\ UNCHANGED <<state, written, got, told>>

Writing(c, s) == IF s = "in" THEN c \notin shut ELSE state[c] = "running"

Write(c, s) ==
  /\ Writing(c, s)
  /\ written[c][s] - Len(got[c][s]) < Room
  /\ written' = [written EXCEPT ![c][s] = @ + 1]
  /\ UNCHANGED <<state, shut, got, told>>

Read(c, s) ==
  /\ Len(got[c][s]) < written[c][s]
  /\ ~told[c][s]
  /\ s = "in" => state[c] = "running"
  /\ got' = [got EXCEPT ![c][s] = Append(@, <<c, s, Len(@) + 1>>)]
  /\ UNCHANGED <<state, shut, written, told>>

Tell(c, s) ==
  /\ Len(got[c][s]) = written[c][s] /\ ~Writing(c, s)
  /\ s # "in" => state[c] # "new"
  /\ told' = [told EXCEPT ![c][s] = TRUE]
  /\ UNCHANGED <<state, shut, written, got>>

Next == \/ \E c \in Children : \/ Start(c) \/ End(c)
                               \/ \E s \in Stream : Write(c, s) \/ Read(c, s) \/ Tell(c, s)
        \/ \E S \in SUBSET Children : Shut(S)

Spec == Init /\ [][Next]_vars
=============================================================================
