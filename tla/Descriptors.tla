---------------------------- MODULE Descriptors ----------------------------
(***************************************************************************)
(* What the kernel does for os-engine.cc and io-engine.cc: each process    *)
(* has a table of descriptors, a new descriptor is the lowest free one, a  *)
(* child starts with a copy of its parent's table, and a pipe tells its    *)
(* reader of the end only when no process holds a descriptor to write to   *)
(* it.  None of it is in the repository.                                   *)
(***************************************************************************)
EXTENDS Integers, Sequences, FiniteSets

CONSTANTS
  Script,          \* the process that runs narwhal
  Children,        \* the processes it may start, and their Popen objects
  MaxFd,           \* the highest descriptor a process may have
  PipeSize         \* how many bytes fit into a pipe

ASSUME DescriptorsAssumption ==
  /\ Script \notin Children
  /\ MaxFd \in Nat /\ MaxFd >= 2
  /\ PipeSize \in Nat \ {0}

Process == Children \cup {Script}
Stream == {"in", "out", "err"}
Fd == 0 .. MaxFd
NoFd == -1

(* What a descriptor is open on: an end of one of the three pipes of a     *)
(* child, or a stream the script was started with, which has its name.     *)
End == Process \X Stream \X {"r", "w"}
Free == <<Script, "none", "none">>
Reader(c, s) == <<c, s, "r">>
Writer(c, s) == <<c, s, "w">>
Table == [Fd -> End \cup {Free}]

Standard(s) == CASE s = "in" -> 0 [] s = "out" -> 1 [] s = "err" -> 2
StartTable == [f \in Fd |-> CASE f = 0 -> Reader(Script, "in")
                              [] f = 1 -> Writer(Script, "out")
                              [] f = 2 -> Writer(Script, "err")
                              [] OTHER -> Free]
NoTable == [f \in Fd |-> Free]

(* close(2), dup2(2) and pipe(2) on the table t of the calling process.    *)
FreeFds(t) == {f \in Fd : t[f] = Free}
Lowest(S) == CHOOSE f \in S : \A g \in S : f <= g
CloseFd(t, f) == IF f \in Fd THEN [t EXCEPT ![f] = Free] ELSE t
Dup2(t, from, to) == IF t[from] = Free THEN t ELSE [t EXCEPT ![to] = t[from]]

PipeFds(t) == LET r == Lowest(FreeFds(t))
              IN  <<r, Lowest(FreeFds(t) \ {r})>>
OpenPipe(t, c, s) == [t EXCEPT ![PipeFds(t)[1]] = Reader(c, s),
                               ![PipeFds(t)[2]] = Writer(c, s)]

VARIABLES
  table,           \* the descriptors of each process
  pipe             \* the bytes in each pipe

kernelVars == <<table, pipe>>

Byte == Process \X Stream \X Nat

KernelTypeOK ==
  /\ table \in [Process -> Table]
  /\ pipe \in [Children \X Stream -> Seq(Byte)]
  /\ \A q \in Children \X Stream : Len(pipe[q]) <= PipeSize

KernelInit ==
  /\ table = [q \in Process |-> IF q = Script THEN StartTable ELSE NoTable]
  /\ pipe = [q \in Children \X Stream |-> <<>>]

Holds(q, e) == \E f \in Fd : table[q][f] = e
Open(e) == \E q \in Process : Holds(q, e)

(* What read(2) and write(2) on an open end of a pipe can do. *)
PipeOf(e) == <<e[1], e[2]>>
HasBytes(e) == pipe[PipeOf(e)] # <<>>
AtEnd(e) == ~HasBytes(e) /\ ~Open(Writer(e[1], e[2]))
HasRoom(e) == Len(pipe[PipeOf(e)]) < PipeSize
Broken(e) == ~Open(Reader(e[1], e[2]))
Take(e) == pipe' = [pipe EXCEPT ![PipeOf(e)] = Tail(@)]
Put(e, b) == pipe' = [pipe EXCEPT ![PipeOf(e)] = Append(@, b)]
IsPipe(e, mode) == e[1] \in Children /\ e[3] = mode
=============================================================================
