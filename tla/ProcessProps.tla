---------------------------- MODULE ProcessProps ----------------------------
(***************************************************************************)
(* What is asked of Processes: each descriptor has one owner, each child   *)
(* its own three pipes and its own status, popen keeps the promises of     *)
(* Channels, and nobody waits for an end that never comes.                 *)
(***************************************************************************)
EXTENDS Processes

(* Between two calls, every descriptor of the script is held by exactly    *)
(* the IO object that was made for it (none is lost, and none is held by   *)
(* an object that could close it a second time), but for the pipes of a    *)
(* popen that threw half way (os-engine.cc:122-126, io-engine.cc:111-139). *)
HoldsOwn(q, s, f) ==
  table[Script][f] = IF q = Script /\ s = "in" THEN Reader(q, s)
                     ELSE IF q = Script \/ s = "in" THEN Writer(q, s) ELSE Reader(q, s)
OneOwner ==
  at = "idle" =>
    /\ \A q \in Process, s \in Stream : io[q][s] # NoFd => HoldsOwn(q, s, io[q][s])
    /\ \A f \in Fd : table[Script][f] # Free =>
         LET e == table[Script][f]
         IN  io[e[1]][e[2]] = f \/ e[1] \in threw

(* A command starts with the ends of its own pipes as 0, 1 and 2, "correct *)
(* endpoints of pipes to stdin, stdout, stderr" (os-engine.cc:145), and    *)
(* with no other descriptor on them.                                       *)
ChildWired ==
  \A c \in Children : proc[c] = "running" =>
    /\ table[c][0] = Reader(c, "in")
    /\ table[c][1] = Writer(c, "out")
    /\ table[c][2] = Writer(c, "err")
    /\ \A f \in Fd \ {0, 1, 2} : table[c][f] # Free => table[c][f][1] # c

(* The first wait() on a Popen object returns the status of its own child, *)
(* unless another object has the same pid, which the kernel may give out   *)
(* again, or one of the two stands for a fork() that failed.               *)
Confusable(c, d) == pid[c] = pid[d] \/ NoPid \in {pid[c], pid[d]}
OwnStatus ==
  \A c \in Children :
    answer[c] \notin {NoAnswer, Status(c)} =>
      pid[c] = NoPid \/ \E d \in Children \ {c} : Confusable(c, d)

(* popen implements Channels: the script and each child are connected by   *)
(* three channels, whatever else is open, closed, inherited or collected.  *)
ChildState == [c \in Children |->
  IF pid[c] = NoPid \/ proc[c] \in {"zombie", "reaped"} THEN "ended"
  ELSE IF proc[c] = "none" THEN "new" ELSE "running"]
NotWritten == {c \in Children : pid[c] # 0 /\ ~Holds(Script, Writer(c, "in"))}

Promise == INSTANCE Channels WITH
  Room <- PipeSize, state <- ChildState, shut <- NotWritten

ImplementsChannels == Promise!Spec

-----------------------------------------------------------------------------
(***************************************************************************)
(* Fairness.  A read returns when the kernel lets it.  A child reads its   *)
(* input and exits when it has seen the end; that is what makes the script *)
(* close the input, and no other child can be relied on to end.            *)
(***************************************************************************)
ExitsAtEnd(c) == told[c]["in"] /\ ChildExits(c)

Fairness ==
  /\ WF_vars(Read)
  /\ \A c \in Children : WF_vars(Exec(c) \/ ChildReads(c) \/ ExitsAtEnd(c))

FairSpec == Spec /\ Fairness

(* When the script has closed the inputs of all children that are running, *)
(* each of them comes to its end: no child keeps another one, or itself,   *)
(* from seeing the end of its input (os-engine.cc:134-153, 168).           *)
InputClosed(c) == ~Holds(Script, Writer(c, "in"))
InputsEnd ==
  \A c \in Children :
    Running(c) /\ (\A d \in Children : Running(d) => InputClosed(d)) ~> ~Running(c)

(* A read of the output of a child that has ended returns, whatever other  *)
(* children are running.                                                   *)
OutputsEnd ==
  \A c \in Children : at = "read" /\ who = c /\ ~Running(c) ~> at # "read"
=============================================================================
