----------------------------- MODULE Processes -----------------------------
(***************************************************************************)
(* os-engine.cc and the IO objects of io-engine.cc: one script that starts *)
(* children with popen, talks to them through the three streams of a Popen *)
(* object, waits for them, closes streams and loses objects, which the     *)
(* garbage collector then finalizes.  The script is one thread: while a    *)
(* system call of its blocks, it does nothing else.                        *)
(***************************************************************************)
EXTENDS Descriptors

CONSTANTS
  Pids,            \* the process ids there are
  Closable,        \* the streams a script may close, its own and a child's
  Losable,         \* the objects a script may lose its references to
  MaxBytes,        \* how much may be written to each stream of a child
  Wants            \* how many bytes one read may ask for

ASSUME ProcessesAssumption ==
  /\ Pids \subseteq Nat \ {0}
  /\ Closable \in [Process -> SUBSET Stream] /\ Losable \subseteq Stream \cup {"popen"}
  /\ MaxBytes \in [Children -> [Stream -> Nat]]
  /\ Wants \subseteq Nat \ {0}

Object == Stream \cup {"popen"}
Calls == {"idle", "pipe_out", "pipe_in", "pipe_err", "fork", "close", "wrap",
          "read", "write", "wait", "dead"}

VARIABLES
  at,              \* the call the script is in
  who, which,      \* the Popen object and stream it is about
  want, from,      \* what is left to read, and the descriptor it is read from
  made,            \* the descriptors of the pipes made for each child,
                   \* <<read end, write end>>
  io,              \* the descriptor an IO object holds, NoFd when it is closed
  text,            \* the descriptor a TextInputStream has copied
  alive, lost,     \* the objects of each popen that exist, and those of them
                   \* the script has no reference to any more
  threw,           \* popens that have thrown an exception
  pid,             \* what fork() returned
  proc,            \* "none", "forked", "running", "zombie" or "reaped"
  answer,          \* whose status the first wait() on each object returned
  written, got, told \* for each stream: how many bytes were written, those
                   \* that were read, and whether the reader has seen the end

callVars == <<at, who, which, want, from>>
objectVars == <<made, io, text, alive, lost, threw>>
processVars == <<pid, proc, answer>>
dataVars == <<written, got, told>>
vars == <<kernelVars, callVars, objectVars, processVars, dataVars>>

NoPid == -1
Unknown == <<Script, "unknown">>
Status(c) == <<c, "status">>
NoAnswer == <<Script, "none">>

TypeOK ==
  /\ KernelTypeOK
  /\ at \in Calls /\ who \in Process /\ which \in Stream
  /\ want \in Nat /\ (at = "read" => want > 0) /\ from \in Fd \cup {NoFd}
  /\ made \in [Children -> [Stream -> (Fd \cup {NoFd}) \X (Fd \cup {NoFd})]]
  /\ io \in [Process -> [Stream -> Fd \cup {NoFd}]]
  /\ text \in [Children -> [{"out", "err"} -> Fd \cup {NoFd}]]
  /\ alive \in [Children -> SUBSET Object] /\ lost \in [Children -> SUBSET Object]
  /\ threw \subseteq Children
  /\ pid \in [Children -> Pids \cup {NoPid, 0}]
  /\ proc \in [Children -> {"none", "forked", "running", "zombie", "reaped"}]
  /\ answer \in [Children -> (Process \X {"status"}) \cup {Unknown, NoAnswer}]
  /\ written \in [Children -> [Stream -> Nat]]
  /\ got \in [Children -> [Stream -> Seq(Byte)]]
  /\ told \in [Children -> [Stream -> BOOLEAN]]

Init ==
  /\ KernelInit
  /\ at = "idle" /\ who = Script /\ which = "in" /\ want = 0 /\ from = NoFd
  /\ made = [c \in Children |-> [s \in Stream |-> <<NoFd, NoFd>>]]
  /\ io = [q \in Process |-> [s \in Stream |->
             IF q = Script THEN Standard(s) ELSE NoFd]]
  /\ text = [c \in Children |-> [s \in {"out", "err"} |-> NoFd]]
  /\ alive = [c \in Children |-> {}] /\ lost = [c \in Children |-> {}]
  /\ threw = {}
  /\ pid = [c \in Children |-> 0]
  /\ proc = [c \in Children |-> "none"]
  /\ answer = [c \in Children |-> NoAnswer]
  /\ written = [c \in Children |-> [s \in Stream |-> 0]]
  /\ got = [c \in Children |-> [s \in Stream |-> <<>>]]
  /\ told = [c \in Children |-> [s \in Stream |-> FALSE]]

(* The script is back from a call. *)
Return == at' = "idle" /\ who' = Script /\ which' = "in" /\ want' = 0 /\ from' = NoFd

Running(c) == proc[c] \in {"forked", "running"}
Reachable(c, x) == x \in alive[c] \ lost[c]

-----------------------------------------------------------------------------
(***************************************************************************)
(* popenImpl in the parent.                                                *)
(***************************************************************************)
Unused == {c \in Children : pid[c] = 0 /\ c \notin threw}

Popen ==
  /\ at = "idle" /\ Unused # {}
  /\ at' = "pipe_out" /\ who' = CHOOSE c \in Unused : TRUE
  /\ UNCHANGED <<kernelVars, which, want, from, objectVars, processVars, dataVars>>

(* pipe(outfd), pipe(infd), pipe(errfd), in this order *)
MakePipe(now, s, then) ==
  /\ at = now
  /\ Cardinality(FreeFds(table[Script])) >= 2
  /\ made' = [made EXCEPT ![who][s] = PipeFds(table[Script])]
  /\ table' = [table EXCEPT ![Script] = OpenPipe(@, who, s)]
  /\ at' = then
  /\ UNCHANGED <<pipe, who, which, want, from, io, text, alive, lost, threw,
                 processVars, dataVars>>

Pipes == \/ MakePipe("pipe_out", "out", "pipe_in")
         \/ MakePipe("pipe_in", "in", "pipe_err")
         \/ MakePipe("pipe_err", "err", "fork")

(* pipe() fails: popen throws, and the pipes made so far stay open. *)
PipeFails ==
  /\ at \in {"pipe_out", "pipe_in", "pipe_err"}
  /\ Cardinality(FreeFds(table[Script])) < 2
  /\ Return /\ threw' = threw \cup {who}
  /\ UNCHANGED <<kernelVars, made, io, text, alive,
                 lost, processVars, dataVars>>

PidsInUse == {pid[c] : c \in {d \in Children : proc[d] \in {"forked", "running", "zombie"}}}

Fork ==
  /\ at = "fork" /\ at' = "close"
  /\ \E n \in Pids \ PidsInUse : pid' = [pid EXCEPT ![who] = n]
  /\ proc' = [proc EXCEPT ![who] = "forked"]
  /\ table' = [table EXCEPT ![who] = table[Script]]
  /\ UNCHANGED <<pipe, who, which, want, from, objectVars, answer, dataVars>>

(* fork() returns -1, which popenImpl takes for a child. *)
ForkFails ==
  /\ at = "fork" /\ at' = "close"
  /\ pid' = [pid EXCEPT ![who] = NoPid]
  /\ UNCHANGED <<kernelVars, who, which, want, from, objectVars, proc, answer, dataVars>>

Close3(t, f, g, h) == CloseFd(CloseFd(CloseFd(t, f), g), h)

(* [mutant] The write end of the child's output stays open. *)
ParentTable_KeepsOut(t, m) == CloseFd(CloseFd(t, m["in"][1]), m["err"][2])

ParentTable(t, m) == Close3(t, m["in"][1], m["out"][2], m["err"][2])

CloseOtherEnds ==
  /\ at = "close" /\ at' = "wrap"
  /\ table' = [table EXCEPT ![Script] = ParentTable(@, made[who])]
  /\ UNCHANGED <<pipe, who, which, want, from, objectVars, processVars, dataVars>>

ParentEnds(m) ==
  [s \in Stream |-> IF s = "in" THEN m["in"][2] ELSE m[s][1]]

(* The Popen object, its three IO objects, and in os-engine.js the text    *)
(* streams around them, which copy the descriptor.                         *)
Wrap ==
  /\ at = "wrap" /\ Return
  /\ io' = [io EXCEPT ![who] = ParentEnds(made[who])]
  /\ text' = [text EXCEPT ![who] = [s \in {"out", "err"} |-> io'[who][s]]]
  /\ alive' = [alive EXCEPT ![who] = Object]
  /\ UNCHANGED <<kernelVars, made, lost, threw, processVars, dataVars>>

-----------------------------------------------------------------------------
(***************************************************************************)
(* popenImpl in the child, up to execv().                                  *)
(***************************************************************************)

CloseOthers(t, m) == Close3(t, m["in"][2], m["out"][1], m["err"][1])
CloseOriginals(t, m) == Close3(t, m["in"][1], m["out"][2], m["err"][2])
Dup3(t, in, out, err) == Dup2(Dup2(Dup2(t, in, 0), out, 1), err, 2)

(* [mutants] close(infd[1]) is missing; 0, 1 and 2 are closed only after   *)
(* the dup2() calls; 1 and 2 are mixed up.                                 *)
ChildTable_KeepsIn(t, m) ==
  LET closed == Close3(CloseFd(CloseFd(t, m["out"][1]), m["err"][1]), 0, 1, 2)
  IN  CloseOriginals(Dup3(closed, m["in"][1], m["out"][2], m["err"][2]), m)
ChildTable_CloseLate(t, m) ==
  LET dupped == Dup3(CloseOthers(t, m), m["in"][1], m["out"][2], m["err"][2])
  IN  CloseOriginals(Close3(dupped, 0, 1, 2), m)
ChildTable_Mixed(t, m) ==
  LET closed == Close3(CloseOthers(t, m), 0, 1, 2)
  IN  CloseOriginals(Dup3(closed, m["in"][1], m["err"][2], m["out"][2]), m)

ChildTable(t, m) ==
  LET closed == Close3(CloseOthers(t, m), 0, 1, 2)
  IN  CloseOriginals(Dup3(closed, m["in"][1], m["out"][2], m["err"][2]), m)

Exec(c) ==
  /\ proc[c] = "forked"
  /\ proc' = [proc EXCEPT ![c] = "running"]
  /\ table' = [table EXCEPT ![c] = ChildTable(@, made[c])]
  /\ UNCHANGED <<pipe, callVars, objectVars, pid, answer, dataVars>>

(***************************************************************************)
(* The command, which is any program: it may write to 1 and 2, read from   *)
(* 0, and exit.                                                            *)
(***************************************************************************)
Exit(c) ==
  /\ proc' = [proc EXCEPT ![c] = "zombie"]
  /\ table' = [table EXCEPT ![c] = NoTable]

ChildExits(c) ==
  /\ proc[c] = "running"
  /\ Exit(c)
  /\ UNCHANGED <<pipe, callVars, objectVars, pid, answer, dataVars>>

ChildWrites(c, s) ==
  LET e == table[c][Standard(s)]
  IN  /\ proc[c] = "running" /\ written[c][s] < MaxBytes[c][s]
      /\ IsPipe(e, "w")
      /\ \/ /\ ~Broken(e) /\ HasRoom(e)
            /\ written' = [written EXCEPT ![c][s] = @ + 1]
            /\ Put(e, <<c, s, written[c][s] + 1>>)
            /\ UNCHANGED <<table, proc>>
         \/ /\ Broken(e) /\ Exit(c)   \* SIGPIPE
            /\ UNCHANGED <<pipe, written>>
      /\ UNCHANGED <<callVars, objectVars, pid, answer, got, told>>

ChildReads(c) ==
  LET e == table[c][0]
  IN  /\ proc[c] = "running" /\ IsPipe(e, "r") /\ ~told[c]["in"]
      /\ \/ /\ HasBytes(e) /\ Take(e)
            /\ got' = [got EXCEPT ![c]["in"] = Append(@, Head(pipe[PipeOf(e)]))]
            /\ UNCHANGED told
         \/ /\ AtEnd(e)
            /\ told' = [told EXCEPT ![c]["in"] = TRUE]
            /\ UNCHANGED <<pipe, got>>
      /\ UNCHANGED <<table, callVars, objectVars, processVars, written>>

-----------------------------------------------------------------------------
(***************************************************************************)
(* The streams of a Popen object.                                          *)
(***************************************************************************)

(* IO_readInto, on the raw stream, or a read of the text stream around it. *)
(* A script does not read a text stream that it has closed.                *)
BeginRead(c, s) ==
  /\ at = "idle" /\ s \in {"out", "err"} /\ Reachable(c, s) /\ io[c][s] # NoFd
  /\ at' = "read" /\ who' = c /\ which' = s
  /\ want' \in Wants /\ from' \in {io[c][s], text[c][s]}
  /\ UNCHANGED <<kernelVars, objectVars, processVars, dataVars>>

(* [mutant] The loop does not count what it has read. *)
ReadByte_ToEnd(e) ==
  /\ HasBytes(e) /\ Take(e)
  /\ got' = [got EXCEPT ![who][which] = Append(@, Head(pipe[PipeOf(e)]))]
  /\ want' = want - 1
  /\ UNCHANGED <<at, who, which, from, told>>

ReadByte(e) ==
  /\ HasBytes(e) /\ Take(e)
  /\ got' = [got EXCEPT ![who][which] = Append(@, Head(pipe[PipeOf(e)]))]
  /\ IF want = 1 THEN Return ELSE want' = want - 1 /\ UNCHANGED <<at, who, which, from>>
  /\ UNCHANGED told

ReadEnd(e) ==
  /\ AtEnd(e)
  /\ told' = [told EXCEPT ![who][which] = TRUE]
  /\ Return
  /\ UNCHANGED <<pipe, got>>

Read ==
  LET e == table[Script][from]
  IN  /\ at = "read" /\ IsPipe(e, "r")
      /\ ReadByte(e) \/ ReadEnd(e)
      /\ UNCHANGED <<table, objectVars, processVars, written>>

BeginWrite(c) ==
  /\ at = "idle" /\ Reachable(c, "in") /\ io[c]["in"] # NoFd
  /\ written[c]["in"] < MaxBytes[c]["in"]
  /\ at' = "write" /\ who' = c /\ which' = "in" /\ from' = io[c]["in"]
  /\ UNCHANGED <<kernelVars, want, objectVars, processVars, dataVars>>

(* IO_writeInto: a byte is written as soon as it fits. *)
Write ==
  LET e == table[Script][from]
  IN  /\ at = "write" /\ IsPipe(e, "w") /\ ~Broken(e) /\ HasRoom(e)
      /\ Put(e, <<who, "in", written[who]["in"] + 1>>)
      /\ written' = [written EXCEPT ![who]["in"] = @ + 1]
      /\ Return
      /\ UNCHANGED <<table, objectVars, processVars, got, told>>

(* SIGPIPE ends the script: nothing in os-engine.cc or io-engine.cc        *)
(* handles it.                                                             *)
WriteKills ==
  LET e == table[Script][from]
  IN  /\ at = "write" /\ IsPipe(e, "w") /\ Broken(e)
      /\ at' = "dead"
      /\ table' = [table EXCEPT ![Script] = NoTable]
      /\ UNCHANGED <<pipe, who, which, want, from, objectVars, processVars, dataVars>>

(* [mutant] The descriptor is not forgotten. *)
Forget_Not(q, s) == io' = io
Forget(q, s) == io' = [io EXCEPT ![q][s] = NoFd]

(* IO_close, on a stream of a Popen object or one of the script's own *)
CanClose(q, s) == s \in Closable[q] /\ (q # Script => Reachable(q, s))
Close(q, s) ==
  /\ at = "idle" /\ CanClose(q, s)
  /\ table' = [table EXCEPT ![Script] = CloseFd(@, io[q][s])]
  /\ Forget(q, s)
  /\ UNCHANGED <<pipe, callVars, made, text, alive, lost, threw, processVars, dataVars>>

-----------------------------------------------------------------------------
(***************************************************************************)
(* wait(), and the garbage collector.                                      *)
(***************************************************************************)
BeginWait(c) ==
  /\ at = "idle" /\ Reachable(c, "popen")
  /\ at' = "wait" /\ who' = c
  /\ UNCHANGED <<kernelVars, which, want, from, objectVars, processVars, dataVars>>

(* [mutant] waitpid(-1, ...) *)
Waited_Any(n) == {d \in Children : proc[d] \in {"forked", "running", "zombie"}}

(* The children waitpid(n, ...) is about. *)
Waited(n) == {d \in Children : /\ proc[d] \in {"forked", "running", "zombie"}
                               /\ n \in {pid[d], NoPid}}

Answered(c, a) == answer' = IF answer[c] = NoAnswer THEN [answer EXCEPT ![c] = a] ELSE answer

Wait ==
  /\ at = "wait" /\ Return
  /\ \E d \in Waited(pid[who]) :
       /\ proc[d] = "zombie"
       /\ proc' = [proc EXCEPT ![d] = "reaped"]
       /\ Answered(who, Status(d))
  /\ UNCHANGED <<kernelVars, objectVars, pid, dataVars>>

(* waitpid() returns -1, and the status that is read was never set. *)
WaitFails ==
  /\ at = "wait" /\ Return
  /\ Waited(pid[who]) = {}
  /\ Answered(who, Unknown)
  /\ UNCHANGED <<kernelVars, objectVars, pid, proc, dataVars>>

(* The script loses its reference to an object; the Popen object refers to *)
(* its streams.                                                            *)
Lose(c, x) ==
  /\ at = "idle" /\ x \in Losable /\ Reachable(c, x)
  /\ x # "popen" => ~Reachable(c, "popen")
  /\ lost' = [lost EXCEPT ![c] = @ \cup {x}]
  /\ UNCHANGED <<kernelVars, callVars, made, io, text, alive, threw, processVars, dataVars>>

(* Objects are made, and so the collector may run, between two calls and   *)
(* while popenImpl makes its objects.                                      *)
MayCollect(c, x) == at \in {"idle", "wrap"} /\ x \in alive[c] \cap lost[c]

(* IO_finalize *)
FinalizeIO(c, s) ==
  /\ MayCollect(c, s)
  /\ table' = [table EXCEPT ![Script] = CloseFd(@, io[c][s])]
  /\ alive' = [alive EXCEPT ![c] = @ \ {s}]
  /\ io' = [io EXCEPT ![c][s] = NoFd]
  /\ UNCHANGED <<pipe, callVars, made, text, lost, threw, processVars, dataVars>>

(* Popen_finalize: waitpid() that does not block *)
FinalizePopen(c) ==
  /\ MayCollect(c, "popen")
  /\ alive' = [alive EXCEPT ![c] = @ \ {"popen"}]
  /\ IF \E d \in Waited(pid[c]) : proc[d] = "zombie"
       THEN \E d \in Waited(pid[c]) : /\ proc[d] = "zombie"
                                      /\ proc' = [proc EXCEPT ![d] = "reaped"]
       ELSE UNCHANGED proc
  /\ UNCHANGED <<kernelVars, callVars, made, io, text, lost, threw, pid, answer, dataVars>>

-----------------------------------------------------------------------------
(* What goes on by itself once the script has started a call. *)
CallGoesOn == \/ Pipes \/ PipeFails \/ Fork \/ ForkFails \/ CloseOtherEnds \/ Wrap
              \/ Read \/ Write \/ WriteKills \/ Wait \/ WaitFails

ScriptNext ==
  \/ CallGoesOn \/ Popen
  \/ \E c \in Children :
       \/ BeginWrite(c) \/ BeginWait(c) \/ FinalizePopen(c)
       \/ \E s \in Stream : BeginRead(c, s) \/ FinalizeIO(c, s)
       \/ \E x \in Object : Lose(c, x)
  \/ \E q \in Process, s \in Stream : Close(q, s)

ChildNext(c) == \/ Exec(c) \/ ChildExits(c) \/ ChildReads(c)
                \/ \E s \in {"out", "err"} : ChildWrites(c, s)

Next == ScriptNext \/ \E c \in Children : ChildNext(c)
Spec == Init /\ [][Next]_vars
=============================================================================
