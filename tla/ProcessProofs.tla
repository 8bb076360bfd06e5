---------------------------- MODULE ProcessProofs ----------------------------
(***************************************************************************)
(* Proofs about Processes, for any number of children, descriptors and     *)
(* bytes: TypeOK, OneOwner, OwnStatus, and, for a script that closes at    *)
(* most one of its own streams, ChildWired and that popen implements       *)
(* Channels.                                                               *)
(***************************************************************************)
EXTENDS ProcessProps, FiniteSetTheorems, WellFoundedInduction, SequenceTheorems, TLAPS

(* popenImpl is between its first line and its last. *)
Making == {"pipe_out", "pipe_in", "pipe_err", "fork", "close", "wrap"}

(* A call is about a child; a read or write is from a descriptor that its  *)
(* stream holds.                                                           *)
CallInv ==
  /\ at \in Making \cup {"read", "write", "wait"} => who \in Children
  /\ at = "read" => which \in {"out", "err"} /\ from = io[who][which] /\ from \in Fd
  /\ at = "write" => which = "in" /\ from = io[who]["in"] /\ from \in Fd

(* The pipes popenImpl has made. *)
MadeStreams ==
  {s \in Stream : \/ at \in {"fork", "close", "wrap"}
                  \/ s = "out" /\ at \in {"pipe_in", "pipe_err"}
                  \/ s = "in" /\ at = "pipe_err"}

(* A stream that is open exists, and the text stream around it has copied  *)
(* its descriptor.  There are no objects before popenImpl has made them,   *)
(* and none after it has thrown.                                           *)
ObjectsOf(c) ==
  /\ \A s \in Stream : io[c][s] # NoFd => s \in alive[c]
  /\ \A s \in {"out", "err"} : io[c][s] # NoFd => text[c][s] = io[c][s]
  /\ pid[c] = 0 => alive[c] = {} /\ proc[c] = "none"
  /\ c \in threw => pid[c] = 0
  /\ at \in Making /\ who = c =>
       /\ alive[c] = {} /\ c \notin threw /\ (pid[c] # 0 <=> at \in {"close", "wrap"})
       /\ \A s \in MadeStreams : made[c][s] \in Fd \X Fd
  /\ proc[c] = "forked" => \A s \in Stream : made[c][s] \in Fd \X Fd
ObjectInv == \A c \in Children : ObjectsOf(c)

(* Where the script has an end: while popenImpl runs, where pipe() has put *)
(* it, if it has and it was not closed again; otherwise, in the IO object  *)
(* it was made for.                                                        *)
OwnMode(q, s) == IF (q = Script) <=> (s = "in") THEN "r" ELSE "w"
Place(m, s, mode) == IF mode = "r" THEN m[s][1] ELSE m[s][2]
Home(e) ==
  IF at \in Making /\ e[1] = who
  THEN IF e[2] \in MadeStreams /\ (at = "wrap" => e[3] = OwnMode(e[1], e[2]))
       THEN Place(made[who], e[2], e[3]) ELSE NoFd
  ELSE IF e[3] = OwnMode(e[1], e[2]) THEN io[e[1]][e[2]] ELSE NoFd

TableInv ==
  at # "dead" =>
    \A e \in End, f \in Fd : e[1] \notin threw => (table[Script][f] = e <=> Home(e) = f)

ProcessInv == TypeOK /\ CallInv /\ ObjectInv /\ TableInv

(* A child that has not come to execv() has both ends of each of its own   *)
(* pipes, each once, and the three it is to keep are not 0, 1 or 2.        *)
ForkInv ==
  \A c \in Children : proc[c] = "forked" =>
    /\ \A e \in End, f \in Fd :
         e[1] = c => (table[c][f] = e <=> f = Place(made[c], e[2], e[3]))
    /\ made[c]["in"][1] >= 3 /\ made[c]["out"][2] >= 3 /\ made[c]["err"][2] >= 3

(* If own is the only stream of its own that the script may close, at most *)
(* one of 0, 1 and 2 is not taken by them, and the first pipe takes it for *)
(* its read end, which the child closes.                                   *)
LowInv(own) ==
  at # "dead" =>
    /\ \A s \in Stream \ {own} : io[Script][s] = Standard(s)
    /\ at = "pipe_in" => \A f \in 0..2 : table[Script][f] # Free
    /\ at \in {"pipe_in", "pipe_err", "fork"} => made[who]["out"][2] >= 3
    /\ at \in {"pipe_err", "fork"} => made[who]["in"][1] >= 3
    /\ at = "fork" => made[who]["err"][2] >= 3

(* The wiring of children is right, and stays right. *)
WiredInv(own) == ForkInv /\ LowInv(own) /\ ChildWired

(* Another object may take the status of this child, or the Popen object   *)
(* is not there any more.                                                  *)
Alike(c) == \E d \in Children \ {c} : Confusable(c, d)
Gone(c) == "popen" \notin alive[c] /\ ~(at \in Making /\ who = c)

(* The kernel knows every child that was forked; one that was waited for   *)
(* has given its status to its own object, unless that is gone or another  *)
(* object stands for the same pid.                                         *)
StatusOf(c) ==
  /\ pid[c] \in {0, NoPid} <=> proc[c] = "none"
  /\ answer[c] # NoAnswer => pid[c] # 0
  /\ proc[c] = "reaped" => answer[c] # NoAnswer \/ Gone(c) \/ Alike(c)
  /\ answer[c] \notin {NoAnswer, Status(c)} => pid[c] = NoPid \/ Alike(c)
StatusInv ==
  /\ at = "wait" => "popen" \in alive[who]
  /\ \A c \in Children : StatusOf(c)

-----------------------------------------------------------------------------
(***************************************************************************)
(* Descriptor tables.                                                      *)
(***************************************************************************)
Less == {pair \in Nat \X Nat : pair[1] < pair[2]}

(* A set of numbers has a least element. *)
LEMMA LowestIs ==
  ASSUME NEW S \in SUBSET Nat, S # {}
  PROVE  Lowest(S) \in S /\ \A g \in S : Lowest(S) <= g
<1>1. IsWellFoundedOn(Less, Nat)
  BY NatLessThanWellFounded, Zenon DEF OpToRel, Less
<1>2. PICK s \in S : \A g \in S : <<g, s>> \notin Less
  BY <1>1, WFMin
<1>3. ASSUME NEW g \in S PROVE s <= g
  <2>1. s \in Nat /\ g \in Nat /\ <<g, s>> \notin Less
    BY <1>2
  <2>2. ~(g < s)
    BY <2>1, Zenon DEF Less
  <2> QED
    BY <2>1, <2>2
<1>4. \E f \in S : \A g \in S : f <= g
  BY <1>3
<1> QED
  BY <1>4, Zenon DEF Lowest

LEMMA FreeIsNoEnd == Free \notin End
BY DEF Free, End, Stream

(* close() *)
LEMMA CloseFdIs ==
  ASSUME NEW t \in Table, NEW f
  PROVE  /\ CloseFd(t, f) \in Table
         /\ \A g \in Fd : CloseFd(t, f)[g] = IF g = f THEN Free ELSE t[g]
BY DEF CloseFd, Table

(* dup2() of an open descriptor *)
LEMMA Dup2Is ==
  ASSUME NEW t \in Table, NEW f \in Fd, NEW h \in Fd, t[f] # Free
  PROVE  /\ Dup2(t, f, h) \in Table
         /\ \A g \in Fd : Dup2(t, f, h)[g] = IF g = h THEN t[f] ELSE t[g]
BY DEF Dup2, Table

(* pipe() gives the two lowest that are free, the read end first. *)
LEMMA PipeFdsAre ==
  ASSUME NEW t \in Table, Cardinality(FreeFds(t)) >= 2
  PROVE  LET r == PipeFds(t)[1]
             w == PipeFds(t)[2] IN
         /\ r \in Fd /\ w \in Fd /\ r < w /\ t[r] = Free /\ t[w] = Free
         /\ \A g \in Fd : t[g] = Free => r <= g
<1> DEFINE S == FreeFds(t)
           r == Lowest(S)
           w == Lowest(S \ {r})
<1>1. S \subseteq Nat /\ S \subseteq Fd
  BY DescriptorsAssumption DEF FreeFds, Fd
<1>2. IsFiniteSet(S)
  <2>1. IsFiniteSet(Fd)
    BY DescriptorsAssumption, FS_Interval DEF Fd
  <2> QED
    BY <1>1, <2>1, FS_Subset
<1>3. S # {}
  BY <1>2, FS_EmptySet
<1>4. r \in S /\ \A g \in S : r <= g
  BY <1>1, <1>3, LowestIs
<1>5. S \ {r} # {}
  <2>1. Cardinality(S \ {r}) = Cardinality(S) - 1 /\ Cardinality(S) \in Nat
    BY <1>2, <1>4, FS_RemoveElement, FS_CardinalityType
  <2> QED
    BY <2>1, FS_EmptySet
<1>6. w \in S \ {r}
  BY <1>1, <1>5, LowestIs
<1>7. PipeFds(t)[1] = r /\ PipeFds(t)[2] = w
  BY DEF PipeFds
<1>8. r < w
  BY <1>1, <1>4, <1>6
<1> QED
  BY <1>1, <1>4, <1>6, <1>7, <1>8 DEF FreeFds

LEMMA OpenPipeIs ==
  ASSUME NEW t \in Table, Cardinality(FreeFds(t)) >= 2, NEW c \in Process, NEW s \in Stream
  PROVE  /\ OpenPipe(t, c, s) \in Table
         /\ \A g \in Fd : OpenPipe(t, c, s)[g] = IF g = PipeFds(t)[1] THEN Reader(c, s)
                                                 ELSE IF g = PipeFds(t)[2] THEN Writer(c, s)
                                                 ELSE t[g]
<1>1. PipeFds(t)[1] \in Fd /\ PipeFds(t)[2] \in Fd /\ PipeFds(t)[1] < PipeFds(t)[2]
  BY PipeFdsAre
<1>2. Reader(c, s) \in End /\ Writer(c, s) \in End
  BY DEF Reader, Writer, End
<1>3. PipeFds(t)[1] # PipeFds(t)[2]
  BY <1>1 DEF Fd
<1> QED
  BY <1>1, <1>2, <1>3 DEF OpenPipe, Table

(* What is done to three descriptors is done to each. *)
LEMMA Close3Is ==
  ASSUME NEW t \in Table, NEW f, NEW g, NEW h
  PROVE  /\ Close3(t, f, g, h) \in Table
         /\ \A x \in Fd : Close3(t, f, g, h)[x] = IF x \in {f, g, h} THEN Free ELSE t[x]
<1> DEFINE t1 == CloseFd(t, f)
           t2 == CloseFd(t1, g)
<1>1. t1 \in Table /\ \A x \in Fd : t1[x] = IF x = f THEN Free ELSE t[x]
  BY CloseFdIs
<1> HIDE DEF t1
<1>2. t2 \in Table /\ \A x \in Fd : t2[x] = IF x = g THEN Free ELSE t1[x]
  BY <1>1, CloseFdIs
<1> HIDE DEF t2
<1>3. /\ CloseFd(t2, h) \in Table
      /\ \A x \in Fd : CloseFd(t2, h)[x] = IF x = h THEN Free ELSE t2[x]
  BY <1>2, CloseFdIs
<1>4. Close3(t, f, g, h) = CloseFd(t2, h)
  BY DEF Close3, t1, t2
<1> QED
  BY <1>1, <1>2, <1>3, <1>4

-----------------------------------------------------------------------------
(***************************************************************************)
(* The initial state.                                                      *)
(***************************************************************************)
LEMMA InitProcessInv == Init => ProcessInv
<1> SUFFICES ASSUME Init PROVE ProcessInv
  OBVIOUS
<1> USE DEF Init
<1>1. StartTable \in Table /\ NoTable \in Table
  BY DEF StartTable, NoTable, Table, Reader, Writer, End, Process, Stream
<1>2. KernelTypeOK
  <2>1. table \in [Process -> Table]
    BY <1>1 DEF KernelInit
  <2>2. <<>> \in Seq(Byte) /\ Len(<<>>) <= PipeSize
    BY DescriptorsAssumption
  <2> QED
    BY <2>1, <2>2 DEF KernelInit, KernelTypeOK
<1>3. \A s \in Stream : Standard(s) \in Fd
  BY DescriptorsAssumption DEF Standard, Stream, Fd
<1>4. TypeOK
  <2>1. at \in Calls /\ who \in Process /\ which \in Stream /\ want \in Nat /\ at # "read"
        /\ from \in Fd \cup {NoFd}
    BY DEF Calls, Process, Stream
  <2>2. io \in [Process -> [Stream -> Fd \cup {NoFd}]]
    BY <1>3
  <2>3. got \in [Children -> [Stream -> Seq(Byte)]]
    OBVIOUS
  <2> QED
    BY <1>2, <2>1, <2>2, <2>3 DEF TypeOK
<1>5. CallInv /\ at \notin Making
  BY DEF CallInv, Making
<1>6. ObjectInv
  <2>1. ASSUME NEW c \in Children
        PROVE  /\ \A s \in Stream : io[c][s] = NoFd
               /\ alive[c] = {} /\ pid[c] = 0 /\ proc[c] = "none"
    <3>1. c # Script /\ c \in Process
      BY DescriptorsAssumption DEF Process
    <3> QED
      BY <3>1
  <2>2. {"out", "err"} \subseteq Stream /\ threw = {}
    BY DEF Stream
  <2> QED
    BY ZenonT(40), <1>5, <2>1, <2>2 DEF ObjectInv, ObjectsOf
<1>7. TableInv
  <2>1. table[Script] = StartTable
    BY DEF KernelInit, Process
  <2> SUFFICES ASSUME NEW e \in End, NEW f \in Fd
               PROVE  table[Script][f] = e <=> Home(e) = f
    BY DEF TableInv
  <2>2. Home(e) = IF e[3] = OwnMode(e[1], e[2]) THEN io[e[1]][e[2]] ELSE NoFd
    BY <1>5 DEF Home
  <2>3. f # NoFd
    BY DescriptorsAssumption DEF NoFd, Fd
  <2>4. PICK q \in Process, s \in Stream, mode \in {"r", "w"} : e = <<q, s, mode>>
    BY DEF End
  <2>5. CASE q = Script
    BY <2>1, <2>2, <2>3, <2>4, <2>5
       DEF StartTable, Reader, Writer, OwnMode, Standard, Stream, Free, Process
  <2>6. CASE q # Script
    BY <2>1, <2>2, <2>3, <2>4, <2>6
       DEF StartTable, Reader, Writer, Free
  <2> QED
    BY <2>5, <2>6
<1> QED
  BY <1>4, <1>5, <1>6, <1>7 DEF ProcessInv

-----------------------------------------------------------------------------
(***************************************************************************)
(* Types.                                                                  *)
(***************************************************************************)

(* A byte that is put into a pipe, or taken from it. *)
LEMMA PutType ==
  ASSUME KernelTypeOK, NEW e \in End, NEW b \in Byte, HasRoom(e), Put(e, b), UNCHANGED table
  PROVE  KernelTypeOK'
<1>1. ASSUME NEW q \in Children \X Stream
      PROVE  pipe'[q] \in Seq(Byte) /\ Len(pipe'[q]) <= PipeSize
  <2>1. pipe[q] \in Seq(Byte) /\ Len(pipe[q]) <= PipeSize /\ PipeSize \in Nat
    BY DescriptorsAssumption DEF KernelTypeOK
  <2>2. CASE q = PipeOf(e)
    <3>1. pipe'[q] = Append(pipe[q], b) /\ Len(pipe[q]) < PipeSize
      BY <2>2 DEF Put, HasRoom, KernelTypeOK
    <3>2. Append(pipe[q], b) \in Seq(Byte) /\ Len(Append(pipe[q], b)) = Len(pipe[q]) + 1
      BY <2>1, AppendProperties
    <3> QED
      BY <2>1, <3>1, <3>2
  <2>3. CASE q # PipeOf(e)
    BY <2>1, <2>3 DEF Put, KernelTypeOK
  <2> QED
    BY <2>2, <2>3
<1>2. pipe' \in [Children \X Stream -> Seq(Byte)]
  <2>1. pipe' = [q \in Children \X Stream |-> pipe'[q]]
    BY DEF Put, KernelTypeOK
  <2> QED
    BY <1>1, <2>1
<1> QED
  BY <1>1, <1>2 DEF KernelTypeOK

LEMMA TakeType ==
  ASSUME KernelTypeOK, NEW e \in End, e[1] \in Children, HasBytes(e), Take(e), UNCHANGED table
  PROVE  KernelTypeOK' /\ Head(pipe[PipeOf(e)]) \in Byte
<1>1. PipeOf(e) \in Children \X Stream
  BY DEF PipeOf, End
<1>2. pipe[PipeOf(e)] \in Seq(Byte) /\ pipe[PipeOf(e)] # <<>>
  BY <1>1 DEF KernelTypeOK, HasBytes
<1>3. /\ Head(pipe[PipeOf(e)]) \in Byte
      /\ Tail(pipe[PipeOf(e)]) \in Seq(Byte)
      /\ Len(Tail(pipe[PipeOf(e)])) = Len(pipe[PipeOf(e)]) - 1
  BY <1>2, HeadTailProperties
<1>4. ASSUME NEW q \in Children \X Stream
      PROVE  pipe'[q] \in Seq(Byte) /\ Len(pipe'[q]) <= PipeSize
  <2>1. pipe[q] \in Seq(Byte) /\ Len(pipe[q]) <= PipeSize /\ PipeSize \in Nat
    BY DescriptorsAssumption DEF KernelTypeOK
  <2>2. pipe'[q] = IF q = PipeOf(e) THEN Tail(pipe[q]) ELSE pipe[q]
    BY DEF Take, KernelTypeOK
  <2> QED
    BY <1>3, <2>1, <2>2
<1>5. pipe' \in [Children \X Stream -> Seq(Byte)]
  <2>1. pipe' = [q \in Children \X Stream |-> pipe'[q]]
    BY DEF Take, KernelTypeOK
  <2> QED
    BY <1>4, <2>1
<1> QED
  BY <1>3, <1>4, <1>5 DEF KernelTypeOK

(* A table of one process changes. *)
LEMMA TableType ==
  ASSUME KernelTypeOK, NEW q \in Process, NEW t \in Table, table' = [table EXCEPT ![q] = t],
         UNCHANGED pipe
  PROVE  KernelTypeOK'
BY DEF KernelTypeOK

(* A call that is over. *)
LEMMA ReturnType ==
  ASSUME Return
  PROVE  /\ at' = "idle" /\ at' \in Calls /\ who' \in Process /\ which' \in Stream /\ want' \in Nat
         /\ (at' = "read" => want' > 0) /\ from' \in Fd \cup {NoFd}
BY DEF Return, Calls, Process, Stream

(* A child comes to an end. *)
LEMMA ExitType ==
  ASSUME TypeOK, NEW c \in Children, Exit(c), UNCHANGED pipe
  PROVE  KernelTypeOK' /\ proc' \in [Children -> {"none", "forked", "running", "zombie", "reaped"}]
<1>1. NoTable \in Table /\ c \in Process
  BY DEF NoTable, Table, Process
<1> QED
  BY <1>1, TableType DEF Exit, TypeOK

LEMMA CloseType ==
  ASSUME TypeOK, NEW q \in Process, NEW f, table' = [table EXCEPT ![q] = CloseFd(@, f)],
         UNCHANGED pipe
  PROVE  KernelTypeOK'
<1>1. table[q] \in Table /\ table \in [Process -> Table]
  BY DEF TypeOK, KernelTypeOK
<1>2. CloseFd(table[q], f) \in Table
  BY <1>1, CloseFdIs
<1>3. table' = [table EXCEPT ![q] = CloseFd(table[q], f)]
  BY <1>1
<1> QED
  BY <1>2, <1>3, TableType DEF TypeOK

(* What popenImpl does. *)
LEMMA PopenTypes ==
  ASSUME TypeOK, CallInv,
         Popen \/ Pipes \/ PipeFails \/ Fork \/ ForkFails \/ CloseOtherEnds \/ Wrap
  PROVE  TypeOK'
<1> Script \in Process /\ Children \subseteq Process
  BY DEF Process
<1>1. CASE Popen
  <2>1. (CHOOSE c \in Unused : TRUE) \in Unused /\ Unused \subseteq Children
    BY <1>1 DEF Popen, Unused
  <2> QED
    BY <1>1, <2>1 DEF Popen, TypeOK, Calls, kernelVars, objectVars, processVars, dataVars, KernelTypeOK
<1>2. ASSUME NEW now \in Making, NEW s \in Stream, NEW then \in Making, MakePipe(now, s, then)
      PROVE  TypeOK'
  <2> USE <1>2
  <2>1. table[Script] \in Table /\ Cardinality(FreeFds(table[Script])) >= 2 /\ who \in Process
        /\ who \in Children
    BY DEF MakePipe, TypeOK, KernelTypeOK, CallInv, Making
  <2>2. OpenPipe(table[Script], who, s) \in Table
    BY <2>1, OpenPipeIs
  <2>3. PipeFds(table[Script]) \in Fd \X Fd
    BY <2>1, PipeFdsAre DEF PipeFds
  <2>4. KernelTypeOK'
    <3>1. table' = [table EXCEPT ![Script] = OpenPipe(table[Script], who, s)]
      BY DEF MakePipe, TypeOK, KernelTypeOK
    <3> QED
      BY <2>2, <3>1, TableType DEF MakePipe, TypeOK
  <2>5. made' \in [Children -> [Stream -> (Fd \cup {NoFd}) \X (Fd \cup {NoFd})]]
    <3>1. made' = [made EXCEPT ![who] = [made[who] EXCEPT ![s] = PipeFds(table[Script])]]
      BY <2>1 DEF MakePipe, TypeOK
    <3>2. PipeFds(table[Script]) \in (Fd \cup {NoFd}) \X (Fd \cup {NoFd})
      BY <2>3
    <3>3. [made[who] EXCEPT ![s] = PipeFds(table[Script])]
            \in [Stream -> (Fd \cup {NoFd}) \X (Fd \cup {NoFd})]
      BY <2>1, <3>2 DEF TypeOK
    <3> QED
      BY <2>1, <3>1, <3>3 DEF TypeOK
  <2>6. at' \in Calls /\ at' # "read"
    BY DEF MakePipe, Making, Calls
  <2> QED
    BY <2>4, <2>5, <2>6 DEF MakePipe, TypeOK, processVars, dataVars
<1>3. CASE Pipes
  BY <1>2, <1>3 DEF Pipes, Making, Stream
<1>4. CASE PipeFails
  BY <1>4, ReturnType
     DEF PipeFails, TypeOK, CallInv, Making, kernelVars, processVars, dataVars, KernelTypeOK
<1>5. CASE Fork
  <2> USE <1>5
  <2>1. who \in Children /\ table[Script] \in Table
    BY DEF Fork, TypeOK, KernelTypeOK, CallInv, Making
  <2>2. KernelTypeOK'
    BY <2>1, TableType DEF Fork, TypeOK
  <2> QED
    BY <2>1, <2>2 DEF Fork, TypeOK, Calls, objectVars, dataVars
<1>6. CASE ForkFails
  BY <1>6 DEF ForkFails, TypeOK, CallInv, Making, Calls, kernelVars, objectVars, dataVars, KernelTypeOK
<1>7. CASE CloseOtherEnds
  <2> USE <1>7
  <2>1. table[Script] \in Table
    BY DEF TypeOK, KernelTypeOK
  <2>2. ParentTable(table[Script], made[who]) \in Table
    BY <2>1, Close3Is DEF ParentTable
  <2>3. KernelTypeOK'
    <3>1. table' = [table EXCEPT ![Script] = ParentTable(table[Script], made[who])]
      BY DEF CloseOtherEnds, TypeOK, KernelTypeOK
    <3> QED
      BY <2>2, <3>1, TableType DEF CloseOtherEnds, TypeOK
  <2> QED
    BY <2>3 DEF CloseOtherEnds, TypeOK, Calls, objectVars, processVars, dataVars
<1>8. CASE Wrap
  <2> USE <1>8
  <2>1. who \in Children /\ made[who] \in [Stream -> (Fd \cup {NoFd}) \X (Fd \cup {NoFd})]
    BY DEF Wrap, TypeOK, CallInv, Making
  <2>2. ParentEnds(made[who]) \in [Stream -> Fd \cup {NoFd}]
    BY <2>1 DEF ParentEnds, Stream
  <2>3. io' \in [Process -> [Stream -> Fd \cup {NoFd}]]
    BY <2>1, <2>2 DEF Wrap, TypeOK
  <2>4. [s \in {"out", "err"} |-> io'[who][s]] \in [{"out", "err"} -> Fd \cup {NoFd}]
    BY <2>1, <2>3 DEF Stream
  <2>5. text' \in [Children -> [{"out", "err"} -> Fd \cup {NoFd}]]
    BY <2>1, <2>4 DEF Wrap, TypeOK
  <2>6. alive' \in [Children -> SUBSET Object]
    BY <2>1 DEF Wrap, TypeOK
  <2> QED
    BY <2>3, <2>5, <2>6, ReturnType DEF Wrap, TypeOK, kernelVars, processVars, dataVars, KernelTypeOK
<1> QED
  BY <1>1, <1>3, <1>4, <1>5, <1>6, <1>7, <1>8

(* What the script does to streams. *)
LEMMA StreamTypes ==
  ASSUME ProcessInv,
         \/ \E c \in Children, s \in Stream : BeginRead(c, s)
         \/ Read \/ Write \/ WriteKills
         \/ \E c \in Children : BeginWrite(c)
         \/ \E q \in Process, s \in Stream : Close(q, s)
         \/ \E c \in Children, s \in Stream : FinalizeIO(c, s)
  PROVE  TypeOK'
<1> TypeOK /\ CallInv
  BY DEF ProcessInv
<1> Script \in Process /\ Children \subseteq Process
  BY DEF Process
<1>1. ASSUME NEW c \in Children, NEW s \in Stream, BeginRead(c, s) PROVE TypeOK'
  <2>1. want' \in Nat /\ want' > 0
    BY <1>1, ProcessesAssumption DEF BeginRead
  <2>2. from' \in Fd \cup {NoFd}
    BY <1>1 DEF BeginRead, TypeOK
  <2> QED
    BY <1>1, <2>1, <2>2
       DEF BeginRead, TypeOK, Calls, kernelVars, objectVars, processVars, dataVars, KernelTypeOK
<1>2. CASE Read
  <2> USE <1>2
  <2> DEFINE e == table[Script][from]
  <2>1. /\ who \in Children /\ which \in Stream /\ from \in Fd /\ e \in End \cup {Free}
        /\ want \in Nat /\ want > 0
    BY DEF Read, CallInv, TypeOK, KernelTypeOK, Table
  <2>2. e \in End /\ e[1] \in Children
    BY <2>1, DescriptorsAssumption DEF Read, IsPipe, Free
  <2> HIDE DEF e
  <2>3. CASE ReadByte(e)
    <3>1. KernelTypeOK' /\ Head(pipe[PipeOf(e)]) \in Byte
      BY <2>2, <2>3, TakeType DEF ReadByte, Read, TypeOK
    <3>2. got' \in [Children -> [Stream -> Seq(Byte)]]
      <4>1. got[who][which] \in Seq(Byte)
        BY <2>1 DEF TypeOK
      <4>2. Append(got[who][which], Head(pipe[PipeOf(e)])) \in Seq(Byte)
        BY <3>1, <4>1, AppendProperties
      <4>3. got' = [got EXCEPT ![who] = [got[who] EXCEPT ![which] =
                     Append(got[who][which], Head(pipe[PipeOf(e)]))]]
        BY <2>1, <2>3 DEF ReadByte, TypeOK
      <4>4. [got[who] EXCEPT ![which] = Append(got[who][which], Head(pipe[PipeOf(e)]))]
              \in [Stream -> Seq(Byte)]
        BY <2>1, <4>2 DEF TypeOK
      <4> QED
        BY <2>1, <4>3, <4>4 DEF TypeOK
    <3>3. CASE want = 1
      BY <2>3, <3>1, <3>2, <3>3, ReturnType DEF ReadByte, Read, TypeOK, objectVars, processVars
    <3>4. CASE want # 1
      <4>1. want' = want - 1 /\ UNCHANGED <<at, who, which, from>>
        BY <2>3, <3>4 DEF ReadByte
      <4>2. want' \in Nat /\ want' > 0
        BY <2>1, <3>4, <4>1
      <4> QED
        BY <2>3, <3>1, <3>2, <4>1, <4>2 DEF ReadByte, Read, TypeOK, objectVars, processVars
    <3> QED
      BY <3>3, <3>4
  <2>4. CASE ReadEnd(e)
    <3>1. told' \in [Children -> [Stream -> BOOLEAN]]
      BY <2>1, <2>4 DEF ReadEnd, TypeOK
    <3> QED
      BY <2>4, <3>1, ReturnType DEF ReadEnd, Read, TypeOK, objectVars, processVars, KernelTypeOK
  <2> QED
    BY <2>3, <2>4 DEF Read, e
<1>3. CASE Write
  <2> USE <1>3
  <2> DEFINE e == table[Script][from]
  <2>1. who \in Children /\ from \in Fd /\ e \in End \cup {Free} /\ written[who]["in"] \in Nat
    BY DEF Write, CallInv, TypeOK, KernelTypeOK, Table, Stream
  <2>2. e \in End
    BY <2>1, DescriptorsAssumption DEF Write, IsPipe, Free
  <2> HIDE DEF e
  <2>3. <<who, "in", written[who]["in"] + 1>> \in Byte
    BY <2>1 DEF Byte, Stream
  <2>4. KernelTypeOK'
    BY <2>2, <2>3, PutType DEF Write, TypeOK, e
  <2>5. written' \in [Children -> [Stream -> Nat]]
    BY SMTT(40), <2>1 DEF Write, TypeOK, Stream
  <2> QED
    BY <2>4, <2>5, ReturnType DEF Write, TypeOK, objectVars, processVars
<1>4. CASE WriteKills
  <2>1. NoTable \in Table
    BY DEF NoTable, Table
  <2>2. KernelTypeOK'
    BY <1>4, <2>1, TableType DEF WriteKills, TypeOK
  <2> QED
    BY <1>4, <2>2 DEF WriteKills, TypeOK, Calls, objectVars, processVars, dataVars
<1>5. ASSUME NEW c \in Children, BeginWrite(c) PROVE TypeOK'
  BY SMTT(40), <1>5 DEF BeginWrite, TypeOK, Calls, Stream, kernelVars, objectVars, processVars, dataVars, KernelTypeOK
<1>6. ASSUME NEW q \in Process, NEW s \in Stream, Close(q, s) PROVE TypeOK'
  <2>1. KernelTypeOK'
    BY <1>6, CloseType DEF Close
  <2>2. io' \in [Process -> [Stream -> Fd \cup {NoFd}]]
    BY <1>6 DEF Close, Forget, TypeOK
  <2> QED
    BY <1>6, <2>1, <2>2 DEF Close, TypeOK, callVars, processVars, dataVars
<1>7. ASSUME NEW c \in Children, NEW s \in Stream, FinalizeIO(c, s) PROVE TypeOK'
  <2>1. KernelTypeOK'
    BY <1>7, CloseType DEF FinalizeIO
  <2>2. io' \in [Process -> [Stream -> Fd \cup {NoFd}]]
    BY <1>7 DEF FinalizeIO, TypeOK
  <2>3. alive' \in [Children -> SUBSET Object]
    BY <1>7 DEF FinalizeIO, TypeOK
  <2> QED
    BY <1>7, <2>1, <2>2, <2>3 DEF FinalizeIO, TypeOK, callVars, processVars, dataVars
<1> QED
  BY <1>1, <1>2, <1>3, <1>4, <1>5, <1>6, <1>7

(* wait(), and what the script and the collector do with objects. *)
LEMMA WaitTypes ==
  ASSUME TypeOK, CallInv,
         \/ Wait \/ WaitFails
         \/ \E c \in Children : BeginWait(c) \/ FinalizePopen(c)
         \/ \E c \in Children, x \in Object : Lose(c, x)
  PROVE  TypeOK'
<1> Script \in Process /\ Children \subseteq Process
  BY DEF Process
<1>1. ASSUME NEW c \in Children, NEW a \in (Process \X {"status"}) \cup {Unknown}, Answered(c, a)
      PROVE  answer' \in [Children -> (Process \X {"status"}) \cup {Unknown, NoAnswer}]
  BY <1>1 DEF Answered, TypeOK
<1>2. CASE Wait
  <2> PICK d \in Waited(pid[who]) :
         proc' = [proc EXCEPT ![d] = "reaped"] /\ Answered(who, Status(d))
    BY <1>2 DEF Wait
  <2>1. d \in Children /\ who \in Children
    BY <1>2 DEF Waited, Wait, CallInv
  <2>2. Status(d) \in Process \X {"status"}
    BY <2>1 DEF Status
  <2>3. answer' \in [Children -> (Process \X {"status"}) \cup {Unknown, NoAnswer}]
    BY <1>1, <2>1, <2>2
  <2>4. proc' \in [Children -> {"none", "forked", "running", "zombie", "reaped"}]
    BY <2>1 DEF TypeOK
  <2> QED
    BY <1>2, <2>3, <2>4, ReturnType DEF Wait, TypeOK, kernelVars, objectVars, dataVars, KernelTypeOK
<1>3. CASE WaitFails
  <2>1. who \in Children /\ Answered(who, Unknown)
    BY <1>3 DEF WaitFails, CallInv
  <2>2. answer' \in [Children -> (Process \X {"status"}) \cup {Unknown, NoAnswer}]
    BY <1>1, <2>1
  <2> QED
    BY <1>3, <2>2, ReturnType DEF WaitFails, TypeOK, kernelVars, objectVars, dataVars, KernelTypeOK
<1>4. ASSUME NEW c \in Children, BeginWait(c) PROVE TypeOK'
  BY <1>4 DEF BeginWait, TypeOK, Calls, kernelVars, objectVars, processVars, dataVars, KernelTypeOK
<1>5. ASSUME NEW c \in Children, FinalizePopen(c) PROVE TypeOK'
  <2>1. proc' \in [Children -> {"none", "forked", "running", "zombie", "reaped"}]
    BY <1>5 DEF FinalizePopen, TypeOK
  <2>2. alive' \in [Children -> SUBSET Object]
    BY <1>5 DEF FinalizePopen, TypeOK
  <2> QED
    BY <1>5, <2>1, <2>2 DEF FinalizePopen, TypeOK, kernelVars, callVars, dataVars, KernelTypeOK
<1>6. ASSUME NEW c \in Children, NEW x \in Object, Lose(c, x) PROVE TypeOK'
  <2>1. lost' \in [Children -> SUBSET Object]
    BY <1>6 DEF Lose, TypeOK
  <2> QED
    BY <1>6, <2>1 DEF Lose, TypeOK, kernelVars, callVars, processVars, dataVars, KernelTypeOK
<1> QED
  BY <1>2, <1>3, <1>4, <1>5, <1>6

(* What the children do. *)
LEMMA ChildTypes ==
  ASSUME TypeOK, ObjectInv, NEW c \in Children, ChildNext(c)
  PROVE  TypeOK'
<1>1. c \in Process /\ table[c] \in Table /\ 0 \in Fd /\ 1 \in Fd /\ 2 \in Fd
  BY DescriptorsAssumption DEF TypeOK, KernelTypeOK, Process, Fd
<1>2. \A f \in Fd : table[c][f] \in End \/ table[c][f] = Free
  BY <1>1 DEF Table
<1>3. CASE Exec(c)
  <2>1. ChildTable(table[c], made[c]) \in Table
    <3> DEFINE m == made[c]
               t0 == CloseOthers(table[c], m)
               t1 == Close3(t0, 0, 1, 2)
               t2 == Dup2(t1, m["in"][1], 0)
               t3 == Dup2(t2, m["out"][2], 1)
               t4 == Dup2(t3, m["err"][2], 2)
    <3> HIDE DEF m
    <3>1. t0 \in Table
      BY <1>1, Close3Is DEF CloseOthers
    <3> HIDE DEF t0
    <3>2. t1 \in Table
      BY <3>1, Close3Is
    <3> HIDE DEF t1
    <3>3. ASSUME NEW t \in Table, NEW h \in Fd, NEW f \in Fd PROVE Dup2(t, f, h) \in Table
      BY <1>1 DEF Dup2, Table
    <3>4. m["in"][1] \in Fd /\ m["out"][2] \in Fd /\ m["err"][2] \in Fd
      BY <1>3 DEF Exec, ObjectInv, ObjectsOf, Stream, m
    <3>5. t2 \in Table
      BY <1>1, <3>2, <3>3, <3>4
    <3> HIDE DEF t2
    <3>6. t3 \in Table
      BY <1>1, <3>5, <3>3, <3>4
    <3> HIDE DEF t3
    <3>7. t4 \in Table
      BY <1>1, <3>6, <3>3, <3>4
    <3> HIDE DEF t4
    <3>8. CloseOriginals(t4, m) \in Table
      BY <3>7, Close3Is DEF CloseOriginals
    <3> QED
      BY <3>8 DEF ChildTable, Dup3, t4, t3, t2, t1, t0, m
  <2>2. KernelTypeOK'
    <3>1. table' = [table EXCEPT ![c] = ChildTable(table[c], made[c])]
      BY <1>1, <1>3 DEF Exec, TypeOK, KernelTypeOK
    <3> QED
      BY <1>1, <1>3, <2>1, <3>1, TableType DEF Exec, TypeOK
  <2> QED
    BY <1>3, <2>2 DEF Exec, TypeOK, callVars, objectVars, dataVars
<1>4. CASE ChildExits(c)
  BY <1>4, ExitType DEF ChildExits, TypeOK, callVars, objectVars, dataVars
<1>5. CASE ChildReads(c)
  <2> DEFINE e == table[c][0]
  <2>1. e \in End /\ e[1] \in Children
    BY <1>1, <1>2, <1>5, DescriptorsAssumption DEF ChildReads, IsPipe, Free
  <2> HIDE DEF e
  <2>2. CASE HasBytes(e) /\ Take(e) /\ UNCHANGED told
             /\ got' = [got EXCEPT ![c]["in"] = Append(@, Head(pipe[PipeOf(e)]))]
    <3>1. KernelTypeOK' /\ Head(pipe[PipeOf(e)]) \in Byte
      BY <1>5, <2>1, <2>2, TakeType DEF ChildReads, TypeOK
    <3>2. got[c]["in"] \in Seq(Byte)
      BY DEF TypeOK, Stream
    <3>3. Append(got[c]["in"], Head(pipe[PipeOf(e)])) \in Seq(Byte)
      BY <3>1, <3>2, AppendProperties
    <3>4. got' = [got EXCEPT ![c] = [got[c] EXCEPT !["in"] =
                    Append(got[c]["in"], Head(pipe[PipeOf(e)]))]]
      BY <2>2 DEF TypeOK, Stream
    <3>5. [got[c] EXCEPT !["in"] = Append(got[c]["in"], Head(pipe[PipeOf(e)]))] \in [Stream -> Seq(Byte)]
      BY <3>3 DEF TypeOK
    <3>6. got' \in [Children -> [Stream -> Seq(Byte)]]
      BY <3>4, <3>5 DEF TypeOK
    <3> QED
      BY <1>5, <2>2, <3>1, <3>6 DEF ChildReads, TypeOK, callVars, objectVars, processVars
  <2>3. CASE told' = [told EXCEPT ![c]["in"] = TRUE] /\ UNCHANGED <<pipe, got>>
    BY <1>5, <2>3 DEF ChildReads, TypeOK, callVars, objectVars, processVars, KernelTypeOK, Stream
  <2> QED
    BY <1>5, <2>2, <2>3 DEF ChildReads, e
<1>6. ASSUME NEW s \in {"out", "err"}, ChildWrites(c, s) PROVE TypeOK'
  <2> DEFINE e == table[c][Standard(s)]
  <2>1. Standard(s) \in Fd
    BY <1>1 DEF Standard
  <2>2. e \in End /\ e[1] \in Children
    BY <1>2, <1>6, <2>1, DescriptorsAssumption DEF ChildWrites, IsPipe, Free
  <2> HIDE DEF e
  <2>3. written[c][s] \in Nat
    BY DEF TypeOK, Stream
  <2>4. CASE HasRoom(e) /\ written' = [written EXCEPT ![c][s] = @ + 1]
             /\ Put(e, <<c, s, written[c][s] + 1>>) /\ UNCHANGED <<table, proc>>
    <3>1. <<c, s, written[c][s] + 1>> \in Byte
      BY <1>1, <2>3 DEF Byte, Stream
    <3>2. KernelTypeOK'
      BY <2>2, <2>4, <3>1, PutType DEF TypeOK
    <3>3. written' \in [Children -> [Stream -> Nat]]
      BY SMTT(40), <2>3, <2>4 DEF TypeOK, Stream
    <3> QED
      BY <1>6, <2>4, <3>2, <3>3 DEF ChildWrites, TypeOK, callVars, objectVars
  <2>5. CASE Exit(c) /\ UNCHANGED <<pipe, written>>
    BY <1>6, <2>5, ExitType DEF ChildWrites, TypeOK, callVars, objectVars
  <2> QED
    BY <1>6, <2>4, <2>5 DEF ChildWrites, e
<1> QED
  BY <1>3, <1>4, <1>5, <1>6 DEF ChildNext

LEMMA NextTypes ==
  ASSUME ProcessInv, [Next]_vars
  PROVE  TypeOK'
<1> TypeOK /\ CallInv /\ ObjectInv
  BY DEF ProcessInv
<1>1. CASE ScriptNext
  BY <1>1, PopenTypes, StreamTypes, WaitTypes DEF ScriptNext, CallGoesOn
<1>2. CASE \E c \in Children : ChildNext(c)
  BY <1>2, ChildTypes
<1>3. CASE UNCHANGED vars
  BY <1>3 DEF vars, kernelVars, callVars, objectVars, processVars, dataVars, TypeOK, KernelTypeOK
<1> QED
  BY <1>1, <1>2, <1>3 DEF Next

-----------------------------------------------------------------------------
(***************************************************************************)
(* Calls and objects.                                                      *)
(***************************************************************************)
LEMMA NextCalls ==
  ASSUME ProcessInv, [Next]_vars
  PROVE  CallInv'
<1>1. TypeOK /\ CallInv /\ ObjectInv
  BY DEF ProcessInv
<1> USE <1>1
<1>2. CASE at' \notin Making \cup {"read", "write", "wait"}
  BY <1>2 DEF CallInv
<1>3. CASE at' = at /\ at \in Making \cup {"wait"} /\ who' = who
  BY <1>3 DEF CallInv, Making
<1>4. CASE UNCHANGED <<at, who, which, from, io>>
  BY <1>4 DEF CallInv
<1>5. CASE Popen
  BY <1>5 DEF Popen, Unused, CallInv, Making
<1>6. CASE Pipes \/ Fork \/ ForkFails \/ CloseOtherEnds
  BY <1>6 DEF Pipes, MakePipe, Fork, ForkFails, CloseOtherEnds, CallInv, Making
<1>7. CASE PipeFails \/ Wrap \/ Write \/ WriteKills \/ Wait \/ WaitFails
  BY <1>2, <1>7 DEF PipeFails, Wrap, Write, WriteKills, Wait, WaitFails, Return, Making
<1>8. CASE Read
  BY <1>2, <1>4, <1>8 DEF Read, ReadByte, ReadEnd, Return, Making, objectVars
<1>9. ASSUME NEW c \in Children, NEW s \in Stream, BeginRead(c, s) PROVE CallInv'
  <2>1. ObjectsOf(c) /\ io[c][s] \in Fd
    BY <1>9 DEF BeginRead, ObjectInv, TypeOK, Process
  <2> QED
    BY <1>9, <2>1 DEF BeginRead, CallInv, Making, ObjectsOf, objectVars
<1>10. ASSUME NEW c \in Children, BeginWrite(c) PROVE CallInv'
  <2>1. io[c]["in"] \in Fd
    BY <1>10 DEF BeginWrite, TypeOK, Process, Stream
  <2> QED
    BY <1>10, <2>1 DEF BeginWrite, CallInv, Making, objectVars
<1>11. ASSUME NEW c \in Children, BeginWait(c) PROVE CallInv'
  BY <1>11 DEF BeginWait, CallInv, Making
<1>12. ASSUME NEW c \in Children, FinalizePopen(c) PROVE CallInv'
  BY <1>4, <1>12 DEF FinalizePopen, callVars
<1>13. ASSUME NEW c \in Children, NEW x \in Object, Lose(c, x) PROVE CallInv'
  BY <1>4, <1>13 DEF Lose, callVars
<1>14. ASSUME NEW c \in Children, NEW s \in Stream, FinalizeIO(c, s) PROVE CallInv'
  BY <1>2, <1>3, <1>14 DEF FinalizeIO, MayCollect, callVars, Making
<1>15. ASSUME NEW q \in Process, NEW s \in Stream, Close(q, s) PROVE CallInv'
  BY <1>2, <1>15 DEF Close, callVars, Making
<1>16. ASSUME NEW c \in Children, ChildNext(c) PROVE CallInv'
  BY <1>4, <1>16 DEF ChildNext, Exec, ChildExits, ChildReads, ChildWrites, callVars, objectVars
<1>17. CASE UNCHANGED vars
  BY <1>4, <1>17 DEF vars, callVars, objectVars
<1> QED
  BY <1>5, <1>6, <1>7, <1>8, <1>9, <1>10, <1>11, <1>12, <1>13, <1>14, <1>15, <1>16, <1>17
     DEF Next, ScriptNext, CallGoesOn

(* The steps that change no object. *)
LEMMA ObjectsKept ==
  ASSUME TypeOK, ObjectInv, UNCHANGED <<io, text, alive, threw, made, pid>>,
         \A c \in Children : /\ proc'[c] = "forked" => proc[c] = "forked"
                             /\ proc[c] = "none" => proc'[c] = "none",
         at' \notin Making \/ (at' = at /\ who' = who)
  PROVE  ObjectInv'
<1> SUFFICES ASSUME NEW c \in Children PROVE ObjectsOf(c)'
  BY DEF ObjectInv
<1>1. ObjectsOf(c)
  BY DEF ObjectInv
<1>2. /\ proc'[c] = "forked" => proc[c] = "forked"
      /\ proc[c] = "none" => proc'[c] = "none"
  BY Zenon
<1>3. CASE at' \notin Making
  BY <1>1, <1>2, <1>3 DEF ObjectsOf
<1>4. CASE at' = at /\ who' = who
  <2>1. MadeStreams' = MadeStreams
    BY <1>4 DEF MadeStreams
  <2> QED
    BY <1>1, <1>2, <1>4, <2>1 DEF ObjectsOf
<1> QED
  BY <1>3, <1>4

LEMMA NextObjects ==
  ASSUME ProcessInv, [Next]_vars
  PROVE  ObjectInv'
<1>1. TypeOK /\ CallInv /\ ObjectInv
  BY DEF ProcessInv
<1> USE <1>1
<1>0. ASSUME NEW c \in Children PROVE ObjectsOf(c)
  BY DEF ObjectInv
<1>2. CASE Popen
  <2> SUFFICES ASSUME NEW c \in Children PROVE ObjectsOf(c)'
    BY DEF ObjectInv
  <2>1. who' \in Unused
    BY <1>2 DEF Popen
  <2>2. MadeStreams' = {}
    BY <1>2 DEF Popen, MadeStreams
  <2> QED
    BY <1>0, <1>2, <2>1, <2>2 DEF Popen, Unused, ObjectsOf, objectVars, processVars
<1>3. ASSUME NEW now \in {"pipe_out", "pipe_in", "pipe_err"}, NEW s \in Stream, NEW then, MakePipe(now, s, then),
             <<now, s, then>> \in {<<"pipe_out", "out", "pipe_in">>, <<"pipe_in", "in", "pipe_err">>,
                                  <<"pipe_err", "err", "fork">>}
      PROVE  ObjectInv'
  <2> USE <1>3
  <2>1. who \in Children /\ at = now /\ at' = then /\ who' = who
        /\ UNCHANGED <<io, text, alive, threw, pid, proc>>
    BY DEF MakePipe, CallInv, Making, processVars
  <2>2. PipeFds(table[Script]) \in Fd \X Fd
    <3>1. table[Script] \in Table
      BY DEF TypeOK, KernelTypeOK, Process
    <3> QED
      BY <3>1, PipeFdsAre DEF PipeFds, MakePipe
  <2>3. /\ made'[who][s] = PipeFds(table[Script])
        /\ \A r \in Stream \ {s} : made'[who][r] = made[who][r]
        /\ \A c \in Children \ {who} : made'[c] = made[c]
    BY <2>1 DEF MakePipe, TypeOK
  <2>4. MadeStreams' = MadeStreams \cup {s}
    BY <2>1 DEF MadeStreams, Stream
  <2>5. at \in Making /\ at \notin {"close", "wrap"} /\ at' \in Making /\ at' \notin {"close", "wrap"}
    BY <2>1 DEF Making
  <2> SUFFICES ASSUME NEW c \in Children PROVE ObjectsOf(c)'
    BY DEF ObjectInv
  <2>6. CASE c = who
    <3>1. /\ alive[c] = {} /\ c \notin threw /\ pid[c] = 0 /\ proc[c] = "none"
          /\ \A r \in MadeStreams : made[c][r] \in Fd \X Fd
      BY <1>0, <2>1, <2>5, <2>6 DEF ObjectsOf
    <3>2. \A r \in MadeStreams' : made'[c][r] \in Fd \X Fd
      BY <2>2, <2>3, <2>4, <2>6, <3>1 DEF MadeStreams
    <3> QED
      BY <1>0, <2>1, <2>5, <2>6, <3>1, <3>2 DEF ObjectsOf
  <2>7. CASE c # who
    BY <1>0, <2>1, <2>3, <2>7 DEF ObjectsOf
  <2> QED
    BY <2>6, <2>7
<1>4. CASE Pipes
  BY <1>3, <1>4 DEF Pipes, Stream
<1>5. CASE PipeFails
  <2>1. /\ at' \notin Making /\ threw' = threw \cup {who} /\ at \in Making
        /\ at \notin {"close", "wrap"} /\ who \in Children
        /\ UNCHANGED <<io, text, alive, made, pid, proc>>
    BY <1>5 DEF PipeFails, Return, Making, CallInv, processVars
  <2> SUFFICES ASSUME NEW c \in Children PROVE ObjectsOf(c)'
    BY DEF ObjectInv
  <2> QED
    BY <1>0, <2>1 DEF ObjectsOf
<1>6. CASE Fork \/ ForkFails
  <2>1. /\ at = "fork" /\ at' = "close" /\ who' = who /\ who \in Children
        /\ UNCHANGED <<io, text, alive, made, threw>>
        /\ \A c \in Children \ {who} : pid'[c] = pid[c] /\ proc'[c] = proc[c]
    BY <1>6 DEF Fork, ForkFails, CallInv, Making, objectVars, TypeOK
  <2>2. pid'[who] # 0
    BY <1>6, <2>1, ProcessesAssumption DEF Fork, ForkFails, TypeOK, NoPid
  <2>3. MadeStreams = Stream /\ MadeStreams' = Stream /\ at \in Making /\ at' \in Making
    BY <2>1 DEF MadeStreams, Making
  <2> SUFFICES ASSUME NEW c \in Children PROVE ObjectsOf(c)'
    BY DEF ObjectInv
  <2> QED
    BY <1>0, <2>1, <2>2, <2>3 DEF ObjectsOf
<1>7. CASE CloseOtherEnds
  <2>1. /\ at = "close" /\ at' = "wrap" /\ who' = who
        /\ UNCHANGED <<io, text, alive, made, threw, pid, proc>>
    BY <1>7 DEF CloseOtherEnds, objectVars, processVars
  <2>2. MadeStreams' = MadeStreams /\ at \in Making /\ at' \in Making
    BY <2>1 DEF MadeStreams, Making
  <2> SUFFICES ASSUME NEW c \in Children PROVE ObjectsOf(c)'
    BY DEF ObjectInv
  <2> QED
    BY <1>0, <2>1, <2>2 DEF ObjectsOf
<1>8. CASE Wrap
  <2>1. /\ at = "wrap" /\ at' = "idle" /\ who \in Children
        /\ UNCHANGED <<made, threw, pid, proc>>
        /\ alive'[who] = Object
        /\ \A s \in {"out", "err"} : text'[who][s] = io'[who][s]
        /\ \A c \in Children \ {who} : io'[c] = io[c] /\ text'[c] = text[c] /\ alive'[c] = alive[c]
    BY <1>8 DEF Wrap, Return, CallInv, Making, TypeOK, processVars, Process
  <2>2. at \in Making /\ at' \notin Making
    BY <2>1 DEF Making
  <2> SUFFICES ASSUME NEW c \in Children PROVE ObjectsOf(c)'
    BY DEF ObjectInv
  <2> QED
    BY <1>0, <2>1, <2>2 DEF ObjectsOf, Object
<1>9. ASSUME NEW c \in Children,
             (\E s \in Stream : BeginRead(c, s)) \/ BeginWrite(c) \/ BeginWait(c)
      PROVE  ObjectInv'
  BY <1>9, ObjectsKept DEF BeginRead, BeginWrite, BeginWait, objectVars, processVars, Making
<1>10. CASE Read
  BY <1>10, ObjectsKept DEF Read, ReadByte, ReadEnd, Return, Making, objectVars, processVars
<1>11. CASE Write \/ WriteKills
  BY <1>11, ObjectsKept DEF Write, WriteKills, Return, Making, objectVars, processVars
<1>12. ASSUME NEW c \in Children, FinalizePopen(c) PROVE ObjectInv'
  <2> SUFFICES ASSUME NEW d \in Children PROVE ObjectsOf(d)'
    BY DEF ObjectInv
  <2>1. /\ UNCHANGED <<at, who, made, io, text, threw, pid>>
        /\ alive'[d] \subseteq alive[d]
        /\ \A s \in Stream : s \in alive[d] => s \in alive'[d]
    BY <1>12 DEF FinalizePopen, callVars, TypeOK, Stream
  <2>2. /\ proc'[d] = "forked" => proc[d] = "forked"
        /\ proc[d] = "none" => proc'[d] = "none"
    BY <1>12 DEF FinalizePopen, Waited, TypeOK
  <2>3. MadeStreams' = MadeStreams
    BY <2>1 DEF MadeStreams
  <2> QED
    BY <1>0, <2>1, <2>2, <2>3 DEF ObjectsOf
<1>13. CASE Wait \/ WaitFails
  <2>1. \A c \in Children : /\ proc'[c] = "forked" => proc[c] = "forked"
                            /\ proc[c] = "none" => proc'[c] = "none"
    BY <1>13 DEF Wait, WaitFails, Waited, TypeOK
  <2> QED
    BY <1>13, <2>1, ObjectsKept DEF Wait, WaitFails, Return, Making, objectVars
<1>14. ASSUME NEW c \in Children, NEW x \in Object, Lose(c, x) PROVE ObjectInv'
  BY <1>14, ObjectsKept DEF Lose, callVars, processVars
<1>15. ASSUME NEW q \in Process, NEW s \in Stream,
              io' = [io EXCEPT ![q][s] = NoFd],
              UNCHANGED <<at, who, made, text, threw, pid, proc>>,
              UNCHANGED alive \/ (q \in Children /\ alive' = [alive EXCEPT ![q] = @ \ {s}])
       PROVE  ObjectInv'
  <2> SUFFICES ASSUME NEW d \in Children PROVE ObjectsOf(d)'
    BY DEF ObjectInv
  <2>1. /\ d \in Process
        /\ alive'[d] \subseteq alive[d]
        /\ \A r \in Stream : /\ io'[d][r] # NoFd => io'[d][r] = io[d][r]
                             /\ io'[d][r] # NoFd /\ r \in alive[d] => r \in alive'[d]
    BY <1>15 DEF TypeOK, Process
  <2>2. MadeStreams' = MadeStreams /\ {"out", "err"} \subseteq Stream
    BY <1>15 DEF MadeStreams, Stream
  <2> QED
    BY <1>0, <1>15, <2>1, <2>2 DEF ObjectsOf
<1>16. ASSUME NEW q \in Process, NEW s \in Stream, Close(q, s) PROVE ObjectInv'
  BY <1>15, <1>16 DEF Close, Forget, callVars, processVars
<1>17. ASSUME NEW c \in Children, NEW s \in Stream, FinalizeIO(c, s) PROVE ObjectInv'
  BY <1>15, <1>17 DEF FinalizeIO, callVars, processVars, Process
<1>18. ASSUME NEW c \in Children, ChildNext(c) PROVE ObjectInv'
  <2>1. \A d \in Children : /\ proc'[d] = "forked" => proc[d] = "forked"
                            /\ proc[d] = "none" => proc'[d] = "none"
    BY <1>18 DEF ChildNext, Exec, ChildExits, ChildReads, ChildWrites, Exit, processVars, TypeOK
  <2>2. UNCHANGED <<io, text, alive, threw, made, pid, at, who>>
    BY <1>18 DEF ChildNext, Exec, ChildExits, ChildReads, ChildWrites, processVars, callVars, objectVars
  <2> QED
    BY <2>1, <2>2, ObjectsKept
<1>19. CASE UNCHANGED vars
  BY <1>19, ObjectsKept DEF vars, callVars, objectVars, processVars
<1> QED
  BY <1>2, <1>4, <1>5, <1>6, <1>7, <1>8, <1>9, <1>10, <1>11, <1>12, <1>13, <1>14, <1>16, <1>17, <1>18, <1>19
     DEF Next, ScriptNext, CallGoesOn, Object

-----------------------------------------------------------------------------
(***************************************************************************)
(* The descriptors of the script.                                          *)
(***************************************************************************)
LEMMA NoFdIsNone == NoFd \notin Fd
BY DescriptorsAssumption DEF NoFd, Fd

(* An end that was opened is not also free. *)
LEMMA EndIs ==
  ASSUME NEW e \in End
  PROVE  /\ e # Free
         /\ \E q \in Process, s \in Stream, mode \in {"r", "w"} : e = <<q, s, mode>>
BY FreeIsNoEnd DEF End

(* Steps that leave the script's descriptors and streams alone. *)
LEMMA TableKept ==
  ASSUME ProcessInv, table'[Script] = table[Script], UNCHANGED <<io, made, threw>>,
         \/ at' = at /\ who' = who
         \/ at \notin Making /\ at' \notin Making /\ at # "dead"
  PROVE  TableInv'
<1>1. TableInv /\ UNCHANGED <<io, made, threw>>
  BY DEF ProcessInv
<1> SUFFICES ASSUME (at # "dead")', NEW e \in End, NEW f \in Fd, e[1] \notin threw'
             PROVE  table'[Script][f] = e <=> Home(e)' = f
  BY DEF TableInv
<1>2. CASE at' = at /\ who' = who
  <2>1. Home(e)' = Home(e)
    BY <1>1, <1>2 DEF Home, MadeStreams
  <2> QED
    BY <1>1, <1>2, <2>1 DEF TableInv
<1>3. CASE at \notin Making /\ at' \notin Making /\ at # "dead"
  <2>1. Home(e)' = Home(e)
    BY <1>1, <1>3 DEF Home
  <2> QED
    BY <1>1, <1>3, <2>1 DEF TableInv
<1> QED
  BY <1>2, <1>3

(* pipe() *)
LEMMA MakePipeTable ==
  ASSUME ProcessInv, NEW now, NEW s \in Stream, NEW then, MakePipe(now, s, then),
         <<now, s, then>> \in {<<"pipe_out", "out", "pipe_in">>, <<"pipe_in", "in", "pipe_err">>,
                              <<"pipe_err", "err", "fork">>}
  PROVE  TableInv'
<1>1. TypeOK /\ CallInv /\ ObjectInv /\ TableInv
  BY DEF ProcessInv
<1>2. at = now /\ at' = then /\ UNCHANGED <<who, io, threw>>
  BY DEF MakePipe
<1>3. /\ who \in Children /\ at \in Making /\ at' \in Making /\ at # "wrap" /\ at' # "wrap"
      /\ at # "dead" /\ Script \in Process /\ who \in Process
  BY <1>1, <1>2 DEF CallInv, Making, Process
<1>4. s \notin MadeStreams /\ MadeStreams' = MadeStreams \cup {s}
  BY <1>2 DEF MadeStreams, Stream
<1> DEFINE T == table[Script]
           r == PipeFds(T)[1]
           w == PipeFds(T)[2]
<1>5. T \in Table /\ Cardinality(FreeFds(T)) >= 2
  BY <1>1, <1>3 DEF TypeOK, KernelTypeOK, MakePipe
<1>6. r \in Fd /\ w \in Fd /\ r # w /\ T[r] = Free /\ T[w] = Free
  <2>1. r \in Fd /\ w \in Fd /\ r < w /\ T[r] = Free /\ T[w] = Free
    BY <1>5, PipeFdsAre
  <2> QED
    BY <2>1 DEF Fd
<1>7. table'[Script] = OpenPipe(T, who, s)
  BY <1>1, <1>3 DEF MakePipe, TypeOK, KernelTypeOK
<1>8. \A g \in Fd : table'[Script][g] = IF g = r THEN Reader(who, s)
                                        ELSE IF g = w THEN Writer(who, s) ELSE T[g]
  BY <1>3, <1>5, <1>7, OpenPipeIs
<1>9. /\ made'[who][s] = PipeFds(T)
      /\ \A x \in Stream \ {s} : made'[who][x] = made[who][x]
  BY <1>1, <1>3 DEF MakePipe, TypeOK
<1> HIDE DEF T
<1> SUFFICES ASSUME NEW e \in End, NEW f \in Fd, e[1] \notin threw
             PROVE  table'[Script][f] = e <=> Home(e)' = f
  BY <1>2 DEF TableInv
<1>10. T[f] = e <=> Home(e) = f
  BY <1>1, <1>3 DEF TableInv, T
<1>11. e # Free /\ NoFd # f
  BY EndIs, NoFdIsNone
<1>12. PICK q \in Process, x \in Stream, mode \in {"r", "w"} : e = <<q, x, mode>>
  BY EndIs
<1>13. CASE q = who /\ x = s
  <2>1. Home(e) = NoFd
    BY <1>3, <1>4, <1>12, <1>13 DEF Home
  <2>2. Home(e)' = IF mode = "r" THEN r ELSE w
    BY <1>2, <1>3, <1>4, <1>9, <1>12, <1>13 DEF Home, Place
  <2>3. e = IF mode = "r" THEN Reader(who, s) ELSE Writer(who, s)
    BY <1>12, <1>13 DEF Reader, Writer
  <2>4. Reader(who, s) # Writer(who, s)
    BY DEF Reader, Writer
  <2> QED
    BY <2>1, <2>2, <2>3, <2>4, <1>6, <1>8, <1>10, <1>11
<1>14. CASE ~(q = who /\ x = s)
  <2>1. Home(e)' = Home(e)
    <3>1. CASE q = who
      BY <1>2, <1>3, <1>4, <1>9, <1>12, <1>14, <3>1 DEF Home, Place
    <3>2. CASE q # who
      BY <1>2, <1>3, <1>12, <3>2 DEF Home
    <3> QED
      BY <3>1, <3>2
  <2>2. e # Reader(who, s) /\ e # Writer(who, s)
    BY <1>12, <1>14 DEF Reader, Writer
  <2>3. Home(e) = r => T[r] = e
    BY <1>1, <1>3, <1>6 DEF TableInv, T
  <2>4. Home(e) = w => T[w] = e
    BY <1>1, <1>3, <1>6 DEF TableInv, T
  <2> QED
    BY <2>1, <2>2, <2>3, <2>4, <1>6, <1>8, <1>10, <1>11
<1> QED
  BY <1>13, <1>14

(* The three ends of the child are closed. *)
LEMMA CloseOtherEndsTable ==
  ASSUME ProcessInv, CloseOtherEnds
  PROVE  TableInv'
<1>1. TypeOK /\ CallInv /\ ObjectInv /\ TableInv
  BY DEF ProcessInv
<1>2. at = "close" /\ at' = "wrap" /\ UNCHANGED <<who, io, made, threw>>
  BY DEF CloseOtherEnds, objectVars
<1>3. /\ who \in Children /\ at \in Making /\ at' \in Making /\ who # Script
      /\ Script \in Process /\ who \in Process /\ who \notin threw
      /\ MadeStreams = Stream /\ MadeStreams' = Stream
  BY <1>1, <1>2, DescriptorsAssumption
     DEF CallInv, Making, Process, MadeStreams, ObjectInv, ObjectsOf
<1> DEFINE T == table[Script]
           closed == {made[who]["in"][1], made[who]["out"][2], made[who]["err"][2]}
<1>4. T \in Table
  BY <1>1, <1>3 DEF TypeOK, KernelTypeOK
<1>5. \A g \in Fd : table'[Script][g] = IF g \in closed THEN Free ELSE T[g]
  <2>1. table'[Script] = ParentTable(T, made[who])
    BY <1>1, <1>3 DEF CloseOtherEnds, TypeOK, KernelTypeOK
  <2> HIDE DEF T
  <2> QED
    BY <1>4, <2>1, Close3Is DEF ParentTable
<1> HIDE DEF T
<1>6. \A e \in End, f \in Fd : e[1] \notin threw => (T[f] = e <=> Home(e) = f)
  BY <1>1, <1>2 DEF TableInv, T
<1>7. \A x \in Stream, mode \in {"r", "w"} : Home(<<who, x, mode>>) = Place(made[who], x, mode)
  BY <1>2, <1>3 DEF Home
<1>8. \A x \in Stream : OwnMode(who, x) = IF x = "in" THEN "w" ELSE "r"
  BY <1>3 DEF OwnMode
<1>9. ASSUME NEW g \in closed \cap Fd
      PROVE  \E x \in Stream, mode \in {"r", "w"} : mode # OwnMode(who, x) /\ T[g] = <<who, x, mode>>
  <2>1. ASSUME NEW x \in Stream, NEW mode \in {"r", "w"}, mode # OwnMode(who, x),
               g = Place(made[who], x, mode)
        PROVE  mode # OwnMode(who, x) /\ T[g] = <<who, x, mode>>
    <3>1. <<who, x, mode>> \in End
      BY <1>3 DEF End
    <3> QED
      BY <1>3, <1>6, <1>7, <2>1, <3>1
  <2>2. CASE g = made[who]["in"][1]
    BY <1>8, <2>1, <2>2 DEF Place, Stream
  <2>3. CASE g = made[who]["out"][2]
    BY <1>8, <2>1, <2>3 DEF Place, Stream
  <2>4. CASE g = made[who]["err"][2]
    BY <1>8, <2>1, <2>4 DEF Place, Stream
  <2> QED
    BY <2>2, <2>3, <2>4
<1> SUFFICES ASSUME NEW e \in End, NEW f \in Fd, e[1] \notin threw
             PROVE  table'[Script][f] = e <=> Home(e)' = f
  BY <1>2 DEF TableInv
<1>10. T[f] = e <=> Home(e) = f
  BY <1>6
<1>11. e # Free /\ NoFd # f
  BY EndIs, NoFdIsNone
<1>12. PICK q \in Process, x \in Stream, mode \in {"r", "w"} : e = <<q, x, mode>>
  BY EndIs
<1>13. CASE q = who /\ mode # OwnMode(who, x)
  <2>1. Home(e)' = NoFd
    BY <1>2, <1>3, <1>12, <1>13 DEF Home, OwnMode
  <2>2. Home(e) \in closed
    <3>1. Home(e) = Place(made[who], x, mode)
      BY <1>7, <1>12, <1>13
    <3> QED
      BY <3>1, <1>8, <1>13 DEF Place, Stream
  <2>3. f \notin closed => T[f] # e
    BY <2>2, <1>10
  <2> HIDE DEF closed
  <2> QED
    BY <2>1, <2>3, <1>5, <1>11
<1>14. CASE ~(q = who /\ mode # OwnMode(who, x))
  <2>1. Home(e)' = Home(e)
    BY <1>2, <1>3, <1>12, <1>14 DEF Home, OwnMode
  <2>2. f \in closed => T[f] # e
    BY <1>9, <1>12, <1>14
  <2> HIDE DEF closed
  <2> QED
    BY <2>1, <2>2, <1>5, <1>10, <1>11
<1> QED
  BY <1>13, <1>14

(* popenImpl returns its objects. *)
LEMMA WrapTable ==
  ASSUME ProcessInv, Wrap
  PROVE  TableInv'
<1>1. TypeOK /\ CallInv /\ ObjectInv /\ TableInv
  BY DEF ProcessInv
<1>2. at = "wrap" /\ at' = "idle" /\ UNCHANGED <<table, made, threw>>
  BY DEF Wrap, Return, kernelVars
<1>3. /\ who \in Children /\ at \in Making /\ at' \notin Making /\ who # Script
      /\ MadeStreams = Stream
  BY <1>1, <1>2, DescriptorsAssumption DEF CallInv, Making, MadeStreams
<1>4. io' = [io EXCEPT ![who] = ParentEnds(made[who])] /\ who \in Process
  BY <1>3 DEF Wrap, Process
<1> SUFFICES ASSUME NEW e \in End, NEW f \in Fd, e[1] \notin threw
             PROVE  table[Script][f] = e <=> Home(e)' = f
  BY <1>2 DEF TableInv
<1>5. table[Script][f] = e <=> Home(e) = f
  BY <1>1, <1>2 DEF TableInv
<1>6. PICK q \in Process, x \in Stream, mode \in {"r", "w"} : e = <<q, x, mode>>
  BY EndIs
<1>7. Home(e)' = IF mode = OwnMode(q, x) THEN io'[q][x] ELSE NoFd
  BY <1>3, <1>6 DEF Home, OwnMode
<1>8. CASE q = who
  <2>1. Home(e) = IF mode = OwnMode(q, x) THEN Place(made[who], x, mode) ELSE NoFd
    BY <1>2, <1>3, <1>6, <1>8 DEF Home
  <2>2. io'[q][x] = IF x = "in" THEN made[who]["in"][2] ELSE made[who][x][1]
    BY <1>1, <1>4, <1>8 DEF TypeOK, ParentEnds
  <2>3. OwnMode(q, x) = IF x = "in" THEN "w" ELSE "r"
    BY <1>3, <1>8 DEF OwnMode
  <2> QED
    BY <1>5, <1>7, <2>1, <2>2, <2>3 DEF Place
<1>9. CASE q # who
  <2>1. Home(e) = IF mode = OwnMode(q, x) THEN io[q][x] ELSE NoFd
    BY <1>6, <1>9 DEF Home
  <2>2. io'[q][x] = io[q][x]
    BY <1>1, <1>4, <1>9 DEF TypeOK
  <2> QED
    BY <1>5, <1>7, <2>1, <2>2
<1> QED
  BY <1>8, <1>9

(* A stream is closed, by the script or the collector. *)
LEMMA CloseTable ==
  ASSUME ProcessInv, NEW q \in Process, NEW s \in Stream, q \notin threw,
         at = "idle" \/ (at = "wrap" /\ q # who),
         table' = [table EXCEPT ![Script] = CloseFd(@, io[q][s])],
         io' = [io EXCEPT ![q][s] = NoFd],
         UNCHANGED <<at, who, made, threw>>
  PROVE  TableInv'
<1>1. TypeOK /\ CallInv /\ ObjectInv /\ TableInv
  BY DEF ProcessInv
<1> DEFINE T == table[Script]
           own == <<q, s, OwnMode(q, s)>>
<1>2. T \in Table /\ table'[Script] = CloseFd(T, io[q][s])
  BY <1>1 DEF TypeOK, KernelTypeOK, Process
<1>3. \A g \in Fd : table'[Script][g] = IF g = io[q][s] THEN Free ELSE T[g]
  <2> HIDE DEF T
  <2> QED
    BY <1>2, CloseFdIs
<1> HIDE DEF T
<1>4. \A e \in End, f \in Fd : e[1] \notin threw => (T[f] = e <=> Home(e) = f)
  BY <1>1 DEF TableInv, T
<1>5. at \in Making => q # who
  BY DEF Making
<1>6. own \in End /\ own[1] = q /\ own[2] = s /\ own[3] = OwnMode(q, s)
  BY DEF End, OwnMode
<1>7. Home(own) = io[q][s]
  BY <1>5, <1>6 DEF Home
<1>8. /\ io'[q][s] = NoFd
      /\ \A p \in Process, x \in Stream : p # q \/ x # s => io'[p][x] = io[p][x]
  BY <1>1 DEF TypeOK
<1> HIDE DEF own
<1> SUFFICES ASSUME NEW e \in End, NEW f \in Fd, e[1] \notin threw
             PROVE  table'[Script][f] = e <=> Home(e)' = f
  BY DEF TableInv
<1>9. T[f] = e <=> Home(e) = f
  BY <1>4
<1>10. e # Free /\ NoFd # f
  BY EndIs, NoFdIsNone
<1>11. MadeStreams' = MadeStreams
  BY DEF MadeStreams
<1>12. CASE e = own
  <2>1. Home(e)' = NoFd
    BY <1>5, <1>6, <1>8, <1>12 DEF Home, OwnMode
  <2> QED
    BY <2>1, <1>3, <1>7, <1>9, <1>10, <1>12
<1>13. CASE e # own
  <2>1. Home(e)' = Home(e)
    <3>1. PICK p \in Process, x \in Stream, mode \in {"r", "w"} : e = <<p, x, mode>>
      BY EndIs
    <3>2. mode = OwnMode(p, x) => p # q \/ x # s
      BY <1>13, <3>1 DEF own
    <3> QED
      BY <1>8, <1>11, <3>1, <3>2 DEF Home, OwnMode
  <2>2. io[q][s] = f => T[f] = own
    BY <1>4, <1>6, <1>7
  <2> QED
    BY <2>1, <2>2, <1>3, <1>9, <1>10, <1>13
<1> QED
  BY <1>12, <1>13

LEMMA NextTable ==
  ASSUME ProcessInv, [Next]_vars
  PROVE  TableInv'
<1>1. TypeOK /\ CallInv /\ ObjectInv /\ TableInv
  BY DEF ProcessInv
<1>2. /\ Script \notin Children /\ Script \in Process /\ Script \notin threw
      /\ table \in [Process -> Table]
  BY <1>1, DescriptorsAssumption DEF Process, TypeOK, KernelTypeOK
<1>3. CASE Popen
  <2>1. /\ at = "idle" /\ at' = "pipe_out" /\ who' \in Unused
        /\ UNCHANGED <<table, io, made, threw>>
    BY <1>3 DEF Popen, kernelVars, objectVars
  <2>2. who' \in Children /\ \A s \in Stream : io[who'][s] = NoFd
    BY <1>1, <2>1 DEF Unused, ObjectInv, ObjectsOf
  <2>3. MadeStreams' = {} /\ at \notin Making /\ at' \in Making
    BY <2>1 DEF MadeStreams, Making
  <2> SUFFICES ASSUME NEW e \in End, NEW f \in Fd, e[1] \notin threw
               PROVE  table[Script][f] = e <=> Home(e)' = f
    BY <2>1 DEF TableInv
  <2>4. Home(e)' = Home(e)
    <3>1. PICK q \in Process, x \in Stream, mode \in {"r", "w"} : e = <<q, x, mode>>
      BY EndIs
    <3> QED
      BY <2>1, <2>2, <2>3, <3>1 DEF Home, OwnMode
  <2> QED
    BY <1>1, <2>1, <2>4 DEF TableInv
<1>4. CASE Pipes
  BY <1>4, MakePipeTable DEF Pipes, Stream
<1>5. CASE PipeFails
  <2>1. /\ at \in Making /\ at' \notin Making /\ threw' = threw \cup {who} /\ at # "dead"
        /\ UNCHANGED <<table, io, made>>
    BY <1>5 DEF PipeFails, Return, Making, kernelVars
  <2> SUFFICES ASSUME NEW e \in End, NEW f \in Fd, e[1] \notin threw, e[1] # who
               PROVE  table[Script][f] = e <=> Home(e)' = f
    BY <2>1 DEF TableInv
  <2>2. Home(e)' = Home(e)
    BY <2>1 DEF Home, OwnMode
  <2> QED
    BY <1>1, <2>1, <2>2 DEF TableInv
<1>6. CASE Fork \/ ForkFails
  <2>1. /\ at = "fork" /\ at' = "close" /\ who \in Children
        /\ UNCHANGED <<who, io, made, threw>>
    BY <1>1, <1>6 DEF Fork, ForkFails, CallInv, Making, objectVars
  <2>2. table'[Script] = table[Script]
    BY <1>2, <1>6, <2>1 DEF Fork, ForkFails, kernelVars
  <2>3. MadeStreams = Stream /\ MadeStreams' = Stream /\ at \in Making /\ at' \in Making
    BY <2>1 DEF MadeStreams, Making
  <2> SUFFICES ASSUME NEW e \in End, NEW f \in Fd, e[1] \notin threw
               PROVE  table[Script][f] = e <=> Home(e)' = f
    BY <2>1, <2>2 DEF TableInv
  <2>4. Home(e)' = Home(e)
    BY <2>1, <2>3 DEF Home, OwnMode
  <2> QED
    BY <1>1, <2>1, <2>4 DEF TableInv
<1>7. CASE CloseOtherEnds
  BY <1>7, CloseOtherEndsTable
<1>8. CASE Wrap
  BY <1>8, WrapTable
<1>9. ASSUME NEW c \in Children,
             (\E s \in Stream : BeginRead(c, s)) \/ BeginWrite(c) \/ BeginWait(c)
      PROVE  TableInv'
  BY <1>9, TableKept DEF BeginRead, BeginWrite, BeginWait, kernelVars, objectVars, Making
<1>10. CASE Read \/ Write
  BY <1>10, TableKept DEF Read, ReadByte, ReadEnd, Write, Return, Making, objectVars
<1>11. CASE WriteKills
  BY <1>11 DEF WriteKills, TableInv
<1>12. CASE Wait \/ WaitFails
  BY <1>12, TableKept DEF Wait, WaitFails, Return, Making, objectVars, kernelVars
<1>13. ASSUME NEW c \in Children, FinalizePopen(c) PROVE TableInv'
  BY <1>13, TableKept DEF FinalizePopen, callVars, kernelVars
<1>14. ASSUME NEW c \in Children, NEW x \in Object, Lose(c, x) PROVE TableInv'
  BY <1>14, TableKept DEF Lose, callVars, kernelVars
<1>15. ASSUME NEW q \in Process, NEW s \in Stream, Close(q, s) PROVE TableInv'
  <2>1. q \notin threw
    <3>1. q # Script => q \in Children /\ alive[q] # {}
      BY <1>15 DEF Close, CanClose, Reachable, Process
    <3> QED
      BY <1>1, <1>2, <3>1 DEF ObjectInv, ObjectsOf
  <2> QED
    BY <1>15, <2>1, CloseTable DEF Close, Forget, callVars
<1>16. ASSUME NEW c \in Children, NEW s \in Stream, FinalizeIO(c, s) PROVE TableInv'
  <2>1. c \notin threw /\ (at = "wrap" => c # who)
    BY <1>1, <1>16 DEF FinalizeIO, MayCollect, ObjectInv, ObjectsOf, Making
  <2> QED
    BY <1>16, <2>1, CloseTable DEF FinalizeIO, MayCollect, callVars, Process
<1>17. ASSUME NEW c \in Children, ChildNext(c) PROVE TableInv'
  <2>1. table'[Script] = table[Script]
    BY <1>2, <1>17 DEF ChildNext, Exec, ChildExits, ChildReads, ChildWrites, Exit
  <2>2. UNCHANGED <<io, made, threw, at, who>>
    BY <1>17 DEF ChildNext, Exec, ChildExits, ChildReads, ChildWrites, callVars, objectVars
  <2> QED
    BY <2>1, <2>2, TableKept
<1>18. CASE UNCHANGED vars
  BY <1>18, TableKept DEF vars, callVars, objectVars, kernelVars
<1> QED
  BY <1>3, <1>4, <1>5, <1>6, <1>7, <1>8, <1>9, <1>10, <1>11, <1>12, <1>13, <1>14, <1>15, <1>16, <1>17, <1>18
     DEF Next, ScriptNext, CallGoesOn

-----------------------------------------------------------------------------
(***************************************************************************)
(* How children are wired.                                                 *)
(***************************************************************************)

(* What a step does to a child. *)
LEMMA ChildStep ==
  ASSUME TypeOK, CallInv, [Next]_vars, NEW c \in Children
  PROVE  \/ proc'[c] = proc[c] /\ table'[c] = table[c]
         \/ Fork /\ who = c
         \/ Exec(c)
         \/ proc'[c] \in {"zombie", "reaped"}
<1> DEFINE Kept == proc'[c] = proc[c] /\ table'[c] = table[c]
<1>1. /\ c # Script /\ c \in Process
      /\ proc \in [Children -> {"none", "forked", "running", "zombie", "reaped"}]
      /\ table \in [Process -> Table]
  BY DescriptorsAssumption DEF Process, TypeOK, KernelTypeOK
<1>2. CASE Popen \/ PipeFails \/ ForkFails \/ Wrap \/ WaitFails
  BY <1>2 DEF Popen, PipeFails, ForkFails, Wrap, WaitFails, processVars, kernelVars
<1>3. CASE Pipes
  BY <1>1, <1>3 DEF Pipes, MakePipe, processVars
<1>4. CASE Fork
  BY <1>1, <1>4 DEF Fork
<1>5. CASE CloseOtherEnds \/ Read \/ Write \/ WriteKills
  BY <1>1, <1>5 DEF CloseOtherEnds, Read, Write, WriteKills, processVars
<1>6. CASE Wait
  BY <1>1, <1>6 DEF Wait, Waited, kernelVars
<1>7. ASSUME NEW d \in Children, NEW s \in Stream,
             BeginWrite(d) \/ BeginWait(d) \/ BeginRead(d, s) \/ FinalizeIO(d, s)
      PROVE  Kept
  BY <1>1, <1>7 DEF BeginWrite, BeginWait, BeginRead, FinalizeIO, processVars, kernelVars
<1>8. ASSUME NEW d \in Children, FinalizePopen(d) PROVE Kept \/ proc'[c] = "reaped"
  BY <1>1, <1>8 DEF FinalizePopen, Waited, kernelVars
<1>9. ASSUME NEW d \in Children, NEW x \in Object, Lose(d, x) PROVE Kept
  BY <1>9 DEF Lose, processVars, kernelVars
<1>10. ASSUME NEW q \in Process, NEW s \in Stream, Close(q, s) PROVE Kept
  BY <1>1, <1>10 DEF Close, processVars
<1>11. ASSUME NEW d \in Children, ChildNext(d)
       PROVE  Kept \/ Exec(c) \/ proc'[c] = "zombie"
  BY <1>1, <1>11 DEF ChildNext, Exec, ChildExits, ChildReads, ChildWrites, Exit, processVars
<1>12. CASE UNCHANGED vars
  BY <1>12 DEF vars, kernelVars, processVars
<1>13. \E s \in Stream : TRUE
  BY DEF Stream
<1> QED
  BY <1>2, <1>3, <1>4, <1>5, <1>6, <1>7, <1>8, <1>9, <1>10, <1>11, <1>12, <1>13
     DEF Next, ScriptNext, CallGoesOn

(* What a step does to the script while popenImpl makes pipes.             *)
LEMMA ScriptStep ==
  ASSUME TypeOK, CallInv, [Next]_vars
  PROVE  \/ Pipes
         \/ made' = made /\ (\/ at' \notin {"pipe_in", "pipe_err", "fork"}
                             \/ UNCHANGED <<at, who>> /\ table'[Script] = table[Script])
<1> DEFINE Kept == made' = made /\ (\/ at' \notin {"pipe_in", "pipe_err", "fork"}
                                    \/ UNCHANGED <<at, who>> /\ table'[Script] = table[Script])
<1>1. Script \notin Children /\ Script \in Process /\ table \in [Process -> Table]
  BY DescriptorsAssumption DEF Process, TypeOK, KernelTypeOK
<1>2. CASE Popen \/ PipeFails \/ Fork \/ ForkFails \/ CloseOtherEnds \/ Wrap \/ Wait \/ WaitFails
  BY <1>2 DEF Popen, PipeFails, Fork, ForkFails, CloseOtherEnds, Wrap, Wait, WaitFails, Return, objectVars
<1>3. CASE Read \/ Write \/ WriteKills
  BY <1>3 DEF Read, ReadByte, ReadEnd, Write, WriteKills, Return, objectVars
<1>4. ASSUME NEW c \in Children, NEW s \in Stream,
             BeginWrite(c) \/ BeginWait(c) \/ BeginRead(c, s)
      PROVE  Kept
  BY <1>4 DEF BeginWrite, BeginWait, BeginRead, objectVars
<1>5. ASSUME NEW c \in Children, NEW s \in Stream, FinalizeIO(c, s) PROVE Kept
  BY <1>5 DEF FinalizeIO, MayCollect, callVars
<1>6. ASSUME NEW c \in Children, FinalizePopen(c) PROVE Kept
  BY <1>6 DEF FinalizePopen, MayCollect, callVars
<1>7. ASSUME NEW c \in Children, NEW x \in Object, Lose(c, x) PROVE Kept
  BY <1>7 DEF Lose, callVars
<1>8. ASSUME NEW q \in Process, NEW s \in Stream, Close(q, s) PROVE Kept
  BY <1>8 DEF Close, callVars
<1>9. ASSUME NEW c \in Children, ChildNext(c) PROVE Kept
  BY <1>1, <1>9
     DEF ChildNext, Exec, ChildExits, ChildReads, ChildWrites, Exit, callVars, objectVars
<1>10. CASE UNCHANGED vars
  BY <1>10 DEF vars, callVars, objectVars, kernelVars
<1>11. \E s \in Stream : TRUE
  BY DEF Stream
<1> QED
  BY <1>2, <1>3, <1>4, <1>5, <1>6, <1>7, <1>8, <1>9, <1>10, <1>11 DEF Next, ScriptNext, CallGoesOn

(* A child starts with what the script has at fork(). *)
LEMMA NextForks ==
  ASSUME ProcessInv, NEW own \in Stream, LowInv(own), ForkInv, [Next]_vars
  PROVE  ForkInv'
<1>1. TypeOK /\ CallInv /\ ObjectInv /\ TableInv
  BY DEF ProcessInv
<1> DEFINE ForkedAs(c) ==
      /\ \A e \in End, f \in Fd : e[1] = c => (table[c][f] = e <=> f = Place(made[c], e[2], e[3]))
      /\ made[c]["in"][1] >= 3 /\ made[c]["out"][2] >= 3 /\ made[c]["err"][2] >= 3
<1> SUFFICES ASSUME NEW c \in Children, proc'[c] = "forked" PROVE ForkedAs(c)'
  BY Zenon DEF ForkInv
<1>2. CASE Fork /\ who = c
  <2>1. at = "fork" /\ made' = made /\ table'[c] = table[Script]
    BY <1>1, <1>2 DEF Fork, objectVars, TypeOK, KernelTypeOK, Process
  <2>2. c \notin threw /\ at \in Making /\ MadeStreams = Stream
    BY <1>1, <1>2, <2>1 DEF ObjectInv, ObjectsOf, Making, MadeStreams
  <2>3. \A e \in End : e[1] = c => Home(e) = Place(made[c], e[2], e[3])
    BY <1>2, <2>1, <2>2, EndIs DEF Home
  <2>4. ASSUME NEW e \in End, NEW f \in Fd, e[1] = c
        PROVE  table'[c][f] = e <=> f = Place(made'[c], e[2], e[3])
    BY <1>1, <2>1, <2>2, <2>3, <2>4 DEF TableInv
  <2>5. made[c]["in"][1] >= 3 /\ made[c]["out"][2] >= 3 /\ made[c]["err"][2] >= 3
    BY <1>2, <2>1 DEF LowInv
  <2> QED
    BY <2>1, <2>4, <2>5
<1>3. CASE proc'[c] = proc[c] /\ table'[c] = table[c]
  <2>1. made'[c] = made[c]
    <3>1. CASE Pipes
      <4>1. pid[c] # 0
        BY <1>1, <1>3 DEF ObjectInv, ObjectsOf
      <4>2. who # c
        BY <1>1, <3>1, <4>1 DEF ObjectInv, ObjectsOf, Pipes, MakePipe, Making
      <4> QED
        BY <1>1, <3>1, <4>2 DEF Pipes, MakePipe, TypeOK
    <3> QED
      BY <1>1, <3>1, ScriptStep
  <2>2. ForkedAs(c)
    BY <1>3 DEF ForkInv
  <2> QED
    BY <1>3, <2>1, <2>2
<1> QED
  BY <1>1, <1>2, <1>3, ChildStep DEF Exec, TypeOK

(* Of 0, 1 and 2, only Standard(own) may be free. *)
LEMMA LowTaken ==
  ASSUME ProcessInv, NEW own \in Stream, LowInv(own), at # "dead",
         NEW f \in Fd, f \in 0..2, table[Script][f] = Free
  PROVE  f = Standard(own)
<1>1. PICK s \in Stream : f = Standard(s)
  <2>1. Standard("in") = 0 /\ Standard("out") = 1 /\ Standard("err") = 2
    BY Zenon DEF Standard
  <2>2. f \in {0, 1, 2}
    OBVIOUS
  <2> QED
    BY <2>1, <2>2, Zenon DEF Stream
<1>2. CASE s # own
  <2> DEFINE e == <<Script, s, OwnMode(Script, s)>>
  <2>1. e \in End /\ e[1] = Script /\ e[2] = s /\ e[3] = OwnMode(Script, s) /\ e # Free
    BY EndIs DEF End, OwnMode, Process
  <2>2. io[Script][s] = f
    BY <1>1, <1>2 DEF LowInv
  <2>3. at \in Making => who # Script
    BY DescriptorsAssumption DEF ProcessInv, CallInv
  <2>4. Home(e) = f
    BY <2>1, <2>2, <2>3 DEF Home
  <2>5. Script \notin threw
    BY DescriptorsAssumption DEF ProcessInv, TypeOK
  <2> HIDE DEF e
  <2>6. table[Script][f] = e
    BY <2>1, <2>4, <2>5 DEF ProcessInv, TableInv
  <2> QED
    BY <2>1, <2>6
<1> QED
  BY <1>1, <1>2

(* Then pipe() puts the write end, and once 0, 1 and 2 are taken the read  *)
(* end, above them.                                                        *)
LEMMA LowPipe ==
  ASSUME ProcessInv, NEW own \in Stream, LowInv(own), at # "dead",
         Cardinality(FreeFds(table[Script])) >= 2
  PROVE  LET T == table[Script] IN
         /\ PipeFds(T)[2] >= 3
         /\ \A f \in 0..2 : T[f] = Free => f = PipeFds(T)[1]
         /\ (\A f \in 0..2 : T[f] # Free) => PipeFds(T)[1] >= 3
<1> DEFINE T == table[Script]
           r == PipeFds(T)[1]
           w == PipeFds(T)[2]
<1>1. T \in Table /\ Cardinality(FreeFds(T)) >= 2
  BY DEF ProcessInv, TypeOK, KernelTypeOK, Process
<1>2. /\ r \in Fd /\ w \in Fd /\ r < w /\ T[r] = Free /\ T[w] = Free
      /\ \A g \in Fd : T[g] = Free => r <= g
  <2> HIDE DEF T
  <2> QED
    BY <1>1, PipeFdsAre
<1>3. \A f \in 0..2 : T[f] = Free => f = Standard(own)
  <2>1. 0..2 \subseteq Fd
    BY DescriptorsAssumption DEF Fd
  <2> QED
    BY <2>1, LowTaken
<1> HIDE DEF r, w, T
<1>4. r \in Nat /\ w \in Nat
  BY <1>2, DescriptorsAssumption DEF Fd
<1>5. w >= 3
  <2> SUFFICES ASSUME w <= 2 PROVE FALSE
    BY <1>4
  <2>1. w \in 0..2 /\ r \in 0..2
    BY <1>2, <1>4
  <2> QED
    BY <1>2, <1>3, <1>4, <2>1
<1>6. ASSUME NEW f \in 0..2, T[f] = Free PROVE f = r
  <2>1. f \in Fd
    BY DescriptorsAssumption DEF Fd
  <2>2. r <= f
    BY <1>2, <1>6, <2>1
  <2>3. r \in 0..2
    BY <1>4, <2>2
  <2> QED
    BY <1>2, <1>3, <1>6, <2>3
<1>7. ASSUME \A f \in 0..2 : T[f] # Free PROVE r >= 3
  <2> SUFFICES ASSUME r <= 2 PROVE FALSE
    BY SMTT(40), <1>4
  <2> QED
    BY <1>2, <1>4, <1>7
<1> QED
  BY <1>5, <1>6, <1>7 DEF r, w, T

LEMMA NextLow ==
  ASSUME ProcessInv, NEW own \in Stream, Closable[Script] \subseteq {own},
         LowInv(own), [Next]_vars
  PROVE  LowInv(own)'
<1>1. TypeOK /\ CallInv /\ at \in Calls
  BY SMTT(40) DEF ProcessInv, TypeOK
<1>2. at' # "dead" => at # "dead"
  BY DEF Next, ScriptNext, CallGoesOn, Popen, Pipes, MakePipe, PipeFails, Fork, ForkFails,
         CloseOtherEnds, Wrap, Read, Write, WriteKills, Wait, WaitFails, BeginWrite, BeginWait,
         FinalizePopen, BeginRead, FinalizeIO, MayCollect, Lose, Close, ChildNext, Exec,
         ChildExits, ChildReads, ChildWrites, callVars, vars
<1> SUFFICES ASSUME at # "dead", at' # "dead" PROVE LowInv(own)'
  BY <1>2 DEF LowInv
<1>3. ASSUME NEW s \in Stream \ {own} PROVE io'[Script][s] = Standard(s)
  <2>1. io[Script][s] = Standard(s)
    BY DEF LowInv
  <2>2. io'[Script][s] = io[Script][s]
    <3>1. io \in [Process -> [Stream -> Fd \cup {NoFd}]] /\ Script \notin Children
      BY <1>1, DescriptorsAssumption DEF TypeOK
    <3>2. CASE Wrap
      BY <1>1, <3>1, <3>2 DEF Wrap, CallInv, Making
    <3>3. ASSUME NEW c \in Children, NEW x \in Stream, FinalizeIO(c, x)
          PROVE  io'[Script][s] = io[Script][s]
      BY <3>1, <3>3 DEF FinalizeIO
    <3>4. ASSUME NEW q \in Process, NEW x \in Stream, Close(q, x)
          PROVE  io'[Script][s] = io[Script][s]
      <4>1. q = Script => x # s
        BY SMTT(40), <3>4 DEF Close, CanClose
      <4> QED
        BY <3>1, <3>4, <4>1 DEF Close, Forget
    <3>5. \/ io' = io \/ Wrap
          \/ \E c \in Children, x \in Stream : FinalizeIO(c, x)
          \/ \E q \in Process, x \in Stream : Close(q, x)
      BY DEF Next, ScriptNext, CallGoesOn, Popen, Pipes, MakePipe, PipeFails, Fork, ForkFails,
             CloseOtherEnds, Read, Write, WriteKills, Wait, WaitFails, BeginWrite, BeginWait,
             FinalizePopen, BeginRead, Lose, ChildNext, Exec, ChildExits, ChildReads,
             ChildWrites, objectVars, vars
    <3> QED
      BY <3>2, <3>3, <3>4, <3>5
  <2> QED
    BY <2>1, <2>2
<1>4. CASE Pipes
  <2> DEFINE T == table[Script]
             r == PipeFds(T)[1]
             w == PipeFds(T)[2]
  <2>1. /\ who \in Children /\ who' = who /\ Cardinality(FreeFds(T)) >= 2
        /\ T \in Table /\ table \in [Process -> Table] /\ Script \in Process
    BY <1>1, <1>4 DEF Pipes, MakePipe, CallInv, Making, TypeOK, KernelTypeOK, Process
  <2>2. /\ w >= 3
        /\ \A f \in 0..2 : T[f] = Free => f = r
        /\ (\A f \in 0..2 : T[f] # Free) => r >= 3
    BY <2>1, LowPipe
  <2>3. ASSUME NEW s \in Stream, made' = [made EXCEPT ![who][s] = PipeFds(T)]
        PROVE  /\ made'[who][s] = PipeFds(T)
               /\ \A x \in Stream \ {s} : made'[who][x] = made[who][x]
    BY <1>1, <2>1, <2>3 DEF TypeOK
  <2>4. CASE MakePipe("pipe_out", "out", "pipe_in")
    <3>1. at' = "pipe_in" /\ made' = [made EXCEPT ![who]["out"] = PipeFds(T)]
          /\ table'[Script] = OpenPipe(T, who, "out")
      BY <2>1, <2>4 DEF MakePipe
    <3>2. made'[who]["out"][2] >= 3
      BY <2>2, <2>3, <3>1 DEF Stream
    <3>3. ASSUME NEW f \in 0..2 PROVE table'[Script][f] # Free
      <4>1. f \in Fd /\ who \in Process /\ "out" \in Stream
        BY <2>1, DescriptorsAssumption DEF Fd, Process, Stream
      <4>2. OpenPipe(T, who, "out")[f] = IF f = r THEN Reader(who, "out")
                                         ELSE IF f = w THEN Writer(who, "out") ELSE T[f]
        BY <2>1, <4>1, OpenPipeIs
      <4>3. Reader(who, "out") # Free /\ Writer(who, "out") # Free
        BY DEF Reader, Writer, Free
      <4> QED
        BY <2>2, <3>1, <4>2, <4>3
    <3> QED
      BY <1>3, <2>1, <3>1, <3>2, <3>3 DEF LowInv
  <2>5. CASE MakePipe("pipe_in", "in", "pipe_err")
    <3>1. at = "pipe_in" /\ at' = "pipe_err" /\ made' = [made EXCEPT ![who]["in"] = PipeFds(T)]
      BY <2>5 DEF MakePipe
    <3>2. r >= 3 /\ made[who]["out"][2] >= 3
      BY <2>2, <3>1 DEF LowInv
    <3>3. made'[who]["in"][1] >= 3 /\ made'[who]["out"][2] >= 3
      BY <2>3, <3>1, <3>2 DEF Stream
    <3> QED
      BY <1>3, <2>1, <3>1, <3>3 DEF LowInv
  <2>6. CASE MakePipe("pipe_err", "err", "fork")
    <3>1. at = "pipe_err" /\ at' = "fork" /\ made' = [made EXCEPT ![who]["err"] = PipeFds(T)]
      BY <2>6 DEF MakePipe
    <3>2. made[who]["in"][1] >= 3 /\ made[who]["out"][2] >= 3
      BY <3>1 DEF LowInv
    <3>3. made'[who]["in"][1] >= 3 /\ made'[who]["out"][2] >= 3 /\ made'[who]["err"][2] >= 3
      BY <2>2, <2>3, <3>1, <3>2 DEF Stream
    <3> QED
      BY <1>3, <2>1, <3>1, <3>3 DEF LowInv
  <2> QED
    BY <1>4, <2>4, <2>5, <2>6 DEF Pipes
<1>5. CASE /\ made' = made
           /\ \/ at' \notin {"pipe_in", "pipe_err", "fork"}
              \/ UNCHANGED <<at, who>> /\ table'[Script] = table[Script]
  BY <1>3, <1>5 DEF LowInv
<1> QED
  BY SMTT(40), <1>1, <1>4, <1>5, ScriptStep

(* What popenImpl does in the child leaves it the ends it is to keep. *)
LEMMA ExecWires ==
  ASSUME TypeOK, ObjectInv, ForkInv, NEW c \in Children, Exec(c)
  PROVE  /\ table'[c][0] = Reader(c, "in")
         /\ table'[c][1] = Writer(c, "out")
         /\ table'[c][2] = Writer(c, "err")
         /\ \A f \in Fd \ {0, 1, 2} : table'[c][f] # Free => table'[c][f][1] # c
<1> DEFINE T == table[c]
           m == made[c]
           a == m["in"][1]
           b == m["out"][2]
           d == m["err"][2]
           t1 == CloseOthers(T, m)
           t2 == Close3(t1, 0, 1, 2)
           t3 == Dup2(t2, a, 0)
           t4 == Dup2(t3, b, 1)
           t5 == Dup2(t4, d, 2)
           t6 == CloseOriginals(t5, m)
<1>1. /\ T \in Table /\ table' = [table EXCEPT ![c] = t6] /\ c \in Process
      /\ table \in [Process -> Table] /\ proc[c] = "forked"
  BY DEF Exec, ChildTable, Dup3, TypeOK, KernelTypeOK, Process
<1>2. 0 \in Fd /\ 1 \in Fd /\ 2 \in Fd
  BY DescriptorsAssumption DEF Fd
<1>3. \A s \in Stream, mode \in {"r", "w"} :
        Place(m, s, mode) \in Fd /\ T[Place(m, s, mode)] = <<c, s, mode>>
        /\ \A f \in Fd : T[f] = <<c, s, mode>> <=> f = Place(m, s, mode)
  <2> SUFFICES ASSUME NEW s \in Stream, NEW mode \in {"r", "w"}
               PROVE  Place(m, s, mode) \in Fd /\ T[Place(m, s, mode)] = <<c, s, mode>>
                      /\ \A f \in Fd : T[f] = <<c, s, mode>> <=> f = Place(m, s, mode)
    OBVIOUS
  <2>1. <<c, s, mode>> \in End
    BY <1>1 DEF End
  <2>2. \A f \in Fd : T[f] = <<c, s, mode>> <=> f = Place(m, s, mode)
    BY <1>1, <2>1 DEF ForkInv
  <2>3. m[s] \in Fd \X Fd
    BY <1>1 DEF ObjectInv, ObjectsOf
  <2>4. Place(m, s, mode) \in Fd
    BY <2>3 DEF Place
  <2> QED
    BY <2>2, <2>4
<1>4. /\ a = Place(m, "in", "r") /\ b = Place(m, "out", "w") /\ d = Place(m, "err", "w")
      /\ m["in"][2] = Place(m, "in", "w")
      /\ m["out"][1] = Place(m, "out", "r") /\ m["err"][1] = Place(m, "err", "r")
  BY DEF Place
<1>5. a >= 3 /\ b >= 3 /\ d >= 3
  BY <1>1 DEF ForkInv
<1>6. "in" \in Stream /\ "out" \in Stream /\ "err" \in Stream
  BY DEF Stream
<1>7. /\ a \in Fd /\ b \in Fd /\ d \in Fd
      /\ T[a] = <<c, "in", "r">> /\ T[b] = <<c, "out", "w">> /\ T[d] = <<c, "err", "w">>
      /\ T[a] # Free /\ T[b] # Free /\ T[d] # Free
  <2> HIDE DEF T, m, a, b, d
  <2>1. a \in Fd /\ T[a] = <<c, "in", "r">>
    BY <1>3, <1>4, <1>6
  <2>2. b \in Fd /\ T[b] = <<c, "out", "w">>
    BY <1>3, <1>4, <1>6
  <2>3. d \in Fd /\ T[d] = <<c, "err", "w">>
    BY <1>3, <1>4, <1>6
  <2> QED
    BY <2>1, <2>2, <2>3 DEF Free
<1>8. a # b /\ a # d /\ b # d
  <2> HIDE DEF T, m, a, b, d
  <2> QED
    BY <1>7
<1> DEFINE Others == {m["in"][2], m["out"][1], m["err"][1]}
<1>9. a \notin Others /\ b \notin Others /\ d \notin Others
  <2>1. /\ T[m["in"][2]] = <<c, "in", "w">>
        /\ T[m["out"][1]] = <<c, "out", "r">> /\ T[m["err"][1]] = <<c, "err", "r">>
    BY <1>3, <1>4, <1>6
  <2> HIDE DEF T, m, a, b, d
  <2>2. \A x \in Others : T[x] \notin {T[a], T[b], T[d]}
    BY <1>7, <2>1
  <2> QED
    BY <2>2
<1>10. ASSUME NEW f \in Fd \ ({a, b, d} \cup Others), T[f] # Free
       PROVE  T[f][1] # c
  <2> SUFFICES ASSUME T[f][1] = c PROVE FALSE
    OBVIOUS
  <2>1. T[f] \in End
    BY <1>1, <1>10 DEF Table
  <2>2. PICK s \in Stream, mode \in {"r", "w"} : T[f] = <<c, s, mode>>
    BY <2>1 DEF End
  <2>3. f = Place(m, s, mode)
    BY <1>3, <2>2
  <2>4. f \in {m[s][1], m[s][2]}
    BY <2>3 DEF Place
  <2> QED
    BY <2>4 DEF Stream
<1>11. t1 \in Table /\ \A f \in Fd : t1[f] = IF f \in Others THEN Free ELSE T[f]
  <2> HIDE DEF T, m
  <2> QED
    BY <1>1, Close3Is DEF CloseOthers
<1> HIDE DEF t1
<1>12. t2 \in Table /\ \A f \in Fd : t2[f] = IF f \in {0, 1, 2} THEN Free ELSE t1[f]
  BY <1>11, Close3Is
<1> HIDE DEF t2, a, b, d, m, T, Others
<1>13. /\ t2[a] = T[a] /\ t2[b] = T[b] /\ t2[d] = T[d]
  BY <1>5, <1>7, <1>9, <1>11, <1>12
<1>14. t3 \in Table /\ \A f \in Fd : t3[f] = IF f = 0 THEN T[a] ELSE t2[f]
  <2>1. t2 \in Table /\ t2[a] # Free /\ a \in Fd /\ 0 \in Fd
    BY <1>2, <1>7, <1>12, <1>13
  <2>2. /\ Dup2(t2, a, 0) \in Table
        /\ \A g \in Fd : Dup2(t2, a, 0)[g] = IF g = 0 THEN t2[a] ELSE t2[g]
    BY <2>1, Dup2Is
  <2> QED
    BY <2>2, <1>13
<1> HIDE DEF t3
<1>15. t3[b] = T[b] /\ t3[d] = T[d]
  BY <1>5, <1>7, <1>13, <1>14
<1>16. t4 \in Table /\ \A f \in Fd : t4[f] = IF f = 1 THEN T[b] ELSE t3[f]
  <2>1. t3 \in Table /\ t3[b] # Free /\ b \in Fd /\ 1 \in Fd
    BY <1>2, <1>7, <1>14, <1>15
  <2>2. /\ Dup2(t3, b, 1) \in Table
        /\ \A g \in Fd : Dup2(t3, b, 1)[g] = IF g = 1 THEN t3[b] ELSE t3[g]
    BY <2>1, Dup2Is
  <2> QED
    BY <2>2, <1>15
<1> HIDE DEF t4
<1>17. t4[d] = T[d]
  BY <1>5, <1>7, <1>15, <1>16
<1>18. t5 \in Table /\ \A f \in Fd : t5[f] = IF f = 2 THEN T[d] ELSE t4[f]
  <2>1. t4 \in Table /\ t4[d] # Free /\ d \in Fd /\ 2 \in Fd
    BY <1>2, <1>7, <1>16, <1>17
  <2>2. /\ Dup2(t4, d, 2) \in Table
        /\ \A g \in Fd : Dup2(t4, d, 2)[g] = IF g = 2 THEN t4[d] ELSE t4[g]
    BY <2>1, Dup2Is
  <2> QED
    BY <2>2, <1>17
<1> HIDE DEF t5
<1>19. \A f \in Fd : t6[f] = IF f \in {a, b, d} THEN Free ELSE t5[f]
  BY <1>18, Close3Is DEF CloseOriginals, a, b, d
<1> HIDE DEF t6
<1>20. table'[c] = t6
  BY <1>1
<1>21. t6[0] = T[a] /\ t6[1] = T[b] /\ t6[2] = T[d]
  BY <1>2, <1>5, <1>14, <1>16, <1>18, <1>19
<1>22. ASSUME NEW f \in Fd \ {0, 1, 2}, t6[f] # Free PROVE t6[f][1] # c
  <2>1. f \notin {a, b, d} /\ t6[f] = t1[f]
    BY <1>12, <1>14, <1>16, <1>18, <1>19, <1>22
  <2>2. f \notin Others /\ t6[f] = T[f]
    BY <1>11, <1>22, <2>1
  <2> QED
    BY <1>10, <1>22, <2>1, <2>2
<1> QED
  BY <1>7, <1>20, <1>21, <1>22 DEF Reader, Writer

(* A child that runs keeps its descriptors. *)
LEMMA NextWired ==
  ASSUME ProcessInv, ForkInv, ChildWired, [Next]_vars
  PROVE  ChildWired'
<1>1. TypeOK /\ CallInv /\ ObjectInv
  BY DEF ProcessInv
<1> DEFINE Wired(c) ==
      /\ table[c][0] = Reader(c, "in")
      /\ table[c][1] = Writer(c, "out")
      /\ table[c][2] = Writer(c, "err")
      /\ \A f \in Fd \ {0, 1, 2} : table[c][f] # Free => table[c][f][1] # c
<1> SUFFICES ASSUME NEW c \in Children, proc'[c] = "running" PROVE Wired(c)'
  BY Zenon DEF ChildWired
<1>2. CASE Exec(c)
  BY <1>1, <1>2, ExecWires
<1>3. CASE proc'[c] = proc[c] /\ table'[c] = table[c]
  BY <1>3 DEF ChildWired
<1> QED
  BY <1>1, <1>2, <1>3, ChildStep DEF Fork, TypeOK

-----------------------------------------------------------------------------
(***************************************************************************)
(* Whose status wait() returns.                                            *)
(***************************************************************************)

(* What fork() returned is not changed any more.                           *)
LEMMA AlikeKept ==
  ASSUME \A d \in Children : pid[d] # 0 => pid'[d] = pid[d],
         NEW c \in Children, pid[c] # 0, Alike(c)
  PROVE  Alike(c)'
<1>1. PICK d \in Children \ {c} : Confusable(c, d)
  BY DEF Alike
<1>2. NoPid # 0
  BY DEF NoPid
<1>3. Confusable(c, d)'
  BY <1>1, <1>2 DEF Confusable
<1> QED
  BY <1>3 DEF Alike

(* A child about which nothing changes but its object.                     *)
LEMMA StatusOfKept ==
  ASSUME \A d \in Children : pid[d] # 0 => pid'[d] = pid[d],
         NEW c \in Children, StatusOf(c),
         pid'[c] = pid[c], answer'[c] = answer[c],
         proc'[c] = "none" <=> proc[c] = "none",
         proc'[c] = "reaped" => proc[c] = "reaped",
         pid[c] # 0 /\ Gone(c) => Gone(c)'
  PROVE  StatusOf(c)'
<1>1. pid[c] # 0 /\ Alike(c) => Alike(c)'
  BY AlikeKept
<1>2. Status(c)' = Status(c) /\ NoAnswer' = NoAnswer
  BY DEF Status, NoAnswer
<1>3. proc[c] = "reaped" => pid[c] # 0
  BY DEF StatusOf
<1> QED
  BY <1>1, <1>2, <1>3 DEF StatusOf

(* An object that is gone does not come back.                              *)
LEMMA GoneStays ==
  ASSUME ProcessInv, [Next]_vars, NEW c \in Children, pid[c] # 0, Gone(c)
  PROVE  Gone(c)'
<1>1. TypeOK /\ CallInv /\ ObjectInv
  BY DEF ProcessInv
<1>2. CASE at' \notin Making /\ alive'[c] \subseteq alive[c]
  BY <1>2 DEF Gone
<1>3. CASE UNCHANGED <<at, who>> /\ alive'[c] \subseteq alive[c]
  BY <1>3 DEF Gone
<1>4. CASE Popen
  BY <1>4 DEF Popen, Unused, objectVars, Gone
<1>5. CASE Pipes \/ Fork \/ ForkFails \/ CloseOtherEnds
  BY <1>5 DEF Pipes, MakePipe, Fork, ForkFails, CloseOtherEnds, objectVars, Gone, Making
<1>6. CASE Wrap
  <2>1. who # c
    BY <1>6 DEF Wrap, Gone, Making
  <2>2. alive'[c] = alive[c] /\ at' \notin Making
    BY <1>1, <1>6, <2>1 DEF Wrap, TypeOK, Return, Making
  <2> QED
    BY <1>2, <2>2
<1>7. CASE PipeFails \/ Write \/ WriteKills \/ Wait \/ WaitFails
  BY <1>2, <1>7 DEF PipeFails, Write, WriteKills, Wait, WaitFails, Return, Making, objectVars
<1>8. CASE Read
  BY <1>2, <1>3, <1>8 DEF Read, ReadByte, ReadEnd, Return, Making, objectVars
<1>9. ASSUME NEW d \in Children, NEW s \in Stream,
             BeginWrite(d) \/ BeginWait(d) \/ BeginRead(d, s)
      PROVE  Gone(c)'
  BY <1>2, <1>9 DEF BeginWrite, BeginWait, BeginRead, Making, objectVars
<1>10. ASSUME NEW d \in Children, NEW s \in Stream, FinalizeIO(d, s) \/ FinalizePopen(d)
       PROVE  Gone(c)'
  <2>1. CASE FinalizeIO(d, s)
    BY <1>1, <1>3, <2>1 DEF FinalizeIO, TypeOK, callVars
  <2>2. CASE FinalizePopen(d)
    BY <1>1, <1>3, <2>2 DEF FinalizePopen, TypeOK, callVars
  <2> QED
    BY <1>10, <2>1, <2>2
<1>11. ASSUME NEW d \in Children, NEW x \in Object, Lose(d, x) PROVE Gone(c)'
  BY <1>3, <1>11 DEF Lose, callVars
<1>12. ASSUME NEW q \in Process, NEW s \in Stream, Close(q, s) PROVE Gone(c)'
  BY <1>3, <1>12 DEF Close, callVars
<1>13. ASSUME NEW d \in Children, ChildNext(d) PROVE Gone(c)'
  BY <1>3, <1>13 DEF ChildNext, Exec, ChildExits, ChildReads, ChildWrites, callVars, objectVars
<1>14. CASE UNCHANGED vars
  BY <1>3, <1>14 DEF vars, callVars, objectVars
<1>15. \E s \in Stream : TRUE
  BY DEF Stream
<1> QED
  BY <1>4, <1>5, <1>6, <1>7, <1>8, <1>9, <1>10, <1>11, <1>12, <1>13, <1>14, <1>15
     DEF Next, ScriptNext, CallGoesOn

(* A step that leaves the children the kernel knows and the answers alone, *)
(* or lets a child go on.                                                  *)
LEMMA StatusKept ==
  ASSUME ProcessInv, StatusInv, [Next]_vars, UNCHANGED <<pid, answer>>,
         \A c \in Children : /\ proc'[c] = "none" <=> proc[c] = "none"
                             /\ proc'[c] = "reaped" => proc[c] = "reaped",
         at' = "wait" => "popen" \in alive'[who']
  PROVE  StatusInv'
<1> SUFFICES ASSUME NEW c \in Children PROVE StatusOf(c)'
  BY DEF StatusInv
<1>1. StatusOf(c)
  BY DEF StatusInv
<1>2. pid[c] # 0 /\ Gone(c) => Gone(c)'
  BY GoneStays
<1> QED
  BY <1>1, <1>2, StatusOfKept

(* fork()                                                                  *)
LEMMA ForkStatus ==
  ASSUME ProcessInv, StatusInv, [Next]_vars, Fork \/ ForkFails
  PROVE  StatusInv'
<1>1. TypeOK /\ CallInv /\ ObjectInv
  BY DEF ProcessInv
<1>2. /\ at = "fork" /\ at' = "close" /\ who \in Children /\ pid[who] = 0
      /\ UNCHANGED <<who, answer>>
  BY <1>1 DEF Fork, ForkFails, CallInv, ObjectInv, ObjectsOf, Making
<1>3. /\ \A c \in Children \ {who} : pid'[c] = pid[c] /\ proc'[c] = proc[c]
      /\ pid'[who] # 0
      /\ pid'[who] \in {0, NoPid} <=> proc'[who] = "none"
      /\ proc'[who] # "reaped"
  <2>1. 0 \notin Pids /\ NoPid \notin Pids /\ NoPid # 0
    BY ProcessesAssumption DEF NoPid
  <2>2. proc[who] = "none"
    BY <1>2 DEF StatusInv, StatusOf
  <2>3. CASE Fork
    BY <1>1, <1>2, <2>1, <2>3 DEF Fork, TypeOK
  <2>4. CASE ForkFails
    BY <1>1, <1>2, <2>1, <2>2, <2>4 DEF ForkFails, TypeOK
  <2> QED
    BY <2>3, <2>4
<1> SUFFICES ASSUME NEW c \in Children PROVE StatusOf(c)'
  BY <1>2 DEF StatusInv
<1>4. StatusOf(c)
  BY DEF StatusInv
<1>5. CASE c = who
  <2>1. answer'[c] = NoAnswer'
    BY <1>2, <1>4, <1>5 DEF StatusOf, NoAnswer
  <2> QED
    BY <1>3, <1>5, <2>1 DEF StatusOf
<1>6. CASE c # who
  <2>1. pid[c] # 0 /\ Gone(c) => Gone(c)'
    BY GoneStays
  <2>2. \A d \in Children : pid[d] # 0 => pid'[d] = pid[d]
    BY <1>2, <1>3
  <2> QED
    BY <1>2, <1>3, <1>4, <1>6, <2>1, <2>2, StatusOfKept
<1> QED
  BY <1>5, <1>6

(* waitpid() that returns.                                                 *)
LEMMA WaitStatus ==
  ASSUME ProcessInv, StatusInv, [Next]_vars, Wait \/ WaitFails
  PROVE  StatusInv'
<1>1. TypeOK /\ CallInv /\ ObjectInv
  BY DEF ProcessInv
<1>2. /\ at = "wait" /\ who \in Children /\ "popen" \in alive[who] /\ at' = "idle"
      /\ UNCHANGED <<pid, alive>>
  BY <1>1 DEF Wait, WaitFails, CallInv, StatusInv, Return, objectVars
<1>3. pid[who] # 0
  BY <1>1, <1>2 DEF ObjectInv, ObjectsOf
<1>4. \A c \in Children : StatusOf(c)
  BY DEF StatusInv
<1>5. \A c \in Children : pid[c] # 0 /\ Gone(c) => Gone(c)'
  BY GoneStays
<1>6. ~Gone(who)
  BY <1>2 DEF Gone
<1> SUFFICES ASSUME NEW c \in Children PROVE StatusOf(c)'
  BY <1>2 DEF StatusInv
<1>7. Alike(c)' = Alike(c)
  BY <1>2 DEF Alike, Confusable
<1>8. Status(c)' = Status(c) /\ NoAnswer' = NoAnswer
  BY DEF Status, NoAnswer
<1>9. CASE WaitFails
  <2>1. proc' = proc /\ Waited(pid[who]) = {} /\ Answered(who, Unknown)
    BY <1>9 DEF WaitFails
  <2>2. CASE c # who \/ answer[who] # NoAnswer
    <3>1. answer'[c] = answer[c]
      BY <1>1, <2>1, <2>2 DEF Answered, TypeOK
    <3> QED
      BY <1>2, <1>4, <1>5, <2>1, <3>1, StatusOfKept
  <2>3. CASE c = who /\ answer[who] = NoAnswer
    <3>1. pid[c] = NoPid \/ Alike(c)
      <4>1. CASE pid[c] # NoPid
        <5>1. proc[c] # "none"
          BY <1>3, <1>4, <2>3, <4>1 DEF StatusOf
        <5>2. c \notin Waited(pid[c])
          BY <2>1, <2>3
        <5>3. proc[c] = "reaped"
          BY <1>1, <5>1, <5>2 DEF Waited, TypeOK
        <5> QED
          BY <1>4, <1>6, <2>3, <5>3 DEF StatusOf
      <4> QED
        BY <4>1
    <3>2. answer'[c] = Unknown
      BY <1>1, <2>1, <2>3 DEF Answered, TypeOK
    <3>3. Unknown # NoAnswer
      BY DEF Unknown, NoAnswer
    <3> QED
      BY <1>2, <1>3, <1>4, <1>7, <1>8, <2>1, <2>3, <3>1, <3>2, <3>3 DEF StatusOf
  <2> QED
    BY <2>2, <2>3
<1>10. CASE Wait
  <2>1. PICK d \in Waited(pid[who]) : /\ proc[d] = "zombie"
                                      /\ proc' = [proc EXCEPT ![d] = "reaped"]
                                      /\ Answered(who, Status(d))
    BY <1>10 DEF Wait
  <2>2. d \in Children /\ (pid[who] = pid[d] \/ pid[who] = NoPid)
    BY <2>1 DEF Waited
  <2>3. d # who => Confusable(who, d) /\ Confusable(d, who)
    BY <2>2 DEF Confusable
  <2>4. d # who => Alike(who) /\ Alike(d)
    BY <1>2, <2>2, <2>3 DEF Alike
  <2>5. /\ proc'[d] = "reaped"
        /\ \A b \in Children \ {d} : proc'[b] = proc[b]
    BY <1>1, <2>1, <2>2 DEF TypeOK
  <2>6. Status(d) # NoAnswer
    BY <2>2, DescriptorsAssumption DEF Status, NoAnswer
  <2>7. CASE c = who
    <3>1. answer'[c] # NoAnswer
      BY <1>1, <1>2, <2>1, <2>6, <2>7 DEF Answered, TypeOK
    <3>2. answer'[c] \notin {NoAnswer, Status(c)} => pid[c] = NoPid \/ Alike(c)
      <4>1. CASE answer[c] # NoAnswer
        BY <1>4, <2>1, <2>7, <4>1 DEF StatusOf, Answered
      <4>2. CASE answer[c] = NoAnswer
        <5>1. answer'[c] = Status(d)
          BY <1>1, <2>1, <2>7, <4>2 DEF Answered, TypeOK
        <5> QED
          BY <2>4, <2>7, <5>1
      <4> QED
        BY <4>1, <4>2
    <3>3. pid[c] \in {0, NoPid} <=> proc'[c] = "none"
      <4>1. proc'[c] = "none" <=> proc[c] = "none"
        BY <2>1, <2>5
      <4> QED
        BY <1>4, <4>1 DEF StatusOf
    <3> QED
      BY <1>2, <1>3, <1>7, <1>8, <2>7, <3>1, <3>2, <3>3 DEF StatusOf
  <2>8. CASE c # who
    <3>1. answer'[c] = answer[c]
      BY <1>1, <2>1, <2>8 DEF Answered, TypeOK
    <3>2. CASE c # d
      BY <1>2, <1>4, <1>5, <2>5, <3>1, <3>2, StatusOfKept
    <3>3. CASE c = d
      BY <1>2, <1>4, <1>7, <1>8, <2>1, <2>4, <2>5, <2>8, <3>1, <3>3 DEF StatusOf
    <3> QED
      BY <3>2, <3>3
  <2> QED
    BY <2>7, <2>8
<1> QED
  BY <1>9, <1>10

(* Popen_finalize                                                          *)
LEMMA FinalizeStatus ==
  ASSUME ProcessInv, StatusInv, [Next]_vars, NEW b \in Children, FinalizePopen(b)
  PROVE  StatusInv'
<1>1. TypeOK /\ CallInv /\ ObjectInv
  BY DEF ProcessInv
<1>2. /\ at # "wait" /\ at' = at /\ who' = who /\ UNCHANGED <<pid, answer>>
      /\ "popen" \in alive[b] /\ "popen" \notin alive'[b]
  BY <1>1 DEF FinalizePopen, MayCollect, callVars, TypeOK
<1>3. \A c \in Children : StatusOf(c)
  BY DEF StatusInv
<1>4. Gone(b)'
  <2>1. ~(at \in Making /\ who = b)
    BY <1>1, <1>2 DEF ObjectInv, ObjectsOf
  <2> QED
    BY <1>2, <2>1 DEF Gone
<1> SUFFICES ASSUME NEW c \in Children PROVE StatusOf(c)'
  BY <1>2 DEF StatusInv
<1>5. pid[c] # 0 /\ Gone(c) => Gone(c)'
  BY GoneStays
<1>6. CASE proc'[c] = proc[c]
  BY <1>2, <1>3, <1>5, <1>6, StatusOfKept
<1>7. CASE proc'[c] # proc[c]
  <2>1. c \in Waited(pid[b]) /\ proc[c] = "zombie" /\ proc'[c] = "reaped"
    BY <1>1, <1>7 DEF FinalizePopen, Waited, TypeOK
  <2>2. c # b => Confusable(c, b)
    BY <2>1 DEF Waited, Confusable
  <2>3. Gone(c)' \/ Alike(c)'
    <3>1. c # b => Alike(c)
      BY <2>2 DEF Alike
    <3> QED
      BY <1>2, <1>4, <3>1 DEF Alike, Confusable
  <2>4. answer'[c] \notin {NoAnswer, Status(c)} => pid'[c] = NoPid \/ Alike(c)'
    BY <1>2, <1>3 DEF StatusOf, Alike, Confusable
  <2> QED
    BY <1>2, <1>3, <2>1, <2>3, <2>4 DEF StatusOf, Status, NoAnswer
<1> QED
  BY <1>6, <1>7

LEMMA NextStatus ==
  ASSUME ProcessInv, StatusInv, [Next]_vars
  PROVE  StatusInv'
<1>1. TypeOK /\ CallInv /\ ObjectInv
  BY DEF ProcessInv
<1>2. CASE UNCHANGED <<pid, proc, answer>> /\ at' # "wait"
  BY <1>2, StatusKept
<1>3. CASE UNCHANGED <<pid, proc, answer>> /\ UNCHANGED <<at, who>>
           /\ (at = "wait" => alive' = alive)
  BY <1>3, StatusKept DEF StatusInv
<1>4. CASE Popen \/ Pipes \/ PipeFails \/ CloseOtherEnds \/ Wrap
  BY <1>2, <1>4 DEF Popen, Pipes, MakePipe, PipeFails, CloseOtherEnds, Wrap, Return, processVars
<1>5. CASE Fork \/ ForkFails
  BY <1>5, ForkStatus
<1>6. CASE Write \/ WriteKills \/ Read
  BY <1>2, <1>6 DEF Write, WriteKills, Read, ReadByte, ReadEnd, Return, processVars
<1>7. CASE Wait \/ WaitFails
  BY <1>7, WaitStatus
<1>8. ASSUME NEW c \in Children, NEW s \in Stream, BeginWrite(c) \/ BeginRead(c, s)
      PROVE  StatusInv'
  BY <1>2, <1>8 DEF BeginWrite, BeginRead, processVars
<1>9. ASSUME NEW c \in Children, BeginWait(c) PROVE StatusInv'
  BY <1>9, StatusKept DEF BeginWait, Reachable, processVars, objectVars
<1>10. ASSUME NEW c \in Children, FinalizePopen(c) PROVE StatusInv'
  BY <1>10, FinalizeStatus
<1>11. ASSUME NEW c \in Children, NEW s \in Stream, FinalizeIO(c, s) PROVE StatusInv'
  BY <1>3, <1>11 DEF FinalizeIO, MayCollect, callVars, processVars
<1>12. ASSUME NEW c \in Children, NEW x \in Object, Lose(c, x) PROVE StatusInv'
  BY <1>3, <1>12 DEF Lose, callVars, processVars
<1>13. ASSUME NEW q \in Process, NEW s \in Stream, Close(q, s) PROVE StatusInv'
  BY <1>3, <1>13 DEF Close, callVars, processVars
<1>14. ASSUME NEW c \in Children, ChildNext(c) PROVE StatusInv'
  <2>1. \A d \in Children : /\ proc'[d] = "none" <=> proc[d] = "none"
                            /\ proc'[d] = "reaped" => proc[d] = "reaped"
    BY <1>1, <1>14
       DEF ChildNext, Exec, ChildExits, ChildReads, ChildWrites, Exit, processVars, TypeOK
  <2>2. UNCHANGED <<pid, answer, at, who, alive>>
    BY <1>14 DEF ChildNext, Exec, ChildExits, ChildReads, ChildWrites, processVars, callVars, objectVars
  <2> QED
    BY <2>1, <2>2, StatusKept DEF StatusInv
<1>15. CASE UNCHANGED vars
  BY <1>3, <1>15 DEF vars, callVars, objectVars, processVars
<1>16. \E s \in Stream : TRUE
  BY DEF Stream
<1> QED
  BY <1>4, <1>5, <1>6, <1>7, <1>8, <1>9, <1>10, <1>11, <1>12, <1>13, <1>14, <1>15, <1>16
     DEF Next, ScriptNext, CallGoesOn

-----------------------------------------------------------------------------
(* What the script has, its objects and its descriptors agree in every     *)
(* reachable state (os-engine.cc:107-199, io-engine.cc:111-139).           *)
THEOREM ProcessesConsistent == Spec => []ProcessInv
<1>1. Init => ProcessInv
  BY InitProcessInv
<1>2. ProcessInv /\ [Next]_vars => ProcessInv'
  BY NextTypes, NextCalls, NextObjects, NextTable DEF ProcessInv
<1> QED
  BY <1>1, <1>2, PTL DEF Spec

(* Descriptors, pipes, calls and objects keep their types; no pipe holds   *)
(* more than its size (os-engine.cc:107-199).                              *)
THEOREM ProcessTypesCorrect == Spec => []TypeOK
<1>1. ProcessInv => TypeOK
  BY DEF ProcessInv
<1> QED
  BY <1>1, ProcessesConsistent, PTL

(* Between two calls every descriptor of the script is held by exactly the *)
(* object it was made for, but for the pipes of a popen that threw         *)
(* (os-engine.cc:122-126, io-engine.cc:111-139).                           *)
THEOREM EachDescriptorHasOneOwner == Spec => []OneOwner
<1>1. ProcessInv => OneOwner
  <2> SUFFICES ASSUME ProcessInv, at = "idle" PROVE OneOwner
    BY DEF OneOwner
  <2>1. TypeOK /\ ObjectInv /\ TableInv /\ at \notin Making
    BY DEF ProcessInv, Making
  <2>2. \A e \in End, f \in Fd : e[1] \notin threw => (table[Script][f] = e <=> Home(e) = f)
    BY <2>1 DEF TableInv
  <2>3. \A e : Home(e) = IF e[3] = OwnMode(e[1], e[2]) THEN io[e[1]][e[2]] ELSE NoFd
    BY <2>1 DEF Home
  <2>4. ASSUME NEW q \in Process, NEW s \in Stream, io[q][s] # NoFd
        PROVE  HoldsOwn(q, s, io[q][s])
    <3> DEFINE own == <<q, s, OwnMode(q, s)>>
    <3>1. q \notin threw
      <4>1. q \in Children \/ q = Script
        BY DEF Process
      <4> QED
        BY <2>1, <2>4, <4>1, DescriptorsAssumption DEF ObjectInv, ObjectsOf, TypeOK
    <3>2. own \in End /\ own[1] = q /\ own[2] = s /\ own[3] = OwnMode(q, s)
      BY DEF End, OwnMode
    <3>3. io[q][s] \in Fd
      BY <2>1, <2>4 DEF TypeOK
    <3>4. Home(own) = io[q][s]
      BY <2>3, <3>2
    <3>5. table[Script][io[q][s]] = own
      BY <2>2, <3>1, <3>2, <3>3, <3>4
    <3> QED
      BY <3>5 DEF HoldsOwn, OwnMode, Reader, Writer
  <2>5. ASSUME NEW f \in Fd, table[Script][f] # Free
        PROVE  LET e == table[Script][f] IN io[e[1]][e[2]] = f \/ e[1] \in threw
    <3> DEFINE e == table[Script][f]
    <3>1. e \in End
      BY <2>1, <2>5 DEF TypeOK, KernelTypeOK, Table, Process
    <3> HIDE DEF e
    <3>2. e[1] \notin threw => Home(e) = f
      BY <2>2, <3>1 DEF e
    <3>3. f # NoFd
      BY NoFdIsNone
    <3>4. e[1] \notin threw => io[e[1]][e[2]] = f
      BY <2>3, <3>2, <3>3
    <3> QED
      BY <3>4 DEF e
  <2> QED
    BY <2>4, <2>5 DEF OneOwner
<1> QED
  BY <1>1, ProcessesConsistent, PTL

(* How children are wired, for a script that closes no other of its own    *)
(* streams.                                                                *)
LEMMA WiringConsistent ==
  ASSUME NEW own \in Stream, Closable[Script] \subseteq {own}
  PROVE  Spec => []WiredInv(own)
<1>1. Init => WiredInv(own)
  <2> SUFFICES ASSUME Init PROVE WiredInv(own)
    OBVIOUS
  <2>1. \A c \in Children : proc[c] = "none"
    BY DEF Init
  <2>2. \A s \in Stream : io[Script][s] = Standard(s)
    BY DEF Init, Process
  <2>3. at = "idle"
    BY DEF Init
  <2> QED
    BY <2>1, <2>2, <2>3 DEF WiredInv, ForkInv, LowInv, ChildWired
<1>2. ProcessInv /\ WiredInv(own) /\ [Next]_vars => WiredInv(own)'
  BY NextForks, NextLow, NextWired DEF WiredInv
<1> QED
  BY <1>1, <1>2, ProcessesConsistent, PTL DEF Spec

(* If a script closes at most one of its own streams, every command starts *)
(* with the ends of its own pipes as 0, 1 and 2, and no other descriptor   *)
(* of these pipes (os-engine.cc:122-153).                                  *)
THEOREM EachChildIsWired ==
  ASSUME NEW own \in Stream, Closable[Script] \subseteq {own}
  PROVE  Spec => []ChildWired
<1>1. WiredInv(own) => ChildWired
  BY DEF WiredInv
<1> QED
  BY <1>1, WiringConsistent, PTL

(* What the kernel knows of the children and what the Popen objects have   *)
(* been told agree.                                                        *)
LEMMA StatusConsistent == Spec => []StatusInv
<1>1. Init => StatusInv
  <2> SUFFICES ASSUME Init PROVE StatusInv
    OBVIOUS
  <2>1. at # "wait" /\ \A c \in Children : pid[c] = 0 /\ proc[c] = "none" /\ answer[c] = NoAnswer
    BY DEF Init
  <2> QED
    BY <2>1 DEF StatusInv, StatusOf
<1>2. ProcessInv /\ StatusInv /\ [Next]_vars => StatusInv'
  BY NextStatus
<1> QED
  BY <1>1, <1>2, ProcessesConsistent, PTL DEF Spec

(* The first wait() on a Popen object returns the status of its own child, *)
(* unless another object has the same pid or one of the two stands for a   *)
(* fork() that failed; a status is not lost to the finalizer of another    *)
(* object, nor read before it was set (os-engine.cc:53-65, 93-105).        *)
THEOREM EachGetsItsOwnStatus == Spec => []OwnStatus
<1>1. StatusInv => OwnStatus
  BY DEF StatusInv, StatusOf, OwnStatus, Alike
<1> QED
  BY <1>1, StatusConsistent, PTL

-----------------------------------------------------------------------------
(***************************************************************************)
(* popen implements Channels: what each step does to the pipes, and that   *)
(* each step is one of Channels or changes nothing there.                  *)
(***************************************************************************)

(* A pipe holds, in order, the bytes that were written and not read yet;   *)
(* and who has seen the end of a child's output will find it empty.        *)
ChannelOf(c, s) ==
  /\ written[c][s] = Len(got[c][s]) + Len(pipe[<<c, s>>])
  /\ \A i \in 1 .. Len(pipe[<<c, s>>]) : pipe[<<c, s>>][i] = <<c, s, Len(got[c][s]) + i>>
  /\ s # "in" /\ told[c][s] => ChildState[c] = "ended" /\ pipe[<<c, s>>] = <<>>
DataInv == \A c \in Children, s \in Stream : ChannelOf(c, s)

(* All that the steps rest on. *)
PopenInv(own) == ProcessInv /\ WiredInv(own) /\ StatusInv /\ DataInv

-----------------------------------------------------------------------------
(***************************************************************************)
(* What is behind a descriptor.                                            *)
(***************************************************************************)

(* The end the script reads from, or writes to. *)
LEMMA FromIs ==
  ASSUME ProcessInv, at \in {"read", "write"}
  PROVE  /\ who \in Children /\ pid[who] # 0 /\ from \in Fd
         /\ at = "read" => which \in {"out", "err"} /\ table[Script][from] = Reader(who, which)
         /\ at = "write" => table[Script][from] = Writer(who, "in")
<1>1. TypeOK /\ CallInv /\ ObjectInv /\ TableInv
  BY DEF ProcessInv
<1>2. /\ who \in Children /\ from \in Fd /\ at \notin Making
      /\ at = "read" => which \in {"out", "err"} /\ from = io[who][which]
      /\ at = "write" => from = io[who]["in"]
  BY <1>1 DEF CallInv, Making
<1>3. "in" \in Stream /\ "out" \in Stream /\ "err" \in Stream /\ who # Script
  BY <1>2, DescriptorsAssumption DEF Stream
<1>4. pid[who] # 0 /\ who \notin threw
  <2>1. \A s \in Stream : io[who][s] \in Fd => alive[who] # {}
    BY <1>1, <1>2, NoFdIsNone DEF ObjectInv, ObjectsOf
  <2>2. alive[who] # {}
    BY <1>2, <1>3, <2>1
  <2> QED
    BY <1>1, <1>2, <2>2 DEF ObjectInv, ObjectsOf
<1>5. \A e \in End : e[1] = who => (table[Script][from] = e <=> Home(e) = from)
  BY <1>1, <1>2, <1>4 DEF TableInv
<1>6. CASE at = "read"
  <2>1. Reader(who, which) \in End
    BY <1>2, <1>3, <1>6 DEF Reader, End, Process
  <2>2. Home(Reader(who, which)) = from
    BY <1>2, <1>3, <1>6 DEF Home, Reader, OwnMode
  <2> QED
    BY <1>2, <1>4, <1>5, <1>6, <2>1, <2>2 DEF Reader
<1>7. CASE at = "write"
  <2>1. Writer(who, "in") \in End
    BY <1>2, <1>3 DEF Writer, End, Process
  <2>2. Home(Writer(who, "in")) = from
    BY <1>2, <1>3, <1>7 DEF Home, Writer, OwnMode
  <2> QED
    BY <1>2, <1>4, <1>5, <1>7, <2>1, <2>2 DEF Writer
<1> QED
  BY <1>6, <1>7

(* A child that has not ended has a descriptor to write to its output. *)
LEMMA OutputOpen ==
  ASSUME ProcessInv, NEW own, WiredInv(own), NEW c \in Children, NEW s \in {"out", "err"},
         proc[c] \in {"forked", "running"}
  PROVE  Open(Writer(c, s))
<1>1. TypeOK /\ ObjectInv /\ ForkInv /\ ChildWired /\ c \in Process
  BY DEF ProcessInv, WiredInv, Process
<1>2. CASE proc[c] = "running"
  <2>1. table[c][Standard(s)] = Writer(c, s) /\ Standard(s) \in Fd
    BY <1>1, <1>2, DescriptorsAssumption DEF ChildWired, Standard, Fd
  <2> QED
    BY <1>1, <2>1 DEF Open, Holds
<1>3. CASE proc[c] = "forked"
  <2>1. Writer(c, s) \in End
    BY <1>1 DEF Writer, End, Stream
  <2>2. Place(made[c], s, "w") \in Fd
    BY <1>1, <1>3 DEF ObjectInv, ObjectsOf, Stream, Place
  <2>3. table[c][Place(made[c], s, "w")] = Writer(c, s)
    BY <1>1, <1>3, <2>1, <2>2 DEF ForkInv, Writer
  <2> QED
    BY <1>1, <2>2, <2>3 DEF Open, Holds
<1> QED
  BY <1>2, <1>3

-----------------------------------------------------------------------------
(***************************************************************************)
(* The bytes.                                                              *)
(***************************************************************************)

(* A byte is written. *)
LEMMA PutKept ==
  ASSUME TypeOK, NEW c \in Children, NEW s \in Stream, NEW mode, ChannelOf(c, s),
         Put(<<c, s, mode>>, <<c, s, written[c][s] + 1>>),
         written' = [written EXCEPT ![c][s] = @ + 1], UNCHANGED got
  PROVE  /\ \A d \in Children, r \in Stream : d # c \/ r # s =>
              pipe'[<<d, r>>] = pipe[<<d, r>>] /\ written'[d][r] = written[d][r]
         /\ written'[c][s] = Len(got'[c][s]) + Len(pipe'[<<c, s>>])
         /\ \A i \in 1 .. Len(pipe'[<<c, s>>]) : pipe'[<<c, s>>][i] = <<c, s, Len(got'[c][s]) + i>>
<1> DEFINE P == pipe[<<c, s>>]
           g == got[c][s]
           n == written[c][s]
           b == <<c, s, n + 1>>
           Q == Append(P, b)
<1>1. /\ P \in Seq(Byte) /\ n \in Nat /\ g \in Seq(Byte)
      /\ pipe \in [Children \X Stream -> Seq(Byte)]
  BY DEF TypeOK, KernelTypeOK
<1>2. n = Len(g) + Len(P) /\ \A i \in 1 .. Len(P) : P[i] = <<c, s, Len(g) + i>>
  BY DEF ChannelOf
<1>3. pipe' = [pipe EXCEPT ![<<c, s>>] = Q]
  BY DEF Put, PipeOf
<1>4. pipe'[<<c, s>>] = Q /\ written'[c][s] = n + 1
  BY <1>1, <1>3 DEF TypeOK
<1>5. \A d \in Children, r \in Stream : d # c \/ r # s =>
        pipe'[<<d, r>>] = pipe[<<d, r>>] /\ written'[d][r] = written[d][r]
  <2> HIDE DEF Q
  <2> QED
    BY <1>1, <1>3 DEF TypeOK
<1>6. b \in Byte
  BY <1>1 DEF Byte, Process
<1> HIDE DEF b, P, n, g
<1>7. /\ Len(Q) = Len(P) + 1
      /\ \A i \in 1 .. Len(P) : Q[i] = P[i]
      /\ Q[Len(P) + 1] = b
  BY <1>1, <1>6, AppendProperties
<1> HIDE DEF Q
<1>8. Len(P) \in Nat /\ Len(g) \in Nat /\ n \in Nat
  BY <1>1, LenProperties
<1>9. ASSUME NEW i \in 1 .. Len(Q) PROVE Q[i] = <<c, s, Len(g) + i>>
  <2>1. CASE i \in 1 .. Len(P)
    BY <1>2, <1>7, <2>1
  <2>2. CASE i = Len(P) + 1
    <3>1. n + 1 = Len(g) + i
      BY <1>2, <1>8, <2>2
    <3> QED
      BY <1>7, <2>2, <3>1 DEF b
  <2> QED
    BY <1>7, <1>8, <2>1, <2>2
<1>10. n + 1 = Len(g) + Len(Q)
  BY <1>2, <1>7, <1>8
<1> QED
  BY <1>4, <1>5, <1>9, <1>10 DEF g

(* A byte is read. *)
LEMMA TakeKept ==
  ASSUME TypeOK, NEW c \in Children, NEW s \in Stream, NEW mode, ChannelOf(c, s),
         pipe[<<c, s>>] # <<>>, Take(<<c, s, mode>>),
         got' = [got EXCEPT ![c][s] = Append(@, Head(pipe[<<c, s>>]))], UNCHANGED written
  PROVE  /\ \A d \in Children, r \in Stream : d # c \/ r # s =>
              pipe'[<<d, r>>] = pipe[<<d, r>>] /\ got'[d][r] = got[d][r]
         /\ written'[c][s] = Len(got'[c][s]) + Len(pipe'[<<c, s>>])
         /\ \A i \in 1 .. Len(pipe'[<<c, s>>]) : pipe'[<<c, s>>][i] = <<c, s, Len(got'[c][s]) + i>>
         /\ Len(got[c][s]) < written[c][s]
         /\ got' = [got EXCEPT ![c][s] = Append(@, <<c, s, Len(@) + 1>>)]
<1> DEFINE P == pipe[<<c, s>>]
           g == got[c][s]
           b == Head(P)
           Q == Tail(P)
           h == Append(g, b)
<1>1. /\ P \in Seq(Byte) /\ P # <<>> /\ g \in Seq(Byte) /\ written[c][s] \in Nat
      /\ pipe \in [Children \X Stream -> Seq(Byte)]
      /\ got \in [Children -> [Stream -> Seq(Byte)]]
  BY DEF TypeOK, KernelTypeOK
<1>2. written[c][s] = Len(g) + Len(P) /\ \A i \in 1 .. Len(P) : P[i] = <<c, s, Len(g) + i>>
  BY DEF ChannelOf
<1>3. pipe' = [pipe EXCEPT ![<<c, s>>] = Q] /\ got' = [got EXCEPT ![c][s] = h]
  BY DEF Take, PipeOf
<1>4. pipe'[<<c, s>>] = Q /\ got'[c][s] = h
  <2> HIDE DEF Q, h
  <2> QED
    BY <1>1, <1>3
<1>5. \A d \in Children, r \in Stream : d # c \/ r # s =>
        pipe'[<<d, r>>] = pipe[<<d, r>>] /\ got'[d][r] = got[d][r]
  <2> HIDE DEF Q, h
  <2> QED
    BY <1>1, <1>3
<1>6. /\ b \in Byte /\ Q \in Seq(Byte) /\ Len(Q) = Len(P) - 1
      /\ \A i \in 1 .. Len(Q) : Q[i] = P[i + 1]
  <2> HIDE DEF P
  <2> QED
    BY <1>1, HeadTailProperties
<1>7. Len(P) \in Nat \ {0} /\ Len(g) \in Nat
  <2> HIDE DEF P, g
  <2> QED
    BY <1>1, EmptySeq, LenProperties
<1>8. b = <<c, s, Len(g) + 1>>
  <2>1. b = P[1]
    BY DEF b
  <2> HIDE DEF b
  <2> QED
    BY <1>2, <1>7, <2>1
<1>9. Len(h) = Len(g) + 1
  <2> HIDE DEF b, g
  <2> QED
    BY <1>1, <1>6, AppendProperties
<1>10. got' = [got EXCEPT ![c][s] = Append(@, <<c, s, Len(@) + 1>>)]
  BY <1>8
<1> HIDE DEF P, Q, g, h, b
<1>11. ASSUME NEW i \in 1 .. Len(Q) PROVE Q[i] = <<c, s, Len(h) + i>>
  <2>1. i \in Nat /\ i + 1 \in 1 .. Len(P)
    BY <1>6, <1>7
  <2>2. Len(g) + (i + 1) = Len(h) + i
    BY <1>7, <1>9, <2>1
  <2> QED
    BY <1>2, <1>6, <2>1, <2>2
<1>12. written[c][s] = Len(h) + Len(Q) /\ Len(g) < written[c][s]
  BY <1>2, <1>6, <1>7, <1>9
<1> QED
  BY <1>4, <1>5, <1>10, <1>11, <1>12 DEF g

-----------------------------------------------------------------------------
(***************************************************************************)
(* The state of a child, and the inputs the script does not write to.      *)
(***************************************************************************)

(* exec() and waitpid() change nothing that can be seen. *)
LEMMA ChildStateKept ==
  ASSUME UNCHANGED pid,
         \A c \in Children : \/ proc'[c] = proc[c]
                             \/ {proc[c], proc'[c]} = {"forked", "running"}
                             \/ {proc[c], proc'[c]} = {"zombie", "reaped"}
  PROVE  UNCHANGED ChildState
<1>1. \A c \in Children : ChildState'[c] = ChildState[c]
  BY DEF ChildState, NoPid
<1> QED
  BY <1>1 DEF ChildState

(* A child comes to its end. *)
LEMMA ChildStateEnds ==
  ASSUME TypeOK, StatusInv, NEW c \in Children, proc[c] = "running", UNCHANGED pid,
         proc' = [proc EXCEPT ![c] = "zombie"]
  PROVE  ChildState[c] = "running" /\ ChildState' = [ChildState EXCEPT ![c] = "ended"]
<1>1. pid[c] # NoPid
  BY DEF StatusInv, StatusOf
<1>2. ChildState[c] = "running"
  BY <1>1 DEF ChildState
<1>3. proc'[c] = "zombie" /\ \A d \in Children \ {c} : proc'[d] = proc[d]
  BY DEF TypeOK
<1>4. \A d \in Children : ChildState'[d] = IF d = c THEN "ended" ELSE ChildState[d]
  BY <1>3 DEF ChildState, NoPid
<1> QED
  BY <1>2, <1>4 DEF ChildState

(* fork() *)
LEMMA ChildStateStarts ==
  ASSUME TypeOK, who \in Children, pid[who] = 0, proc[who] = "none",
         NEW n \in Pids \cup {NoPid}, pid' = [pid EXCEPT ![who] = n],
         proc' = IF n = NoPid THEN proc ELSE [proc EXCEPT ![who] = "forked"]
  PROVE  /\ ChildState[who] = "new"
         /\ ChildState' = [ChildState EXCEPT ![who] = IF n = NoPid THEN "ended" ELSE "running"]
<1>1. NoPid # 0 /\ NoPid \notin Pids
  BY ProcessesAssumption DEF NoPid
<1>2. ChildState[who] = "new"
  BY <1>1 DEF ChildState
<1>3. /\ pid'[who] = n /\ proc'[who] = IF n = NoPid THEN "none" ELSE "forked"
      /\ \A d \in Children \ {who} : pid'[d] = pid[d] /\ proc'[d] = proc[d]
  BY DEF TypeOK
<1>4. \A d \in Children :
        ChildState'[d] = IF d = who THEN IF n = NoPid THEN "ended" ELSE "running" ELSE ChildState[d]
  BY SMTT(40), <1>3 DEF ChildState, NoPid
<1> QED
  BY <1>2, <1>4 DEF ChildState

(* popenImpl is about a new child; what follows is about the same one.     *)
LEMMA MakingStep ==
  ASSUME [Next]_vars, at' \in Making
  PROVE  Popen \/ (at \in Making /\ who' = who)
BY DEF Next, ScriptNext, CallGoesOn, Popen, Pipes, MakePipe, PipeFails, Fork, ForkFails,
       CloseOtherEnds, Wrap, Read, ReadByte, ReadEnd, Write, WriteKills, Wait, WaitFails,
       BeginWrite, BeginWait, FinalizePopen, BeginRead, FinalizeIO, Lose, Close, Return,
       ChildNext, Exec, ChildExits, ChildReads, ChildWrites, callVars, vars, Making

(* What the script has closed or finalized, it cannot open again.          *)
LEMMA StreamStep ==
  ASSUME TypeOK, CallInv, [Next]_vars, NEW c \in Children, NEW s \in Stream, io[c][s] = NoFd
  PROVE  io'[c][s] = NoFd \/ (Wrap /\ who = c)
<1>1. io \in [Process -> [Stream -> Fd \cup {NoFd}]] /\ c \in Process
  BY DEF TypeOK, Process
<1>2. CASE Wrap
  BY <1>1, <1>2 DEF Wrap
<1>3. ASSUME NEW d \in Children, NEW x \in Stream, FinalizeIO(d, x) PROVE io'[c][s] = NoFd
  BY <1>1, <1>3 DEF FinalizeIO
<1>4. ASSUME NEW q \in Process, NEW x \in Stream, Close(q, x) PROVE io'[c][s] = NoFd
  BY SMTT(40), <1>1, <1>4 DEF Close, Forget
<1>5. \/ io' = io \/ Wrap
      \/ \E d \in Children, x \in Stream : FinalizeIO(d, x)
      \/ \E q \in Process, x \in Stream : Close(q, x)
  BY DEF Next, ScriptNext, CallGoesOn, Popen, Pipes, MakePipe, PipeFails, Fork, ForkFails,
         CloseOtherEnds, Read, Write, WriteKills, Wait, WaitFails, BeginWrite, BeginWait,
         FinalizePopen, BeginRead, Lose, ChildNext, Exec, ChildExits, ChildReads,
         ChildWrites, objectVars, vars
<1> QED
  BY <1>2, <1>3, <1>4, <1>5

(* The script can write to the input of a child until it has closed it.    *)
LEMMA NotWrittenIs ==
  ProcessInv /\ at # "dead" =>
    \A c \in Children :
      c \in NotWritten <=> pid[c] # 0 /\ ~(at \in Making /\ who = c) /\ io[c]["in"] = NoFd
<1> SUFFICES ASSUME ProcessInv, at # "dead", NEW c \in Children
             PROVE  c \in NotWritten <=>
                      pid[c] # 0 /\ ~(at \in Making /\ who = c) /\ io[c]["in"] = NoFd
  OBVIOUS
<1>1. TypeOK /\ ObjectInv /\ TableInv
  BY DEF ProcessInv
<1>2. /\ Writer(c, "in") \in End /\ Writer(c, "in")[1] = c
      /\ Writer(c, "in")[2] = "in" /\ Writer(c, "in")[3] = "w"
  BY DEF Writer, End, Process, Stream
<1>3. OwnMode(c, "in") = "w"
  BY DescriptorsAssumption DEF OwnMode
<1> SUFFICES ASSUME pid[c] # 0
             PROVE  Holds(Script, Writer(c, "in")) <=> (at \in Making /\ who = c) \/ io[c]["in"] # NoFd
  BY DEF NotWritten
<1>4. c \notin threw /\ (at \in Making /\ who = c => at \in {"close", "wrap"} /\ alive[c] = {})
  BY <1>1 DEF ObjectInv, ObjectsOf
<1>5. Holds(Script, Writer(c, "in")) <=> Home(Writer(c, "in")) \in Fd
  BY <1>1, <1>2, <1>4 DEF TableInv, Holds
<1>6. CASE at \in Making /\ who = c
  <2>1. "in" \in MadeStreams
    BY <1>4, <1>6 DEF MadeStreams, Stream
  <2>2. made[who]["in"] \in Fd \X Fd
    BY <1>1, <1>6, <2>1 DEF ObjectInv, ObjectsOf
  <2>3. Home(Writer(c, "in")) = made[who]["in"][2]
    BY <1>2, <1>3, <1>6, <2>1 DEF Home, Place
  <2> QED
    BY <1>5, <1>6, <2>2, <2>3
<1>7. CASE ~(at \in Making /\ who = c)
  <2>1. Home(Writer(c, "in")) = io[c]["in"]
    BY <1>2, <1>3, <1>7 DEF Home
  <2>2. io[c]["in"] \in Fd \cup {NoFd}
    BY <1>1 DEF TypeOK, Process, Stream
  <2> QED
    BY <1>5, <1>7, <2>1, <2>2, NoFdIsNone
<1> QED
  BY <1>6, <1>7

LEMMA NotWrittenIsNext ==
  (ProcessInv /\ at # "dead" =>
    \A c \in Children :
      c \in NotWritten <=> pid[c] # 0 /\ ~(at \in Making /\ who = c) /\ io[c]["in"] = NoFd)'
BY NotWrittenIs, PTL

LEMMA ProcessInvNext == ProcessInv /\ [Next]_vars => ProcessInv'
BY NextTypes, NextCalls, NextObjects, NextTable DEF ProcessInv

(* A script that does not write to a child will not do so again.           *)
LEMMA NotWrittenGrows ==
  ASSUME ProcessInv, [Next]_vars
  PROVE  NotWritten \subseteq NotWritten'
<1>1. TypeOK /\ CallInv /\ ObjectInv /\ ProcessInv'
  BY ProcessInvNext DEF ProcessInv
<1> SUFFICES ASSUME NEW c \in NotWritten PROVE c \in NotWritten'
  OBVIOUS
<1>2. c \in Children /\ pid[c] # 0 /\ ~Holds(Script, Writer(c, "in"))
  BY DEF NotWritten
<1>3. pid'[c] = pid[c]
  <2>1. CASE Fork \/ ForkFails
    <3>1. at = "fork" /\ who \in Children /\ pid[who] = 0
      BY SMTT(40), <1>1, <2>1 DEF Fork, ForkFails, CallInv, Making, ObjectInv, ObjectsOf
    <3> QED
      BY <1>1, <1>2, <2>1, <3>1 DEF Fork, ForkFails, TypeOK
  <2>2. CASE ~(Fork \/ ForkFails)
    BY <2>2
       DEF Next, ScriptNext, CallGoesOn, Popen, Pipes, MakePipe, PipeFails,
           CloseOtherEnds, Wrap, Read, Write, WriteKills, Wait, WaitFails, BeginWrite, BeginWait,
           FinalizePopen, BeginRead, FinalizeIO, Lose, Close, ChildNext, Exec, ChildExits,
           ChildReads, ChildWrites, processVars, vars
  <2> QED
    BY <2>1, <2>2
<1>4. CASE at # "dead" /\ at' # "dead"
  <2>1. ~(at \in Making /\ who = c) /\ io[c]["in"] = NoFd
    BY <1>2, <1>4, NotWrittenIs
  <2>2. io'[c]["in"] = NoFd
    <3>1. ~(Wrap /\ who = c)
      BY <2>1 DEF Wrap, Making
    <3> QED
      BY <1>1, <1>2, <2>1, <3>1, StreamStep DEF Stream
  <2>3. ~(at' \in Making /\ who' = c)
    <3>1. Popen => who' # c
      BY <1>2 DEF Popen, Unused
    <3> QED
      BY <2>1, <3>1, MakingStep
  <2>4. (c \in NotWritten <=> pid[c] # 0 /\ ~(at \in Making /\ who = c) /\ io[c]["in"] = NoFd)'
    BY <1>1, <1>2, <1>4, NotWrittenIsNext
  <2> QED
    BY <1>2, <1>3, <2>2, <2>3, <2>4
<1>5. CASE at = "dead"
  <2>1. table'[Script] = table[Script]
    <3>1. \/ \E d \in Children : ChildNext(d)
          \/ UNCHANGED vars
          \/ \E d \in Children, x \in Object : Lose(d, x)
      BY <1>5
         DEF Next, ScriptNext, CallGoesOn, Popen, Pipes, MakePipe, PipeFails, Fork, ForkFails,
             CloseOtherEnds, Wrap, Read, Write, WriteKills, Wait, WaitFails, BeginWrite, BeginWait,
             FinalizePopen, BeginRead, FinalizeIO, MayCollect, Lose, Close
    <3>2. Script \notin Children
      BY DescriptorsAssumption
    <3> QED
      BY <1>1, <3>1, <3>2
         DEF ChildNext, Exec, ChildExits, ChildReads, ChildWrites, Exit, Lose, vars, kernelVars,
             TypeOK, KernelTypeOK, Process
  <2> QED
    BY <1>2, <1>3, <2>1 DEF NotWritten, Holds, Writer
<1>6. CASE at # "dead" /\ at' = "dead"
  <2>1. WriteKills
    BY <1>6
       DEF Next, ScriptNext, CallGoesOn, Popen, Pipes, MakePipe, PipeFails, Fork, ForkFails,
           CloseOtherEnds, Wrap, Read, ReadByte, ReadEnd, Write, WriteKills, Wait, WaitFails,
           BeginWrite, BeginWait, FinalizePopen, BeginRead, FinalizeIO, Lose, Close, Return,
           ChildNext, Exec, ChildExits, ChildReads, ChildWrites, callVars, vars
  <2>2. \A f \in Fd : table'[Script][f] = Free
    BY <1>1, <2>1 DEF WriteKills, NoTable, TypeOK, KernelTypeOK, Process
  <2>3. Free # Writer(c, "in")
    BY DEF Free, Writer
  <2> QED
    BY <1>2, <1>3, <2>2, <2>3 DEF NotWritten, Holds, Writer, Free
<1> QED
  BY <1>4, <1>5, <1>6

-----------------------------------------------------------------------------
(***************************************************************************)
(* Each step keeps DataInv, and is a step of Channels.                     *)
(***************************************************************************)

(* No byte moves, nobody is told, and no child starts or ends.             *)
LEMMA QuietStep ==
  ASSUME NEW own, PopenInv(own), [Next]_vars, UNCHANGED <<pipe, written, got, told>>,
         UNCHANGED ChildState
  PROVE  DataInv' /\ Promise!Next
<1>1. DataInv'
  BY DEF PopenInv, DataInv, ChannelOf
<1>2. NotWritten' = NotWritten \cup NotWritten' /\ NotWritten' \in SUBSET Children
  BY NotWrittenGrows DEF PopenInv, NotWritten
<1>3. Promise!Shut(NotWritten')
  BY <1>2 DEF Promise!Shut
<1> QED
  BY <1>1, <1>2, <1>3 DEF Promise!Next

(* fork(), whether it works or not                                         *)
LEMMA StartStep ==
  ASSUME NEW own, PopenInv(own), [Next]_vars, Fork \/ ForkFails
  PROVE  DataInv' /\ Promise!Next
<1>1. TypeOK /\ CallInv /\ ObjectInv /\ StatusInv /\ DataInv /\ ProcessInv
  BY DEF PopenInv, ProcessInv
<1>2. /\ at = "fork" /\ at' = "close" /\ who \in Children /\ pid[who] = 0 /\ proc[who] = "none"
      /\ UNCHANGED <<who, io, pipe, written, got, told>>
  BY <1>1 DEF Fork, ForkFails, CallInv, ObjectInv, ObjectsOf, Making, objectVars, kernelVars, dataVars
<1>3. PICK n \in Pids \cup {NoPid} :
        /\ pid' = [pid EXCEPT ![who] = n]
        /\ proc' = IF n = NoPid THEN proc ELSE [proc EXCEPT ![who] = "forked"]
  <2>1. NoPid \notin Pids
    BY ProcessesAssumption DEF NoPid
  <2> QED
    BY <2>1 DEF Fork, ForkFails
<1>4. /\ ChildState[who] = "new"
      /\ ChildState' = [ChildState EXCEPT ![who] = IF n = NoPid THEN "ended" ELSE "running"]
  BY <1>1, <1>2, <1>3, ChildStateStarts
<1>5. NotWritten' = NotWritten
  <2>1. at # "dead" /\ at' # "dead" /\ at \in Making /\ at' \in Making /\ ProcessInv'
    BY <1>1, <1>2, ProcessInvNext DEF Making
  <2>2. ASSUME NEW c \in Children PROVE c \in NotWritten' <=> c \in NotWritten
    <3>1. c \in NotWritten <=> pid[c] # 0 /\ who # c /\ io[c]["in"] = NoFd
      BY <1>1, <2>1, NotWrittenIs
    <3>2. c \in NotWritten' <=> pid'[c] # 0 /\ who' # c /\ io'[c]["in"] = NoFd
      BY <2>1, NotWrittenIsNext
    <3>3. c # who => pid'[c] = pid[c]
      BY <1>1, <1>3 DEF TypeOK
    <3> QED
      BY <1>2, <3>1, <3>2, <3>3
  <2> QED
    BY <2>2 DEF NotWritten
<1>6. Promise!Next
  <2>1. CASE n = NoPid
    <3>1. Promise!End(who)
      BY <1>2, <1>4, <1>5, <2>1 DEF Promise!End
    <3> QED
      BY <1>2, <3>1 DEF Promise!Next
  <2>2. CASE n # NoPid
    <3>1. Promise!Start(who)
      BY <1>2, <1>4, <1>5, <2>2 DEF Promise!Start
    <3> QED
      BY <1>2, <3>1 DEF Promise!Next
  <2> QED
    BY <2>1, <2>2
<1>7. \A c \in Children : ChildState[c] = "ended" => ChildState'[c] = "ended"
  BY <1>4 DEF ChildState
<1>8. DataInv'
  <2> SUFFICES ASSUME NEW c \in Children, NEW s \in Stream PROVE ChannelOf(c, s)'
    BY DEF DataInv
  <2>1. ChannelOf(c, s)
    BY <1>1 DEF DataInv
  <2> QED
    BY <1>2, <1>7, <2>1 DEF ChannelOf
<1> QED
  BY <1>6, <1>8

(* A step that does nothing to the script's descriptors.                   *)
LEMMA NotWrittenKept ==
  ASSUME UNCHANGED pid, table'[Script] = table[Script]
  PROVE  UNCHANGED NotWritten
BY DEF NotWritten, Holds, Writer

(* A child ends.                                                           *)
LEMMA EndStep ==
  ASSUME NEW own, PopenInv(own), NEW c \in Children, proc[c] = "running", Exit(c),
         UNCHANGED <<pid, pipe, written, got, told>>
  PROVE  DataInv' /\ Promise!Next
<1>1. TypeOK /\ StatusInv /\ DataInv
  BY DEF PopenInv, ProcessInv
<1>2. ChildState[c] = "running" /\ ChildState' = [ChildState EXCEPT ![c] = "ended"]
  BY <1>1, ChildStateEnds DEF Exit
<1>3. NotWritten' = NotWritten
  <2>1. table'[Script] = table[Script]
    BY <1>1, DescriptorsAssumption DEF Exit, TypeOK, KernelTypeOK
  <2> QED
    BY <2>1, NotWrittenKept
<1>4. Promise!End(c)
  BY <1>2, <1>3 DEF Promise!End
<1>5. \A d \in Children : ChildState[d] = "ended" => ChildState'[d] = "ended"
  BY <1>2 DEF ChildState
<1>6. DataInv'
  BY <1>1, <1>5 DEF DataInv, ChannelOf
<1> QED
  BY <1>4, <1>6 DEF Promise!Next

(* A byte is written.                                                      *)
LEMMA WriteStep ==
  ASSUME NEW own, PopenInv(own), NEW c \in Children, NEW s \in Stream, NEW e,
         e = Writer(c, s), HasRoom(e), Put(e, <<c, s, written[c][s] + 1>>),
         written' = [written EXCEPT ![c][s] = @ + 1],
         UNCHANGED <<pid, proc, table, got, told>>,
         s = "in" => c \notin NotWritten,
         s # "in" => ChildState[c] = "running"
  PROVE  DataInv' /\ Promise!Next
<1>1. TypeOK /\ DataInv /\ ChannelOf(c, s)
  BY DEF PopenInv, ProcessInv, DataInv
<1>2. UNCHANGED <<ChildState, NotWritten>>
  BY NotWrittenKept DEF ChildState
<1>3. /\ \A d \in Children, r \in Stream : d # c \/ r # s =>
            pipe'[<<d, r>>] = pipe[<<d, r>>] /\ written'[d][r] = written[d][r]
      /\ written'[c][s] = Len(got'[c][s]) + Len(pipe'[<<c, s>>])
      /\ \A i \in 1 .. Len(pipe'[<<c, s>>]) : pipe'[<<c, s>>][i] = <<c, s, Len(got'[c][s]) + i>>
  BY <1>1, PutKept DEF Writer
<1>4. DataInv'
  <2> SUFFICES ASSUME NEW d \in Children, NEW r \in Stream PROVE ChannelOf(d, r)'
    BY DEF DataInv
  <2>1. ChannelOf(d, r)
    BY <1>1 DEF DataInv
  <2>2. CASE d # c \/ r # s
    BY <1>2, <1>3, <2>1, <2>2 DEF ChannelOf
  <2>3. CASE d = c /\ r = s
    <3>1. ~(s # "in" /\ told[c][s])
      BY <1>1 DEF ChannelOf
    <3> QED
      BY <1>3, <2>3, <3>1 DEF ChannelOf
  <2> QED
    BY <2>2, <2>3
<1>5. written[c][s] - Len(got[c][s]) < PipeSize
  <2>1. Len(pipe[<<c, s>>]) < PipeSize
    BY DEF HasRoom, PipeOf, Writer
  <2>2. /\ Len(pipe[<<c, s>>]) \in Nat /\ Len(got[c][s]) \in Nat /\ PipeSize \in Nat
    <3>1. pipe[<<c, s>>] \in Seq(Byte) /\ got[c][s] \in Seq(Byte)
      BY <1>1 DEF TypeOK, KernelTypeOK
    <3> QED
      BY <3>1, LenProperties, DescriptorsAssumption
  <2>3. written[c][s] = Len(got[c][s]) + Len(pipe[<<c, s>>])
    BY <1>1 DEF ChannelOf
  <2> QED
    BY <2>1, <2>2, <2>3
<1>6. Promise!Write(c, s)
  BY <1>2, <1>5 DEF Promise!Write, Promise!Writing
<1> QED
  BY <1>4, <1>6 DEF Promise!Next, Promise!Stream, Stream

(* A byte is read.                                                         *)
LEMMA ReadStep ==
  ASSUME NEW own, PopenInv(own), NEW c \in Children, NEW s \in Stream, NEW e,
         e = Reader(c, s), HasBytes(e), Take(e),
         got' = [got EXCEPT ![c][s] = Append(@, Head(pipe[PipeOf(e)]))],
         UNCHANGED <<pid, proc, table, written, told>>,
         s = "in" => ~told[c][s] /\ ChildState[c] = "running"
  PROVE  DataInv' /\ Promise!Next
<1>1. TypeOK /\ DataInv /\ ChannelOf(c, s)
  BY DEF PopenInv, ProcessInv, DataInv
<1>2. UNCHANGED <<ChildState, NotWritten>>
  BY NotWrittenKept DEF ChildState
<1>3. PipeOf(e) = <<c, s>> /\ pipe[<<c, s>>] # <<>> /\ e = <<c, s, "r">>
  BY DEF PipeOf, Reader, HasBytes
<1>4. got' = [got EXCEPT ![c][s] = Append(@, Head(pipe[<<c, s>>]))]
  BY <1>3
<1>5. /\ \A d \in Children, r \in Stream : d # c \/ r # s =>
            pipe'[<<d, r>>] = pipe[<<d, r>>] /\ got'[d][r] = got[d][r]
      /\ written'[c][s] = Len(got'[c][s]) + Len(pipe'[<<c, s>>])
      /\ \A i \in 1 .. Len(pipe'[<<c, s>>]) : pipe'[<<c, s>>][i] = <<c, s, Len(got'[c][s]) + i>>
      /\ Len(got[c][s]) < written[c][s]
      /\ got' = [got EXCEPT ![c][s] = Append(@, <<c, s, Len(@) + 1>>)]
  <2>1. Take(<<c, s, "r">>)
    BY <1>3
  <2> QED
    BY <1>1, <1>3, <1>4, <2>1, TakeKept
<1>6. ~told[c][s]
  <2>1. told[c][s] \in BOOLEAN
    BY <1>1 DEF TypeOK
  <2> QED
    BY <1>1, <1>3 DEF ChannelOf
<1>7. DataInv'
  <2> SUFFICES ASSUME NEW d \in Children, NEW r \in Stream PROVE ChannelOf(d, r)'
    BY DEF DataInv
  <2>1. ChannelOf(d, r)
    BY <1>1 DEF DataInv
  <2>2. CASE d # c \/ r # s
    BY <1>2, <1>5, <2>1, <2>2 DEF ChannelOf
  <2>3. CASE d = c /\ r = s
    BY <1>5, <1>6, <2>3 DEF ChannelOf
  <2> QED
    BY <2>2, <2>3
<1>8. Promise!Read(c, s)
  BY <1>2, <1>5, <1>6 DEF Promise!Read
<1> QED
  BY <1>7, <1>8 DEF Promise!Next, Promise!Stream, Stream

(* A reader sees the end.                                                  *)
LEMMA TellStep ==
  ASSUME NEW own, PopenInv(own), NEW c \in Children, NEW s \in Stream, NEW e,
         e = Reader(c, s), AtEnd(e), told' = [told EXCEPT ![c][s] = TRUE],
         UNCHANGED <<pid, proc, table, pipe, written, got>>, pid[c] # 0
  PROVE  DataInv' /\ Promise!Next
<1>1. TypeOK /\ ObjectInv /\ StatusInv /\ DataInv /\ ProcessInv /\ WiredInv(own)
  BY DEF PopenInv, ProcessInv
<1>2. UNCHANGED <<ChildState, NotWritten>>
  BY NotWrittenKept DEF ChildState
<1>3. pipe[<<c, s>>] = <<>> /\ ~Open(Writer(c, s))
  BY DEF AtEnd, HasBytes, PipeOf, Reader
<1>4. Len(got[c][s]) = written[c][s]
  <2>1. got[c][s] \in Seq(Byte) /\ written[c][s] = Len(got[c][s]) + Len(pipe[<<c, s>>])
    BY <1>1 DEF TypeOK, DataInv, ChannelOf
  <2>2. Len(got[c][s]) \in Nat
    BY <2>1, LenProperties
  <2>3. Len(<<>>) = 0
    OBVIOUS
  <2> QED
    BY <1>3, <2>1, <2>2, <2>3
<1>5. s # "in" => ChildState[c] = "ended"
  <2> SUFFICES ASSUME s # "in" PROVE ChildState[c] = "ended"
    OBVIOUS
  <2>1. s \in {"out", "err"}
    BY DEF Stream
  <2>2. proc[c] \notin {"forked", "running"}
    BY <1>1, <1>3, <2>1, OutputOpen
  <2>3. proc[c] = "none" => pid[c] = NoPid
    BY <1>1 DEF StatusInv, StatusOf
  <2> QED
    BY <1>1, <2>2, <2>3 DEF ChildState, TypeOK
<1>6. s = "in" => c \in NotWritten
  BY <1>3 DEF NotWritten, Open, Process
<1>7. Promise!Tell(c, s)
  BY <1>2, <1>4, <1>5, <1>6 DEF Promise!Tell, Promise!Writing
<1>8. DataInv'
  <2> SUFFICES ASSUME NEW d \in Children, NEW r \in Stream PROVE ChannelOf(d, r)'
    BY DEF DataInv
  <2>1. ChannelOf(d, r)
    BY <1>1 DEF DataInv
  <2>2. d # c \/ r # s => told'[d][r] = told[d][r]
    BY <1>1 DEF TypeOK
  <2> QED
    BY <1>2, <1>3, <1>5, <2>1, <2>2 DEF ChannelOf
<1> QED
  BY <1>7, <1>8 DEF Promise!Next, Promise!Stream, Stream

(* The bytes that move are those of the child and stream they are said to  *)
(* be of.                                                                  *)
LEMMA ScriptMovesByte ==
  ASSUME NEW own, PopenInv(own), [Next]_vars, Read \/ Write
  PROVE  DataInv' /\ Promise!Next
<1>1. TypeOK /\ ProcessInv
  BY DEF PopenInv, ProcessInv
<1>2. CASE Read
  <2> DEFINE e == table[Script][from]
  <2>1. /\ who \in Children /\ which \in Stream /\ which # "in" /\ e = Reader(who, which)
        /\ pid[who] # 0
    BY <1>1, <1>2, FromIs DEF Read, Stream
  <2>2. UNCHANGED <<pid, proc, table, written>>
    BY <1>2 DEF Read, processVars
  <2>3. CASE ReadByte(e)
    <3>1. /\ HasBytes(e) /\ Take(e) /\ told' = told
          /\ got' = [got EXCEPT ![who][which] = Append(@, Head(pipe[PipeOf(e)]))]
      BY <2>3 DEF ReadByte
    <3> HIDE DEF e
    <3> QED
      BY <2>1, <2>2, <3>1, ReadStep
  <2>4. CASE ReadEnd(e)
    <3>1. AtEnd(e) /\ told' = [told EXCEPT ![who][which] = TRUE] /\ UNCHANGED <<pipe, got>>
      BY <2>4 DEF ReadEnd
    <3> HIDE DEF e
    <3> QED
      BY <2>1, <2>2, <3>1, TellStep
  <2> QED
    BY <1>2, <2>3, <2>4 DEF Read
<1>3. CASE Write
  <2> DEFINE e == table[Script][from]
  <2>1. who \in Children /\ e = Writer(who, "in") /\ from \in Fd
    BY <1>1, <1>3, FromIs DEF Write
  <2>2. who \notin NotWritten
    BY <2>1 DEF NotWritten, Holds
  <2>3. /\ HasRoom(e) /\ Put(e, <<who, "in", written[who]["in"] + 1>>)
        /\ written' = [written EXCEPT ![who]["in"] = @ + 1]
        /\ UNCHANGED <<pid, proc, table, got, told>>
    BY <1>3 DEF Write, processVars
  <2>4. "in" \in Stream
    BY DEF Stream
  <2> HIDE DEF e
  <2> QED
    BY <2>1, <2>2, <2>3, <2>4, WriteStep
<1> QED
  BY <1>2, <1>3

LEMMA ChildStepIs ==
  ASSUME NEW own, PopenInv(own), [Next]_vars, NEW c \in Children, ChildNext(c)
  PROVE  DataInv' /\ Promise!Next
<1>1. TypeOK /\ ChildWired /\ StatusInv
  BY DEF PopenInv, ProcessInv, WiredInv
<1>2. proc[c] = "running" =>
        /\ pid[c] # 0 /\ ChildState[c] = "running"
        /\ table[c][0] = Reader(c, "in")
        /\ \A s \in {"out", "err"} : table[c][Standard(s)] = Writer(c, s)
  BY <1>1 DEF StatusInv, StatusOf, ChildState, ChildWired, Standard
<1>3. CASE Exec(c)
  <2>1. UNCHANGED <<pipe, written, got, told, pid>>
    BY <1>3 DEF Exec, dataVars
  <2>2. \A d \in Children : \/ proc'[d] = proc[d]
                            \/ {proc[d], proc'[d]} = {"forked", "running"}
    BY <1>1, <1>3 DEF Exec, TypeOK
  <2>3. UNCHANGED ChildState
    BY <2>1, <2>2, ChildStateKept
  <2> QED
    BY <2>1, <2>3, QuietStep
<1>4. CASE ChildExits(c)
  <2>1. /\ proc[c] = "running" /\ Exit(c)
        /\ UNCHANGED <<pid, pipe, written, got, told>>
    BY <1>4 DEF ChildExits, dataVars
  <2> QED
    BY <2>1, EndStep
<1>5. CASE ChildReads(c)
  <2> DEFINE e == table[c][0]
  <2>1. /\ proc[c] = "running" /\ ~told[c]["in"] /\ "in" \in Stream
        /\ UNCHANGED <<pid, proc, table, written>>
    BY <1>5 DEF ChildReads, processVars, Stream
  <2>2. e = Reader(c, "in") /\ pid[c] # 0 /\ ChildState[c] = "running"
    BY <1>2, <2>1
  <2>3. CASE /\ HasBytes(e) /\ Take(e) /\ UNCHANGED told
             /\ got' = [got EXCEPT ![c]["in"] = Append(@, Head(pipe[PipeOf(e)]))]
    <3> HIDE DEF e
    <3> QED
      BY <2>1, <2>2, <2>3, ReadStep
  <2>4. CASE AtEnd(e) /\ told' = [told EXCEPT ![c]["in"] = TRUE] /\ UNCHANGED <<pipe, got>>
    <3> HIDE DEF e
    <3> QED
      BY <2>1, <2>2, <2>4, TellStep
  <2> QED
    BY <1>5, <2>3, <2>4 DEF ChildReads
<1>6. ASSUME NEW s \in {"out", "err"}, ChildWrites(c, s)
      PROVE  DataInv' /\ Promise!Next
  <2> DEFINE e == table[c][Standard(s)]
  <2>1. proc[c] = "running" /\ UNCHANGED <<pid, got, told>> /\ s \in Stream /\ s # "in"
    BY <1>6 DEF ChildWrites, Stream
  <2>2. e = Writer(c, s) /\ ChildState[c] = "running"
    BY <1>2, <2>1
  <2>3. CASE /\ HasRoom(e) /\ Put(e, <<c, s, written[c][s] + 1>>)
             /\ written' = [written EXCEPT ![c][s] = @ + 1]
             /\ UNCHANGED <<table, proc>>
    <3> HIDE DEF e
    <3> QED
      BY <2>1, <2>2, <2>3, WriteStep
  <2>4. CASE Exit(c) /\ UNCHANGED <<pipe, written>>
    BY <2>1, <2>4, EndStep
  <2> QED
    BY <1>6, <2>3, <2>4 DEF ChildWrites
<1> QED
  BY <1>3, <1>4, <1>5, <1>6 DEF ChildNext

(* Every step of popen is one of Channels, or none that can be seen there. *)
LEMMA NextChannels ==
  ASSUME NEW own, PopenInv(own), [Next]_vars
  PROVE  DataInv' /\ [Promise!Next]_(Promise!vars)
<1>1. TypeOK /\ CallInv
  BY DEF PopenInv, ProcessInv
<1>2. ASSUME UNCHANGED <<pipe, written, got, told, pid, proc>>
      PROVE  DataInv' /\ Promise!Next
  <2>1. UNCHANGED ChildState
    BY <1>2 DEF ChildState
  <2> QED
    BY <1>2, <2>1, QuietStep
<1>3. CASE Popen \/ Pipes \/ PipeFails \/ CloseOtherEnds \/ Wrap \/ WriteKills \/ WaitFails
  BY <1>2, <1>3 DEF Popen, Pipes, MakePipe, PipeFails, CloseOtherEnds, Wrap, WriteKills, WaitFails,
                    kernelVars, processVars, dataVars
<1>4. CASE Fork \/ ForkFails
  BY <1>4, StartStep
<1>5. CASE Read \/ Write
  BY <1>5, ScriptMovesByte
<1>6. ASSUME UNCHANGED <<pipe, written, got, told, pid>>,
             NEW d \in Children, proc[d] = "zombie", proc' = [proc EXCEPT ![d] = "reaped"]
      PROVE  DataInv' /\ Promise!Next
  <2>1. \A c \in Children : \/ proc'[c] = proc[c]
                            \/ {proc[c], proc'[c]} = {"zombie", "reaped"}
    BY <1>1, <1>6 DEF TypeOK
  <2>2. UNCHANGED ChildState
    BY <1>6, <2>1, ChildStateKept
  <2> QED
    BY <1>6, <2>2, QuietStep
<1>7. CASE Wait
  BY <1>6, <1>7 DEF Wait, Waited, kernelVars, dataVars
<1>8. ASSUME NEW c \in Children, FinalizePopen(c) PROVE DataInv' /\ Promise!Next
  BY <1>2, <1>6, <1>8 DEF FinalizePopen, Waited, kernelVars, dataVars
<1>9. ASSUME NEW c \in Children, NEW s \in Stream,
             BeginWrite(c) \/ BeginWait(c) \/ BeginRead(c, s) \/ FinalizeIO(c, s)
      PROVE  DataInv' /\ Promise!Next
  BY <1>2, <1>9 DEF BeginWrite, BeginWait, BeginRead, FinalizeIO, kernelVars, processVars, dataVars
<1>10. ASSUME NEW c \in Children, NEW x \in Object, Lose(c, x) PROVE DataInv' /\ Promise!Next
  BY <1>2, <1>10 DEF Lose, kernelVars, processVars, dataVars
<1>11. ASSUME NEW q \in Process, NEW s \in Stream, Close(q, s) PROVE DataInv' /\ Promise!Next
  BY <1>2, <1>11 DEF Close, processVars, dataVars
<1>12. ASSUME NEW c \in Children, ChildNext(c) PROVE DataInv' /\ Promise!Next
  BY <1>12, ChildStepIs
<1>13. CASE UNCHANGED vars
  BY <1>2, <1>13 DEF vars, kernelVars, processVars, dataVars
<1>14. \E s \in Stream : TRUE
  BY DEF Stream
<1> QED
  BY <1>3, <1>4, <1>5, <1>7, <1>8, <1>9, <1>10, <1>11, <1>12, <1>13, <1>14
     DEF Next, ScriptNext, CallGoesOn

-----------------------------------------------------------------------------
(* The script and each of its children are connected by three channels: no *)
(* byte is lost, doubled, overtaken or delivered to another child, and the *)
(* end is told only when the writer is through and everything was read --  *)
(* whatever descriptors are open, closed, inherited or collected, if the   *)
(* script closes at most one of its own streams (os-engine.cc:107-199,     *)
(* io-engine.cc:72-139).                                                   *)
THEOREM PopenImplementsChannels ==
  ASSUME NEW own \in Stream, Closable[Script] \subseteq {own}
  PROVE  Spec => ImplementsChannels
<1>1. Init => DataInv /\ Promise!Init
  <2> SUFFICES ASSUME Init PROVE DataInv /\ Promise!Init
    OBVIOUS
  <2>1. /\ \A c \in Children : pid[c] = 0 /\ proc[c] = "none"
        /\ pipe = [q \in Children \X Stream |-> <<>>]
        /\ written = [c \in Children |-> [s \in Stream |-> 0]]
        /\ got = [c \in Children |-> [s \in Stream |-> <<>>]]
        /\ told = [c \in Children |-> [s \in Stream |-> FALSE]]
    BY DEF Init, KernelInit
  <2>2. ChildState = [c \in Children |-> "new"] /\ NotWritten = {}
    BY <2>1 DEF ChildState, NotWritten, NoPid
  <2>3. DataInv
    BY <2>1 DEF DataInv, ChannelOf
  <2>4. Promise!Init
    BY <2>1, <2>2 DEF Promise!Init, Promise!Stream, Stream
  <2> QED
    BY <2>3, <2>4
<1>2. PopenInv(own) /\ [Next]_vars => DataInv' /\ [Promise!Next]_(Promise!vars)
  BY NextChannels
<1> QED
  BY <1>1, <1>2, ProcessesConsistent, WiringConsistent, StatusConsistent, PTL
     DEF Spec, ImplementsChannels, Promise!Spec, PopenInv
=============================================================================
