----------------------------- MODULE TextStream -----------------------------
(***************************************************************************)
(* A TextInputStream: read() of io-engine.cc, which fills inBuffer from a  *)
(* descriptor and converts it to UTF-16, and the calls that io-engine.js   *)
(* builds on it.  The descriptor gives the bytes of a text, any number of  *)
(* them at a time, and read(2) may fail.                                   *)
(***************************************************************************)
EXTENDS Integers, Sequences, Iconv

CONSTANTS InSize,    \* bytes of inBuffer (1024)
          OutSize,   \* units of the first outBuffer of read() (512)
          Asks       \* what read(n) is asked for; 0: no argument

ASSUME TextStreamAssumption ==
  InSize \in Nat /\ InSize >= 4 /\ OutSize \in Nat \ {0} /\ Asks \subseteq Nat

VARIABLES
  text,       \* what the descriptor gives
  discards,   \* does iconv() skip illegal bytes?
  fetched,    \* how many bytes were read
  inBuffer,   \* the bytes read and not converted
  op,         \* the call the script is in, "none"
  pc,         \* where: "top" of read()'s loop, "fill", "convert", "line" ended, "emit"
  n,          \* read()'s argument
  size,       \* units of outBuffer
  outBuffer, lastErrno,
  line,       \* what readLine() has
  lines,      \* the lines of readLines(), forEach() or copy()
  ended,      \* the last call that returned and its result
  delivered,  \* [history] all that read() returned
  thrown,     \* [history] has a conversion failed?
  failed      \* [history] has read(2) failed in the last call?

readVars == <<inBuffer, fetched, n, size, outBuffer, lastErrno>>
streamVars == <<text, discards, readVars, op, pc, line, lines, ended, delivered, thrown,
               failed>>

Source == Pieces(text, "bytes")

StreamInit(texts) ==
  /\ text \in texts /\ discards \in BOOLEAN
  /\ fetched = 0 /\ inBuffer = <<>>
  /\ op = "none" /\ pc = "idle" /\ n = 0 /\ size = 0 /\ outBuffer = <<>> /\ lastErrno = "0"
  /\ line = <<>> /\ lines = <<>> /\ ended = [op |-> "none", n |-> 0, got |-> <<>>]
  /\ delivered = <<>> /\ thrown = FALSE /\ failed = FALSE

(* read(m) up to its loop. *)
StartRead(m) ==
  /\ pc' = "top" /\ n' = m /\ lastErrno' = "0" /\ outBuffer' = <<>>
  /\ size' = IF m = 0 THEN OutSize ELSE m
  /\ UNCHANGED <<inBuffer, fetched>>

(* What a call has in its variables goes with it. *)
Leave ==
  /\ op' = "none" /\ pc' = "idle"
  /\ n' = 0 /\ size' = 0 /\ outBuffer' = <<>> /\ lastErrno' = "0" /\ line' = <<>> /\ lines' = <<>>
  /\ UNCHANGED <<inBuffer, fetched>>

Ends(got) == Leave /\ ended' = [op |-> op, n |-> n, got |-> got]

(* forEach() takes it for the end of the lines and returns. *)
Throws ==
  /\ IF op = "forEach" THEN Ends(line) ELSE Leave /\ UNCHANGED ended
  /\ thrown' = TRUE /\ UNCHANGED <<delivered, failed>>

Call(name, m) ==
  /\ op = "none"
  /\ op' = name /\ StartRead(m) /\ failed' = FALSE
  /\ UNCHANGED <<text, discards, line, lines, ended, delivered, thrown>>

-----------------------------------------------------------------------------

(* [mutant] A newline does not end a line. *)
GoesOn_ToTheEnd(last) == last # <<>>

(* readLine() and what calls it. *)
GoesOn(last) == last # <<>> /\ text[last[1][1]] # "newline"

(* read() returns to the script or to readLine(). *)
Return(got) ==
  /\ delivered' = delivered \o got
  /\ UNCHANGED thrown
  /\ IF op = "read" THEN Ends(got)
     ELSE /\ line' = line \o got
          /\ IF GoesOn(got) THEN StartRead(1) ELSE pc' = "line" /\ UNCHANGED readVars
          /\ UNCHANGED <<op, lines, ended>>

NextLine(more) ==
  /\ line' = <<>> /\ lines' = Append(lines, more)
  /\ StartRead(1) /\ UNCHANGED <<op, ended>>

LineEnds ==
  /\ pc = "line"
  /\ UNCHANGED <<text, discards, delivered, thrown, failed>>
  /\ \/ op = "readLine" /\ Ends(line)
     \/ op = "readLines" /\ line = <<>> /\ Ends(line)
     \/ op = "readLines" /\ line # <<>> /\ NextLine(line)
     \* next() cuts the last character and stops at an empty line, forEach() with it
     \/ op = "forEach" /\ Len(line) <= 1 /\ Ends(line)
     \/ op = "forEach" /\ Len(line) > 1 /\ NextLine(SubSeq(line, 1, Len(line) - 1))
     \/ op = "copy" /\ pc' = "emit" /\ UNCHANGED <<op, ended, line, lines, readVars>>

(* copy(), once output.write(line) has returned. *)
Emitted ==
  /\ op = "copy" /\ pc = "emit"
  /\ IF line = <<>> THEN Ends(line) ELSE NextLine(line)
  /\ UNCHANGED <<text, discards, delivered, thrown, failed>>

-----------------------------------------------------------------------------
(* The loop of read(). *)
Full == Len(outBuffer) >= size

(* [mutant] A character cut by the end of inBuffer is not waited for. *)
MustFill_WhenEmpty == inBuffer = <<>>

MustFill == inBuffer = <<>> \/ lastErrno = "EINVAL"

(* [mutant] The first outBuffer is all there is. *)
Satisfied_Once == Full

(* Full, and as full as it may become. *)
Satisfied == Full /\ n # 0

Top ==
  /\ pc = "top" /\ UNCHANGED <<text, discards>>
  /\ \/ Satisfied /\ Return(outBuffer) /\ UNCHANGED failed
     \/ /\ ~Satisfied
        /\ size' = IF Full THEN 2 * size ELSE size
        /\ pc' = IF MustFill THEN "fill" ELSE "convert"
        /\ UNCHANGED <<inBuffer, fetched, n, outBuffer, lastErrno, op, line, lines, ended,
                       delivered, thrown, failed>>

(* [mutant] read() is given the size of inBuffer, not of what is free. *)
Room_Whole == InSize

Room == InSize - Len(inBuffer)

Fill ==
  /\ pc = "fill" /\ UNCHANGED <<text, discards>>
  /\ \/ \E k \in 1..Len(Source) :
          /\ k <= Room /\ fetched + k <= Len(Source)
          /\ inBuffer' = inBuffer \o SubSeq(Source, fetched + 1, fetched + k)
          /\ fetched' = fetched + k /\ pc' = "convert"
          /\ UNCHANGED <<n, size, outBuffer, lastErrno, op, line, lines, ended, delivered,
                         thrown, failed>>
     \/ /\ Room = 0 \/ fetched = Len(Source)
        /\ Return(outBuffer) /\ UNCHANGED failed
     \* it fails, which is taken for the end
     \/ Return(outBuffer) /\ failed' = TRUE

(* [mutant] They stay where they are: the front is converted again. *)
Shifted_Not(left) == SubSeq(inBuffer, 1, Len(left))

(* The bytes that are left, moved to the front. *)
Shifted(left) == left

ConvertBuffer ==
  LET done == Convert(text, inBuffer, "bytes", size - Len(outBuffer), discards) IN
  /\ pc = "convert" /\ UNCHANGED <<text, discards>>
  /\ IF done.stop = "EILSEQ" THEN Throws
     ELSE /\ inBuffer' = Shifted(done.left)
          /\ outBuffer' = outBuffer \o done.out
          /\ lastErrno' = IF done.stop = "done" THEN "0" ELSE done.stop
          /\ pc' = "top"
          /\ UNCHANGED <<fetched, n, size, op, line, lines, ended, delivered, thrown, failed>>

StreamCall ==
  \/ \E m \in Asks : Call("read", m)
  \/ \E name \in {"readLine", "readLines", "forEach", "copy"} : Call(name, 1)

StreamStep == Top \/ Fill \/ ConvertBuffer \/ LineEnds

(* The next character takes two units and there is room for one: iconv()   *)
(* says E2BIG, the buffer is not full, and the loop turns for ever.        *)
Stuck == pc = "top" /\ lastErrno = "E2BIG" /\ ~Full

-----------------------------------------------------------------------------
(* All the units there are, without what is illegal or cut off. *)
Everything == Convert(text, Source, "bytes", 2 * Len(Source), TRUE).out
Ahead == Convert(text, inBuffer \o SubSeq(Source, fetched + 1, Len(Source)),
                 "bytes", 2 * Len(Source), TRUE).out

(* However the descriptor and the calls cut the text, what was returned,   *)
(* what is being returned and what is ahead are the text, until a          *)
(* conversion error drops what read() had (io-engine.cc:241-262).          *)
NothingLost ==
  ~thrown => delivered \o (IF pc \in {"idle", "line", "emit"} THEN <<>> ELSE outBuffer) \o Ahead
             = Everything

(* A call that says the text has ended is right: read() without a number,  *)
(* readLines() and copy() end with everything read, and read(n) returns    *)
(* fewer only at the end, whatever the size of inBuffer (io-engine.cc:225):*)
(* unless read(2) failed in that call, which nothing tells from the end    *)
(* (io-engine.cc:232-234), or a conversion has failed before.              *)
EndMeansEnd ==
  \/ thrown \/ failed \/ op # "none"
  \/ ended.op = "read" /\ ended.n # 0 /\ Len(ended.got) >= ended.n
  \/ ended.op \in {"none", "readLine", "forEach"}
  \/ delivered = Everything

(* Each line of readLines() and copy() is one line: a newline is its last  *)
(* character, and only the last line may lack it (io-engine.js:101-111).   *)
(* A read(2) that fails ends a line wherever it stands.                    *)
LinesWhole ==
  op \in {"readLines", "copy"} /\ ~failed =>
    \A i \in 1..Len(lines) :
      LET has == {k \in 1..Len(lines[i]) : text[lines[i][k][1]] = "newline"} IN
      \/ has = {Len(lines[i])}
      \/ has = {} /\ i = Len(lines)
=============================================================================
