------------------------------ MODULE Decoding ------------------------------
(***************************************************************************)
(* A script that moves a text: a TextInputStream, a TextOutputStream whose *)
(* raw stream is a ByteIO, and the ByteIO, of which it reads or decodes    *)
(* what is there.  What the ByteIO holds comes from the input's copy(),    *)
(* from a string, or from ByteStrings of the text.                         *)
(***************************************************************************)
EXTENDS TextStream, Transcode, ByteIO

CONSTANTS TextsOf,    \* of a writer: the texts
          NotYet

Writers == {"copy", "string", "binary"}

ASSUME DecodingAssumption ==
  \A w \in Writers : \A t \in TextsOf[w] :
    t \in Seq(Kinds) /\ \A i \in 1..(Len(t) - 1) : t[i] # "cut"

VARIABLES
  writer,     \* "copy", "string" or "binary": where the bytes come from
  turn,       \* "script", or the call that waits for transcode() or the ByteIO
  encoded,    \* [history] the bytes written to the ByteIO, by their number
  copied,     \* [history] the units written to the TextOutputStream
  decoded     \* what the last decodeToString() returned, NotYet

decodingVars ==
  <<streamVars, transcodeVars, byteVars, writer, turn, encoded, copied, decoded>>

DecodingTypeOK ==
  /\ ByteTypeOK
  /\ writer \in Writers /\ turn \in {"script", "write", "collect", "decode"}
  /\ op \in {"none", "read", "readLine", "readLines", "forEach", "copy"}
  /\ pc \in {"idle", "top", "fill", "convert", "line", "emit"}
  /\ from \in {"no", "bytes", "units"} /\ room \in Nat
  /\ fetched \in 0..Len(Source) /\ Len(inBuffer) <= InSize
  /\ lastErrno \in {"0", "EINVAL", "E2BIG"}
  /\ Len(encoded) = written

DecodingInit ==
  /\ writer \in Writers /\ StreamInit(TextsOf[writer])
  /\ TranscodeInit /\ ByteInit
  /\ turn = "script" /\ encoded = <<>> /\ copied = <<>> /\ decoded = NotYet

Idle == turn = "script" /\ op = "none" /\ reading = "no"

-----------------------------------------------------------------------------
(* The input. *)
CallStream ==
  /\ Idle /\ writer = "copy" /\ StreamCall
  /\ op' = "copy" => buffer = <<>>   \* bound: one copy
  /\ UNCHANGED <<transcodeVars, byteVars, writer, turn, encoded, copied, decoded>>

StepStream ==
  /\ StreamStep
  /\ UNCHANGED <<transcodeVars, byteVars, writer, turn, encoded, copied, decoded>>

-----------------------------------------------------------------------------
(* TextOutputStream.write(str): B_ENCODE, then the ByteIO's write().       *)
String == Pieces(text, "units")

WriteString(str) ==
  /\ BeginTranscode(str, "units")
  /\ turn' = "write"
  /\ UNCHANGED <<streamVars, byteVars, writer, encoded, copied, decoded>>

Emit == turn = "script" /\ pc = "emit" /\ WriteString(line)

ScriptWrites ==
  /\ Idle /\ writer = "string" /\ buffer = <<>> /\ WriteString(String)

(* B_ENCODE throws: copy() ends with it. *)
WriteThrows ==
  /\ IF op = "copy" THEN Throws /\ UNCHANGED <<text, discards>>
     ELSE UNCHANGED streamVars
  /\ UNCHANGED <<byteVars, encoded, copied, decoded>>

Written ==
  /\ ByteWrite(Len(dstBuf), 0, 0) /\ encoded' = encoded \o dstBuf
  /\ copied' = copied \o (IF op = "copy" THEN line ELSE String)
  /\ decoded' = NotYet
  /\ IF op = "copy" THEN Emitted ELSE UNCHANGED streamVars

EncodeEnds ==
  /\ turn = "write"
  /\ \/ TurnFails(text, FALSE) /\ WriteThrows
     \/ TranscodeEnds /\ IF srcBuf = <<>> THEN Written ELSE WriteThrows
  /\ turn' = "script" /\ UNCHANGED writer

-----------------------------------------------------------------------------
(* The ByteIO.  A binary writer's bytes are the text's, and it reads. *)
BinaryCall ==
  /\ Idle /\ writer = "binary"
  /\ \/ \E k \in 0..Len(Source), a, b \in 0..MaxAround :
          /\ ByteRoom(k) /\ written + k <= Len(Source)
          /\ ByteWrite(k, a, b)
          /\ encoded' = encoded \o SubSeq(Source, written + 1, written + k)
     \/ /\ \/ \E w \in Wants : BeginByteRead(w, "read")
           \/ BeginByteRead(length, "read")
           \/ BeginByteRead(length, "keep")
        /\ UNCHANGED encoded
  /\ decoded' = NotYet
  /\ UNCHANGED <<streamVars, transcodeVars, writer, turn, copied>>

BinaryStep ==
  /\ CopySegment \/ (turn = "script" /\ EndByteRead)
  /\ UNCHANGED <<streamVars, transcodeVars, writer, turn, encoded, copied, decoded>>

(* decodeToString(charset): toByteString(), then B_DECODE of its bytes.    *)
BeginDecode ==
  /\ Idle /\ BeginByteRead(length, "keep")
  /\ turn' = IF reading' = "keep" THEN "collect" ELSE "script"
  /\ decoded' = NotYet
  /\ UNCHANGED <<streamVars, transcodeVars, writer, encoded, copied>>

Collected ==
  /\ turn = "collect" /\ EndByteRead
  /\ BeginTranscode([i \in 1..position |-> encoded[dst[i]]], "bytes")
  /\ turn' = "decode"
  /\ UNCHANGED <<streamVars, writer, encoded, copied, decoded>>

DecodeEnds ==
  /\ turn = "decode"
  /\ \/ TurnFails(text, discards) /\ UNCHANGED decoded
     \/ TranscodeEnds /\ decoded' = IF srcBuf = <<>> THEN dstBuf ELSE decoded
  /\ turn' = "script"
  /\ UNCHANGED <<streamVars, byteVars, writer, encoded, copied>>

TurnTranscode ==
  /\ TurnWorks(text, turn = "decode" /\ discards)
  /\ UNCHANGED <<streamVars, byteVars, writer, turn, encoded, copied, decoded>>

-----------------------------------------------------------------------------
Running == StepStream \/ Emit \/ EncodeEnds \/ BinaryStep \/ Collected \/ DecodeEnds \/ TurnTranscode

DecodingNext == CallStream \/ ScriptWrites \/ BinaryCall \/ BeginDecode \/ Running

(* A call that can go on does. *)
DecodingSpec == DecodingInit /\ [][DecodingNext]_decodingVars /\ WF_decodingVars(Running)

-----------------------------------------------------------------------------
(* A text comes through: copy() writes every line of the input, and what   *)
(* decodeToString() returns is the text that was written, though it passed *)
(* iconv() twice and the ByteIO between.  Of bytes that are no whole text  *)
(* it returns what iconv() makes of those that are there, if of all        *)
(* (binary-engine.cc:165-255, io-engine.js:148-154).  A copy() in which    *)
(* read(2) failed has written the lines up to there.                       *)
RoundTrip ==
  /\ ended.op = "copy" /\ ~thrown /\ ~failed /\ Idle =>
       \E k \in 0..Len(Everything) : copied = SubSeq(Everything, k + 1, Len(Everything))
  /\ decoded # NotYet =>
       IF writer # "binary" THEN decoded = copied
       ELSE LET there == SubSeq(encoded, taken + 1, written)
                all == Convert(text, there, "bytes", 2 * Len(there), discards) IN
            all.stop = "done" /\ decoded = all.out

(* Every call returns but two: read() that has room for one unit while the *)
(* next character takes two (io-engine.cc:246), and transcode() of a text  *)
(* that ends amid a character (binary-engine.cc:196).                      *)
CallsReturn ==
  ~Idle ~> Idle \/ Stuck \/ Spins(text, turn = "decode" /\ discards)
=============================================================================
