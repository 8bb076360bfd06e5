----------------------------- MODULE HttpParser -----------------------------
(***************************************************************************)
(* The request half of deps/http-parser, the Ragel parser to which Jill    *)
(* hands what recv() returned.  The input is a row of cells: a cell is the *)
(* smallest piece of a request around which this model lets the boundary   *)
(* between two recv() calls fall.  A cell of a path, query, header name,   *)
(* header value or body stands for one byte; a delimiter ("GET ",          *)
(* " HTTP/1.1\r\n", ": ", "\r\n") is one cell, because the machine runs at *)
(* most one action inside it.                                              *)
(*                                                                         *)
(* http_parser_execute() is a call that takes many steps here, one per     *)
(* callback it can make: "step" is where control is inside the call.       *)
(* Callback(c) is the call to user code that the next step makes; a module *)
(* that uses the parser conjoins its handler to that step.                 *)
(***************************************************************************)
EXTENDS Integers

CONSTANTS
  MaxFieldSize,    \* MAX_FIELD_SIZE: the longest field or URI there may be
  MaxLength        \* INT_MAX: a Content-Length beyond it takes no more digits

ASSUME ParserAssumption == MaxFieldSize \in Nat /\ MaxLength \in Nat

None == "none"

(***************************************************************************)
(* The kinds of cells.  A cell is a record of its kind k and a digit n.    *)
(* "digit" is a digit of a Content-Length; "chunked", "close" and "keep"   *)
(* are the last cell of the values that mean something to the machine.     *)
(***************************************************************************)
ValueKind == {"value", "digit", "chunked", "close", "keep"}
VersionKind == {"version10", "version11"}
Kind == ValueKind \cup VersionKind \cup
        {"method", "star", "path", "qmark", "query", "name", "colon", "crlf",
         "end", "body", "csize", "last", "junk"}
Cell == [k : Kind, n : Nat]

(***************************************************************************)
(* The grammar of a request.  A state named after a field reads the cells  *)
(* of that field and loops on them.  In "hdr" a header or the blank line   *)
(* that ends the headers may follow.                                       *)
(***************************************************************************)
Field == {"path", "query", "name", "value"}
CState == Field \cup {"start", "target", "uri", "query0", "hdr", "sep", "chunk",
                      "csize", "cdata", "chunk_end", "error"}

Edge ==
  {<<"start", "method", "target">>, <<"target", "star", "uri">>,
   <<"target", "path", "path">>, <<"path", "path", "path">>,
   <<"path", "qmark", "query0">>, <<"query0", "query", "query">>,
   <<"query", "query", "query">>,
   <<"hdr", "name", "name">>, <<"name", "name", "name">>,
   <<"name", "colon", "sep">>, <<"sep", "crlf", "hdr">>,
   <<"value", "crlf", "hdr">>,
   <<"chunk", "csize", "csize">>, <<"csize", "csize", "csize">>,
   <<"csize", "crlf", "cdata">>, <<"chunk_end", "crlf", "chunk">>}
  \cup {<<s, k, "hdr">> : s \in {"uri", "path", "query0", "query"}, k \in VersionKind}
  \cup {<<s, k, "value">> : s \in {"sep", "value"}, k \in ValueKind}

(* The states inside the URI, which is marked as a whole as well; no user  *)
(* of the parser sets on_uri, but its size is looked at.                   *)
UriState == {"uri", "path", "query0", "query"}

(* The field whose mark the entry into state s sets. *)
FieldOf(s) == IF s \in Field THEN s ELSE None

(* A field without a byte is marked and passed on by the same transition. *)
EmptyField(s, k) == IF s = "sep" /\ k = "crlf" THEN "value"
                    ELSE IF s = "query0" /\ k \in VersionKind THEN "query"
                    ELSE None

Flag == {"EATING", "ERROR", "CHUNKED", "EAT_FOREVER"}
Step == {"idle", "exec", "body_logic", "skip", "end_request", "eat_forever"}

-----------------------------------------------------------------------------
VARIABLES
  cs,              \* state of the generated machine
  step,            \* where http_parser_execute() is, "idle" outside a call
  p, pe,           \* offsets in the caller's buffer of the cell being read
                   \* and of the end of the data given
  field,           \* the field whose mark is set: none is while another is,
                   \* but that of the URI, of which "path" and "query" are parts
  markAt, markSize,\* that mark, and the size the field has grown to
  uri,             \* the bytes read of the URI (uri_size and what is behind
                   \* uri_mark); 0 while uri_mark is not set
  flags,           \* subset of Flag
  chunk_size,      \* what is left of the body or of the current chunk
  content_length,  \* -1 when no Content-Length was seen
  keep_alive       \* what http_parser_should_keep_alive() returns

markVars == <<field, markAt, markSize, uri>>
lengthVars == <<flags, chunk_size, content_length, keep_alive>>
parserVars == <<cs, step, p, pe, field, markAt, markSize, uri, flags, chunk_size,
                content_length, keep_alive>>

ParserTypeOK ==
  /\ cs \in CState
  /\ step \in Step
  /\ p \in Nat /\ pe \in Nat
  /\ field \in Field \cup {None}
  /\ markAt \in Nat /\ markSize \in Nat /\ uri \in Nat
  /\ flags \in SUBSET Flag
  /\ chunk_size \in Nat
  /\ content_length \in Nat \cup {-1}
  /\ keep_alive \in BOOLEAN

ParserInit ==
  /\ cs = "start" /\ step = "idle"
  /\ p = 0 /\ pe = 0
  /\ field = None /\ markAt = 0 /\ markSize = 0 /\ uri = 0
  /\ flags = {} /\ chunk_size = 0 /\ content_length = -1
  /\ keep_alive = FALSE

(* http_parser_init() on the parser of a new connection *)
http_parser_init ==
  /\ cs' = "start" /\ step' = "idle"
  /\ p' = 0 /\ pe' = 0
  /\ field' = None /\ markAt' = 0 /\ markSize' = 0 /\ uri' = 0
  /\ flags' = {} /\ chunk_size' = 0 /\ content_length' = -1
  /\ keep_alive' = FALSE

http_parser_has_error == "ERROR" \in flags \/ cs = "error"

-----------------------------------------------------------------------------
(* The callbacks. *)
Call(f, at, n) == [on |-> f, at |-> at, length |-> n]
Notify(f) == Call(f, 0, 0)
NoCall == Call(None, 0, 0)

Remaining == pe - p

Reading == step = "exec" /\ p < pe /\ cs # "error"

(* c is one of the cells the machine has a transition for. *)
Accepts(c) == \/ \E e \in Edge : e[1] = cs /\ e[2] = c.k
              \/ cs = "hdr" /\ c.k = "end"
              \/ cs = "chunk" /\ c.k = "last"
              \/ cs = "cdata"

(* c ends the field that is being read. *)
Closes(c) == field # None /\ <<cs, c.k, cs>> \notin Edge

(* CALLBACK's test of the size, for the marked field as it stands at p *)
FieldTooLong == field # None /\ markSize + (p - markAt) > MaxFieldSize

(* c ends the URI, and the URI has grown too long. *)
EndsURI(c) == cs \in UriState /\ c.k \in VersionKind
URITooLong == uri > MaxFieldSize

(* [mutants] SKIP_BODY without its MIN *)
Skipped_Remaining == Remaining
Skipped_Chunk == chunk_size

(* The number of cells SKIP_BODY skips. *)
Skipped == IF chunk_size < Remaining THEN chunk_size ELSE Remaining

FieldCall == IF field = None \/ FieldTooLong THEN NoCall
             ELSE Call(field, markAt, p - markAt)
BodyCall(n) == IF n = 0 THEN NoCall ELSE Call("body", p, n)

ReadingCall(c) ==
  IF Accepts(c) /\ Closes(c) THEN FieldCall
  ELSE IF EmptyField(cs, c.k) # None THEN Call(EmptyField(cs, c.k), p, 0)
  ELSE IF cs = "start" /\ c.k = "method" THEN Notify("message_begin")
  ELSE IF cs = "hdr" /\ c.k = "end" THEN Notify("headers_complete")
  ELSE NoCall

Callback(c) ==
  IF Reading THEN ReadingCall(c)
  ELSE IF step = "exec" THEN FieldCall
  ELSE IF step = "skip" THEN BodyCall(Skipped)
  ELSE IF step = "end_request" \/ (step = "eat_forever" /\ p = pe)
    THEN Notify("message_complete")
  ELSE IF step = "eat_forever" THEN BodyCall(Remaining)
  ELSE NoCall

-----------------------------------------------------------------------------
(* [mutant] The mark stays where the previous call set it. *)
http_parser_execute_OldMark(at, n) ==
  /\ step = "idle"
  /\ p' = at /\ pe' = at + n
  /\ step' = IF "EAT_FOREVER" \in flags THEN "eat_forever"
             ELSE IF chunk_size > 0 /\ "EATING" \in flags THEN "skip"
             ELSE "exec"
  /\ UNCHANGED <<cs, markVars, lengthVars>>

(***************************************************************************)
(* Entry of http_parser_execute(parser, base + at, n): a body that is      *)
(* being eaten comes first, and a mark left by the previous call moves to  *)
(* the start of the new data.                                              *)
(***************************************************************************)
http_parser_execute(at, n) ==
  /\ step = "idle"
  /\ p' = at /\ pe' = at + n
  /\ step' = IF "EAT_FOREVER" \in flags THEN "eat_forever"
             ELSE IF chunk_size > 0 /\ "EATING" \in flags THEN "skip"
             ELSE "exec"
  /\ markAt' = IF field = None \/ "EAT_FOREVER" \in flags THEN markAt ELSE at
  /\ UNCHANGED <<cs, field, markSize, uri, lengthVars>>

(* A connection read until its end: everything that comes is body. *)
EatForever ==
  /\ step = "eat_forever"
  /\ step' = "idle" /\ p' = pe
  /\ UNCHANGED <<cs, pe, markVars, lengthVars>>

(* CALLBACK refuses a field that has grown too long. *)
RefuseField(c) ==
  /\ \/ Reading /\ Accepts(c) /\ Closes(c)
     \/ step = "exec" /\ ~Reading
  /\ FieldTooLong
  /\ flags' = flags \cup {"ERROR"}
  /\ markSize' = markSize + (p - markAt)
  /\ step' = "idle"
  /\ UNCHANGED <<cs, p, pe, field, markAt, uri, chunk_size, content_length, keep_alive>>

(* CALLBACK refuses a URI whose parts were short enough, after they have   *)
(* been passed on: at its end or at that of the data.  cs and p are the    *)
(* call's own and go with it; here they stand behind the cell read.        *)
RefuseURI(c) ==
  /\ \/ /\ Reading /\ EndsURI(c)
        /\ cs' = "hdr" /\ p' = p + 1
        /\ field' = None /\ markAt' = 0 /\ markSize' = 0
     \/ /\ step = "exec" /\ ~Reading
        /\ markSize' = IF field = None THEN markSize ELSE markSize + (p - markAt)
        /\ UNCHANGED <<cs, p, field, markAt>>
  /\ ~FieldTooLong /\ URITooLong
  /\ flags' = flags \cup {"ERROR"}
  /\ step' = "idle"
  /\ UNCHANGED <<pe, uri, chunk_size, content_length, keep_alive>>

(* action content_length refuses a further digit. *)
RefuseDigit(c) ==
  /\ Reading /\ Accepts(c)
  /\ c.k = "digit" /\ content_length > MaxLength
  /\ flags' = flags \cup {"ERROR"}
  /\ step' = "idle"
  /\ UNCHANGED <<cs, p, pe, markVars, chunk_size, content_length, keep_alive>>

(* What the machine learns of the lengths from cell c. *)
Learn(c) ==
  /\ content_length' =
       IF c.k # "digit" THEN content_length
       ELSE IF content_length = -1 THEN c.n ELSE 10 * content_length + c.n
  /\ flags' = IF c.k = "chunked" THEN flags \cup {"CHUNKED"} ELSE flags
  /\ chunk_size' = IF c.k = "csize" THEN 16 * chunk_size + c.n ELSE chunk_size
  /\ keep_alive' = IF c.k \in {"keep", "version11"} THEN TRUE
                   ELSE IF c.k \in {"close", "version10"} THEN FALSE
                   ELSE keep_alive

(* A transition that reads c, passes on the field it ends and marks the    *)
(* one it begins.                                                          *)
Advance(c) ==
  /\ Reading
  /\ ~(Closes(c) /\ FieldTooLong)
  /\ ~(EndsURI(c) /\ URITooLong)
  /\ ~(c.k = "digit" /\ content_length > MaxLength)
  /\ \E e \in Edge :
       /\ e[1] = cs /\ e[2] = c.k
       /\ cs' = e[3]
       /\ field' = FieldOf(e[3])
       /\ IF FieldOf(e[3]) = field
            THEN UNCHANGED <<markAt, markSize>>
            ELSE /\ markAt' = IF FieldOf(e[3]) = None THEN 0 ELSE p
                 /\ markSize' = 0
       /\ uri' = IF e[3] \in UriState THEN uri + 1 ELSE 0
  /\ p' = p + 1
  /\ Learn(c)
  /\ UNCHANGED <<step, pe>>

(* A cell the grammar has no transition for: the machine stops at it. *)
Reject(c) ==
  /\ Reading /\ ~Accepts(c)
  /\ cs' = "error"
  /\ UNCHANGED <<step, p, pe, markVars, lengthVars>>

(* The blank line after the headers; action headers_complete *)
HeadersComplete(c) ==
  /\ Reading /\ cs = "hdr" /\ c.k = "end"
  /\ step' = "body_logic"
  /\ UNCHANGED <<cs, p, pe, markVars, lengthVars>>

(* action body_logic, still on the last cell of the headers *)
BodyLogic ==
  /\ step = "body_logic"
  /\ p' = p + 1
  /\ IF "CHUNKED" \in flags
       THEN /\ cs' = "chunk" /\ step' = "exec"
            /\ UNCHANGED lengthVars
       ELSE /\ cs' = "start" /\ step' = "skip"
            /\ chunk_size' = IF content_length >= 0 THEN content_length
                             ELSE IF keep_alive THEN 0 ELSE Remaining
            /\ content_length' = IF content_length < 0 /\ keep_alive THEN 0
                                 ELSE content_length
            /\ flags' = IF content_length < 0 /\ ~keep_alive
                          THEN flags \cup {"EAT_FOREVER"} ELSE flags
            /\ UNCHANGED keep_alive
  /\ UNCHANGED <<pe, markVars>>

(* action skip_chunk_data: the first cell of a chunk, whatever it is *)
ChunkData ==
  /\ Reading /\ cs = "cdata"
  /\ cs' = "chunk_end" /\ step' = "skip"
  /\ UNCHANGED <<p, pe, markVars, lengthVars>>

(* SKIP_BODY *)
SkipBody ==
  /\ step = "skip"
  /\ p' = p + Skipped
  /\ chunk_size' = chunk_size - Skipped
  /\ IF chunk_size = Skipped
       THEN /\ flags' = flags \ {"EATING"}
            /\ step' = IF "CHUNKED" \in flags THEN "exec" ELSE "end_request"
       ELSE /\ flags' = flags \cup {"EATING"}
            /\ step' = "exec"
  /\ UNCHANGED <<cs, pe, markVars, content_length, keep_alive>>

(* [mutant] end_chunked_body without END_REQUEST *)
LastChunk_Silent(c) ==
  /\ Reading /\ cs = "chunk" /\ c.k = "last"
  /\ cs' = "start" /\ p' = p + 1
  /\ UNCHANGED <<step, pe, markVars, lengthVars>>

(* action end_chunked_body *)
LastChunk(c) ==
  /\ Reading /\ cs = "chunk" /\ c.k = "last"
  /\ cs' = "start" /\ step' = "end_request"
  /\ p' = p + 1
  /\ UNCHANGED <<pe, markVars, lengthVars>>

(* END_REQUEST: on_message_complete, then RESET_PARSER *)
EndRequest ==
  /\ step = "end_request"
  /\ step' = "exec"
  /\ field' = None /\ markAt' = 0 /\ uri' = 0
  /\ flags' = {} /\ chunk_size' = 0 /\ content_length' = -1
  /\ keep_alive' = FALSE
  /\ UNCHANGED <<cs, p, pe, markSize>>

(* [mutant] The mark of an interrupted field is dropped. *)
Leave_NoMark ==
  /\ step = "exec" /\ ~Reading /\ ~FieldTooLong /\ ~URITooLong
  /\ step' = "idle" /\ field' = None
  /\ UNCHANGED <<cs, p, pe, markAt, markSize, uri, lengthVars>>

(* No input is left, or none that parses: what was read of a field so far  *)
(* is passed on, and the mark stays for the next call.                     *)
Leave ==
  /\ step = "exec" /\ ~Reading
  /\ ~FieldTooLong /\ ~URITooLong
  /\ step' = "idle"
  /\ markSize' = IF field = None THEN markSize ELSE markSize + (p - markAt)
  /\ UNCHANGED <<cs, p, pe, field, markAt, uri, lengthVars>>

(* One step of a running call, when the cell at p is c. *)
ParserStep(c) ==
  \/ EatForever \/ RefuseField(c) \/ RefuseURI(c) \/ RefuseDigit(c) \/ Advance(c) \/ Reject(c)
  \/ HeadersComplete(c) \/ BodyLogic \/ ChunkData \/ SkipBody \/ LastChunk(c)
  \/ EndRequest \/ Leave

-----------------------------------------------------------------------------
(***************************************************************************)
(* What holds between any two steps, and is kept by each of them.          *)
(***************************************************************************)

(* A field is marked exactly while the machine is inside it, or stopped in *)
(* it by an error, and its mark is behind the cursor.                      *)
MarkInv ==
  /\ p <= pe
  /\ field # None => markAt <= p /\ cs \in {field, "error"}
  /\ cs \in Field => field = cs

(* The steps of a call that are not the machine's are taken between two    *)
(* fields; chunks are read only of a message that announced them.          *)
ChunkState == {"chunk", "csize", "cdata", "chunk_end"}
PhaseInv ==
  /\ cs \in ChunkState => "CHUNKED" \in flags
  /\ step = "body_logic" => cs = "hdr" /\ p < pe
  /\ step = "skip" => cs \in {"start", "chunk_end"}
  /\ step = "end_request" => cs = "start"
  /\ step = "eat_forever" => "EAT_FOREVER" \in flags

(* A body that is being eaten has used up the data of the call; one that   *)
(* is eaten for ever never comes to an end.                                *)
EatInv ==
  /\ "EATING" \in flags =>
       /\ chunk_size > 0 /\ cs \in {"start", "chunk_end"}
       /\ step \in {"exec", "idle", "skip", "eat_forever"}
       /\ step = "exec" => p = pe
  /\ "EAT_FOREVER" \in flags =>
       /\ cs = "start"
       /\ IF step = "skip" THEN chunk_size > Remaining ELSE "EATING" \in flags

ParserInv == MarkInv /\ PhaseInv /\ EatInv
=============================================================================
