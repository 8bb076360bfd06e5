-------------------------- MODULE HttpParserProofs --------------------------
(***************************************************************************)
(* Facts about single steps of http-parser, for any input and any place at *)
(* which it is interrupted.                                                *)
(***************************************************************************)
EXTENDS HttpParser, TLAPS

(* What the grammar says of a single transition: a header value comes only *)
(* after the colon that ends a name, and a field's state is left only by a *)
(* cell it does not loop on.                                               *)
LEMMA EdgeFacts ==
  ASSUME NEW e \in Edge
  PROVE  /\ e[1] \in CState \ {"error", "cdata"}
         /\ e[2] \in Kind
         /\ e[3] \in CState \ {"error", "start"}
         /\ e[3] = "sep" => e[1] = "name" /\ e[2] = "colon"
         /\ e[3] = "value" => e[1] \in {"sep", "value"}
         /\ e[3] \in ChunkState => e[1] \in ChunkState
         /\ e[3] \in Field => <<e[3], e[2], e[3]>> \in Edge
BY DEF Edge, CState, Kind, Field, ValueKind, VersionKind, ChunkState

(* No field is passed on or marked in the states between two fields. *)
LEMMA NoField ==
  ASSUME ParserTypeOK, MarkInv, cs \notin Field \cup {"error"}
  PROVE  field = None
BY DEF ParserTypeOK, MarkInv

(* A body that is being eaten leaves nothing for the machine to read. *)
LEMMA NotEating ==
  ASSUME ParserTypeOK, ParserInv, (step = "exec" /\ p < pe) \/ step = "body_logic"
  PROVE  "EATING" \notin flags /\ "EAT_FOREVER" \notin flags
BY DEF ParserTypeOK, ParserInv, EatInv

(* A step of a running call keeps the types. *)
LEMMA ParserStepType ==
  ASSUME ParserTypeOK, ParserInv, NEW c \in Cell, ParserStep(c)
  PROVE  ParserTypeOK'
<1>. USE DEF ParserTypeOK, markVars, lengthVars, Flag, Step
<1>1. CASE EatForever
  BY <1>1 DEF EatForever
<1>2. CASE RefuseField(c)
  BY <1>2 DEF RefuseField, ParserInv, MarkInv, FieldTooLong
<1>3. CASE RefuseDigit(c)
  BY <1>3 DEF RefuseDigit
<1>13. CASE RefuseURI(c)
  BY <1>13 DEF RefuseURI, ParserInv, MarkInv, CState, FieldTooLong
<1>4. CASE Advance(c)
  <2>1. PICK e \in Edge : /\ cs' = e[3] /\ field' = FieldOf(e[3])
                          /\ IF FieldOf(e[3]) = field
                               THEN UNCHANGED <<markAt, markSize>>
                               ELSE /\ markAt' = IF FieldOf(e[3]) = None THEN 0 ELSE p
                                    /\ markSize' = 0
                          /\ uri' = IF e[3] \in UriState THEN uri + 1 ELSE 0
    BY <1>4 DEF Advance
  <2>2. cs' \in CState /\ field' \in Field \cup {None}
    BY <2>1, EdgeFacts DEF FieldOf
  <2>3. markAt' \in Nat /\ markSize' \in Nat /\ uri' \in Nat
    BY <2>1
  <2>4. flags' \in SUBSET Flag
    BY <1>4 DEF Advance, Learn
  <2>5. chunk_size' \in Nat /\ content_length' \in Nat \cup {-1}
    BY <1>4 DEF Advance, Learn, Cell
  <2>6. keep_alive' \in BOOLEAN
    BY <1>4, Zenon DEF Advance, Learn
  <2>. QED BY <1>4, <2>2, <2>3, <2>4, <2>5, <2>6 DEF Advance
<1>5. CASE Reject(c)
  BY <1>5 DEF Reject, CState
<1>6. CASE HeadersComplete(c)
  BY <1>6 DEF HeadersComplete
<1>7. CASE BodyLogic
  <2>1. p' \in Nat /\ cs' \in CState /\ step' \in Step
    BY <1>7 DEF BodyLogic, CState
  <2>2. chunk_size' \in Nat /\ content_length' \in Nat \cup {-1}
    BY <1>7 DEF BodyLogic, Remaining, ParserInv, PhaseInv
  <2>3. flags' \in SUBSET Flag
    BY <1>7 DEF BodyLogic
  <2>4. keep_alive' \in BOOLEAN /\ UNCHANGED <<pe, field, markAt, markSize, uri>>
    BY <1>7, Zenon DEF BodyLogic
  <2>. QED BY <2>1, <2>2, <2>3, <2>4
<1>8. CASE ChunkData
  BY <1>8 DEF ChunkData, CState
<1>9. CASE SkipBody
  <2>1. Skipped \in Nat /\ Skipped <= chunk_size
    BY DEF Skipped, Remaining, ParserInv, MarkInv
  <2>2. p' \in Nat /\ chunk_size' \in Nat
    BY <1>9, <2>1 DEF SkipBody
  <2>3. flags' \in SUBSET Flag /\ step' \in Step
    BY <1>9 DEF SkipBody
  <2>. QED BY <1>9, <2>2, <2>3 DEF SkipBody
<1>10. CASE LastChunk(c)
  BY <1>10 DEF LastChunk, CState
<1>11. CASE EndRequest
  BY <1>11 DEF EndRequest
<1>12. CASE Leave
  BY <1>12 DEF Leave, ParserInv, MarkInv
<1>. QED
  BY <1>1, <1>2, <1>3, <1>4, <1>5, <1>6, <1>7, <1>8, <1>9, <1>10, <1>11, <1>12, <1>13
     DEF ParserStep

(* A step of a running call keeps ParserInv. *)
LEMMA ParserStepInv ==
  ASSUME ParserTypeOK, ParserInv, NEW c \in Cell, ParserStep(c)
  PROVE  ParserInv'
<1>. USE DEF ParserInv, MarkInv, PhaseInv, EatInv, ChunkState, markVars, lengthVars
<1>1. CASE EatForever
  BY <1>1 DEF EatForever, ParserTypeOK, Remaining, Field
<1>2. CASE RefuseField(c)
  <2>1. field # None
    BY <1>2 DEF RefuseField, FieldTooLong
  <2>2. "EATING" \notin flags /\ "EAT_FOREVER" \notin flags
    BY <2>1, NoField DEF Field
  <2>. QED BY <1>2, <2>2 DEF RefuseField, Remaining
<1>13. CASE RefuseURI(c)
  <2>1. cs \notin {"start", "chunk_end"} => "EATING" \notin flags /\ "EAT_FOREVER" \notin flags
    OBVIOUS
  <2>2. cs' = "hdr" \/ UNCHANGED <<cs, p, field, markAt>>
    BY <1>13 DEF RefuseURI
  <2>3. CASE cs' = "hdr" /\ Reading /\ EndsURI(c)
    BY <1>13, <2>1, <2>3 DEF RefuseURI, EndsURI, UriState, Reading, Remaining, Field, ParserTypeOK
  <2>4. CASE UNCHANGED <<cs, p, field, markAt>> /\ ~Reading
    BY <1>13, <2>4 DEF RefuseURI, Remaining, Reading
  <2>. QED BY <1>13, <2>3, <2>4 DEF RefuseURI
<1>3. CASE RefuseDigit(c)
  <2>1. "EATING" \notin flags /\ "EAT_FOREVER" \notin flags
    BY <1>3, NotEating DEF RefuseDigit, Reading
  <2>. QED BY <1>3, <2>1 DEF RefuseDigit, Remaining
<1>4. CASE Advance(c)
  <2>1. PICK e \in Edge : /\ e[1] = cs /\ cs' = e[3] /\ field' = FieldOf(e[3])
                          /\ IF FieldOf(e[3]) = field
                               THEN UNCHANGED <<markAt, markSize>>
                               ELSE /\ markAt' = IF FieldOf(e[3]) = None THEN 0 ELSE p
                                    /\ markSize' = 0
    BY <1>4 DEF Advance
  <2>2. p < pe /\ p' = p + 1 /\ pe' = pe /\ step = "exec" /\ step' = "exec"
    BY <1>4 DEF Advance, Reading
  <2>3. "EATING" \notin flags /\ "EAT_FOREVER" \notin flags
    BY <2>2, NotEating
  <2>4. "EATING" \notin flags' /\ "EAT_FOREVER" \notin flags'
    BY <1>4, <2>3 DEF Advance, Learn
  <2>5. MarkInv'
    <3>1. p' <= pe'
      BY <2>2 DEF ParserTypeOK
    <3>2. ASSUME field' # None PROVE markAt' <= p' /\ cs' \in {field', "error"}
      BY <2>1, <2>2, <3>2 DEF FieldOf, ParserTypeOK
    <3>3. cs' \in Field => field' = cs'
      BY <2>1 DEF FieldOf
    <3>. QED BY <3>1, <3>2, <3>3
  <2>6. cs' \in ChunkState => "CHUNKED" \in flags'
    <3>1. cs' \in ChunkState => cs \in ChunkState
      BY <2>1, EdgeFacts
    <3>. QED BY <1>4, <3>1 DEF Advance, Learn
  <2>. QED BY <2>2, <2>4, <2>5, <2>6
<1>5. CASE Reject(c)
  <2>1. "EATING" \notin flags /\ "EAT_FOREVER" \notin flags
    BY <1>5, NotEating DEF Reject, Reading
  <2>. QED BY <1>5, <2>1 DEF Reject, Field, Remaining, Reading
<1>6. CASE HeadersComplete(c)
  <2>1. "EATING" \notin flags /\ "EAT_FOREVER" \notin flags
    BY <1>6, NotEating DEF HeadersComplete, Reading
  <2>. QED BY <1>6, <2>1 DEF HeadersComplete, Reading, Remaining
<1>7. CASE BodyLogic
  <2>1. "EATING" \notin flags /\ "EAT_FOREVER" \notin flags /\ field = None
    BY <1>7, NoField, NotEating DEF BodyLogic, Field
  <2>2. /\ p < pe /\ p' = p + 1 /\ pe' = pe /\ field' = field /\ markAt' = markAt
        /\ cs' \in {"chunk", "start"} /\ step' \in {"exec", "skip"}
        /\ step' = "skip" => cs' = "start"
        /\ cs' = "chunk" => "CHUNKED" \in flags'
    BY <1>7 DEF BodyLogic
  <2>3. MarkInv' /\ PhaseInv'
    BY <2>1, <2>2 DEF ParserTypeOK, Field, None
  <2>4. "EATING" \notin flags'
    BY <1>7, <2>1 DEF BodyLogic
  <2>5. "EAT_FOREVER" \in flags' => /\ cs' = "start" /\ step' = "skip"
                                    /\ chunk_size' = Remaining
    <3>1. CASE "CHUNKED" \in flags
      BY <1>7, <2>1, <3>1 DEF BodyLogic
    <3>2. CASE "CHUNKED" \notin flags
      <4>1. flags' = flags \/ (~(content_length >= 0) /\ ~keep_alive)
        BY <1>7, <3>2 DEF BodyLogic, ParserTypeOK
      <4>. QED BY <1>7, <2>1, <3>2, <4>1 DEF BodyLogic
    <3>. QED BY <3>1, <3>2
  <2>6. Remaining' = Remaining - 1 /\ Remaining \in Int
    BY <2>2 DEF Remaining, ParserTypeOK
  <2>7. EatInv'
    BY <2>4, <2>5, <2>6
  <2>. QED BY <2>3, <2>7
<1>8. CASE ChunkData
  <2>1. "EATING" \notin flags /\ "EAT_FOREVER" \notin flags /\ field = None
    BY <1>8, NoField, NotEating DEF ChunkData, Reading, Field
  <2>. QED BY <1>8, <2>1 DEF ChunkData, Field, None, Remaining
<1>9. CASE SkipBody
  <2>1. field = None
    BY <1>9, NoField DEF SkipBody, Field
  <2>2. /\ Skipped \in Nat /\ Skipped <= chunk_size /\ Skipped <= Remaining
        /\ Remaining \in Nat
        /\ chunk_size # Skipped => Skipped = Remaining
    BY DEF Skipped, Remaining, ParserTypeOK
  <2>3. /\ p' = p + Skipped /\ pe' = pe /\ chunk_size' = chunk_size - Skipped
        /\ cs' = cs /\ field' = field /\ markAt' = markAt /\ step = "skip"
    BY <1>9 DEF SkipBody
  <2>4. MarkInv'
    BY <2>1, <2>2, <2>3 DEF ParserTypeOK, Remaining
  <2>5. CASE chunk_size = Skipped
    <3>1. "EAT_FOREVER" \notin flags
      BY <2>2, <2>3, <2>5 DEF ParserTypeOK
    <3>2. "EATING" \notin flags' /\ "EAT_FOREVER" \notin flags'
      BY <1>9, <2>5, <3>1 DEF SkipBody
    <3>3. step' = "exec" \/ (step' = "end_request" /\ "CHUNKED" \notin flags)
      BY <1>9, <2>5 DEF SkipBody
    <3>4. cs' \in ChunkState => "CHUNKED" \in flags'
      BY <1>9, <2>5 DEF SkipBody
    <3>. QED BY <2>3, <2>4, <3>2, <3>3, <3>4
  <2>6. CASE chunk_size # Skipped
    <3>1. p' = pe' /\ chunk_size' > 0 /\ step' = "exec"
      BY <1>9, <2>2, <2>3, <2>6 DEF SkipBody, ParserTypeOK, Remaining
    <3>2. flags' = flags \cup {"EATING"}
      BY <1>9, <2>6 DEF SkipBody
    <3>3. cs' \in {"start", "chunk_end"} /\ ("EAT_FOREVER" \in flags' => cs' = "start")
      BY <2>3, <3>2
    <3>. QED BY <2>3, <2>4, <3>1, <3>2, <3>3
  <2>. QED BY <2>5, <2>6
<1>10. CASE LastChunk(c)
  <2>1. "EATING" \notin flags /\ "EAT_FOREVER" \notin flags /\ field = None
    BY <1>10, NoField, NotEating DEF LastChunk, Reading, Field
  <2>. QED BY <1>10, <2>1 DEF LastChunk, Reading, Field, Remaining, ParserTypeOK
<1>11. CASE EndRequest
  BY <1>11 DEF EndRequest, Field, Remaining
<1>12. CASE Leave
  BY <1>12 DEF Leave, Reading, Remaining
<1>. QED
  BY <1>1, <1>2, <1>3, <1>4, <1>5, <1>6, <1>7, <1>8, <1>9, <1>10, <1>11, <1>12, <1>13
     DEF ParserStep

(* Entering http_parser_execute() with data at or beyond the cursor keeps  *)
(* the types and ParserInv.                                                *)
LEMMA ExecuteInv ==
  ASSUME ParserTypeOK, ParserInv, NEW at \in Nat, NEW n \in Nat,
         http_parser_execute(at, n)
  PROVE  ParserTypeOK' /\ ParserInv'
<1>. USE DEF http_parser_execute, lengthVars
<1>1. ParserTypeOK'
  BY DEF ParserTypeOK, Step
<1>2. MarkInv'
  BY NoField DEF ParserInv, MarkInv, EatInv, ParserTypeOK, Field
<1>3. PhaseInv' /\ EatInv'
  BY DEF ParserInv, PhaseInv, EatInv, Remaining
<1>. QED BY <1>1, <1>2, <1>3 DEF ParserInv

(* A new parser satisfies both. *)
LEMMA InitInv ==
  ASSUME http_parser_init
  PROVE  ParserTypeOK' /\ ParserInv'
<1>. USE DEF http_parser_init
<1>1. ParserTypeOK'
  BY DEF ParserTypeOK, CState, Step, Flag
<1>2. MarkInv'
  BY DEF MarkInv, Field
<1>3. PhaseInv' /\ EatInv'
  BY DEF PhaseInv, EatInv, ChunkState
<1>. QED BY <1>1, <1>2, <1>3 DEF ParserInv

(* The same for the state of http_parser_init() itself. *)
LEMMA ParserInitInv ==
  ASSUME ParserInit
  PROVE  ParserTypeOK /\ ParserInv
<1>. USE DEF ParserInit
<1>1. ParserTypeOK
  BY DEF ParserTypeOK, CState, Step, Flag
<1>2. MarkInv
  BY DEF MarkInv, Field
<1>3. PhaseInv /\ EatInv
  BY DEF PhaseInv, EatInv, ChunkState
<1>. QED BY <1>1, <1>2, <1>3 DEF ParserInv

-----------------------------------------------------------------------------
(***************************************************************************)
(* What a step does to the mark, and what its callback says.               *)
(***************************************************************************)

(* The cursor only moves forward; a field is marked at the cursor and left *)
(* only by reading on.                                                     *)
LEMMA CursorStep ==
  ASSUME ParserTypeOK, ParserInv, NEW c \in Cell, ParserStep(c)
  PROVE  /\ p <= p'
         /\ pe' = pe
         /\ field' # field => step = "exec" /\ p < p'
         /\ field' # field /\ field' # None => markAt' = p
         /\ field' = field /\ field # None => markAt' = markAt
         /\ step' = "exec" /\ field # None => step = "exec"
<1>. USE DEF markVars, lengthVars
<1>1. CASE EatForever
  BY <1>1, NoField DEF EatForever, ParserInv, MarkInv, ParserTypeOK
<1>2. CASE RefuseField(c)
  BY <1>2 DEF RefuseField, ParserTypeOK
<1>3. CASE RefuseDigit(c)
  BY <1>3 DEF RefuseDigit, ParserTypeOK
<1>13. CASE RefuseURI(c)
  BY <1>13 DEF RefuseURI, Reading, ParserTypeOK
<1>4. CASE Advance(c)
  BY <1>4 DEF Advance, Reading, ParserTypeOK
<1>5. CASE Reject(c)
  BY <1>5 DEF Reject, ParserTypeOK, Reading
<1>6. CASE HeadersComplete(c)
  BY <1>6 DEF HeadersComplete, ParserTypeOK
<1>7. CASE BodyLogic
  <2>1. field = None
    BY <1>7, NoField DEF BodyLogic, ParserInv, PhaseInv, Field
  <2>. QED BY <1>7, <2>1 DEF BodyLogic, ParserTypeOK
<1>8. CASE ChunkData
  BY <1>8 DEF ChunkData, ParserTypeOK
<1>9. CASE SkipBody
  <2>1. field = None
    BY <1>9, NoField DEF SkipBody, ParserInv, PhaseInv, Field
  <2>2. Skipped \in Nat
    BY DEF Skipped, Remaining, ParserTypeOK, ParserInv, MarkInv
  <2>. QED BY <1>9, <2>1, <2>2 DEF SkipBody, ParserTypeOK
<1>10. CASE LastChunk(c)
  <2>1. field = None
    BY <1>10, NoField DEF LastChunk, ParserInv, Field
  <2>. QED BY <1>10, <2>1 DEF LastChunk, ParserTypeOK
<1>11. CASE EndRequest
  <2>1. field = None
    BY <1>11, NoField DEF EndRequest, ParserInv, PhaseInv, Field
  <2>. QED BY <1>11, <2>1 DEF EndRequest, ParserTypeOK
<1>12. CASE Leave
  BY <1>12 DEF Leave, ParserTypeOK
<1>. QED
  BY <1>1, <1>2, <1>3, <1>4, <1>5, <1>6, <1>7, <1>8, <1>9, <1>10, <1>11, <1>12, <1>13
     DEF ParserStep

(* A call for a field passes on what was read of it since the mark, up to  *)
(* the cursor, or an empty field at the cursor.  It comes either with the  *)
(* cell that ends the field, which is read, or as the call of              *)
(* http_parser_execute() returns.                                          *)
LEMMA FieldCallStep ==
  ASSUME ParserTypeOK, ParserInv, NEW c \in Cell, ParserStep(c),
         NEW f \in Field, Callback(c).on = f
  PROVE  /\ step = "exec"
         /\ Callback(c).at \in Nat /\ Callback(c).length \in Nat
         /\ Callback(c).at + Callback(c).length = p
         /\ \/ field = f /\ Callback(c).at = markAt
            \/ field = None /\ Callback(c).at = p /\ f \in {"query", "value"}
         /\ f = "value" => field = "value" \/ cs = "sep"
         /\ field' # f => p < p'
         /\ field = f /\ field' = f => step' = "idle"
<1>. USE DEF Call, Notify, NoCall, None
<1>0. step \in {"skip", "end_request", "eat_forever", "body_logic", "idle"} => Callback(c).on \notin Field
  BY DEF Callback, Reading, BodyCall, Field
<1>1. step = "exec"
  BY <1>0 DEF ParserTypeOK, Step
<1>2. CASE Callback(c) = FieldCall /\ (Reading => Accepts(c) /\ Closes(c))
  <2>1. field = f /\ ~FieldTooLong /\ Callback(c) = Call(field, markAt, p - markAt)
    BY <1>2 DEF FieldCall, Field
  <2>2. p - markAt \in Nat
    BY <2>1 DEF ParserTypeOK, ParserInv, MarkInv, Field
  <2>3. CASE Reading
    <3>1. ~Reject(c) /\ ~Leave /\ ~RefuseField(c) /\ ~HeadersComplete(c) /\ ~ChunkData /\ ~LastChunk(c)
      BY <1>2, <2>1, <2>3 DEF Reject, Leave, RefuseField, HeadersComplete, ChunkData,
                              LastChunk, ParserInv, MarkInv, Field
    <3>2. Advance(c) \/ RefuseDigit(c) \/ RefuseURI(c)
      BY <1>1, <3>1 DEF ParserStep, EatForever, BodyLogic, SkipBody, EndRequest
    <3>3. CASE RefuseDigit(c)
      BY <1>1, <2>1, <2>2, <3>3 DEF RefuseDigit, markVars, ParserTypeOK
    <3>4. CASE Advance(c)
      <4>1. field' # f
        BY <1>2, <2>1, <2>3, <3>4, EdgeFacts
           DEF Advance, Closes, FieldOf, ParserInv, MarkInv, Reading, Field
      <4>. QED BY <1>1, <2>1, <2>2, <3>4, <4>1 DEF Advance, ParserTypeOK
    <3>5. CASE RefuseURI(c)
      BY <1>1, <2>1, <2>2, <2>3, <3>5 DEF RefuseURI, ParserTypeOK, Field, Reading
    <3>. QED BY <3>2, <3>3, <3>4, <3>5
  <2>4. CASE ~Reading
    <3>1. Leave \/ RefuseURI(c)
      BY <1>1, <2>1, <2>4
         DEF ParserStep, EatForever, BodyLogic, SkipBody, EndRequest, RefuseField,
             RefuseDigit, Advance, Reject, HeadersComplete, ChunkData, LastChunk
    <3>. QED BY <1>1, <2>1, <2>2, <2>4, <3>1 DEF Leave, RefuseURI, ParserTypeOK, Reading
  <2>. QED BY <2>3, <2>4
<1>3. CASE Reading /\ f = EmptyField(cs, c.k) /\ Callback(c) = Call(f, p, 0)
  <2>1. \/ cs = "sep" /\ c.k = "crlf" /\ f = "value"
        \/ cs = "query0" /\ c.k \in VersionKind /\ f = "query"
    BY <1>3 DEF EmptyField, Field
  <2>2. field = None
    BY <2>1, NoField DEF ParserInv, Field
  <2>3. Accepts(c) /\ c.k # "digit"
    <3>1. <<cs, c.k, "hdr">> \in Edge
      BY <2>1 DEF Edge
    <3>. QED BY <2>1, <3>1 DEF Accepts, VersionKind
  <2>4. Advance(c) \/ (RefuseURI(c) /\ Reading)
    <3>1. ~Closes(c)
      BY <2>2 DEF Closes
    <3>2. ~Reject(c) /\ ~Leave /\ ~RefuseField(c) /\ ~HeadersComplete(c) /\ ~ChunkData
          /\ ~LastChunk(c) /\ ~RefuseDigit(c)
      BY <1>3, <2>1, <2>2, <2>3, <3>1
         DEF Reject, Leave, RefuseField, HeadersComplete, ChunkData, LastChunk,
             RefuseDigit, FieldTooLong
    <3>. QED BY <1>1, <1>3, <3>2 DEF ParserStep, EatForever, BodyLogic, SkipBody, EndRequest
  <2>. QED BY <1>1, <1>3, <2>1, <2>2, <2>4 DEF Advance, RefuseURI, Reading, ParserTypeOK, Field
<1>. QED
  BY <1>1, <1>2, <1>3 DEF Callback, ReadingCall, Field

(* A call for the body starts at the cursor and is skipped by the step.    *)
LEMMA BodyCallStep ==
  ASSUME ParserTypeOK, ParserInv, NEW c \in Cell, ParserStep(c), Callback(c).on = "body"
  PROVE  /\ Callback(c).at = p /\ Callback(c).length \in Nat
         /\ p + Callback(c).length <= p'
<1>. USE DEF Call, Notify, NoCall, None
<1>1. step \in {"skip", "eat_forever"} /\ ~Reading
  BY DEF Callback, ReadingCall, FieldCall, EmptyField, Reading, ParserTypeOK, Field
<1>2. Skipped \in Nat /\ Remaining \in Nat
  BY DEF Skipped, Remaining, ParserTypeOK, ParserInv, MarkInv
<1>3. CASE step = "skip"
  <2>1. Callback(c) = Call("body", p, Skipped)
    BY <1>1, <1>3 DEF Callback, BodyCall
  <2>2. p' = p + Skipped
    BY <1>3 DEF ParserStep, EatForever, RefuseField, RefuseURI, RefuseDigit, Advance, Reject,
                HeadersComplete, BodyLogic, ChunkData, SkipBody, LastChunk, EndRequest,
                Leave, Reading
  <2>. QED BY <1>2, <2>1, <2>2 DEF ParserTypeOK
<1>4. CASE step = "eat_forever"
  <2>1. Callback(c) = Call("body", p, Remaining)
    BY <1>1, <1>4 DEF Callback, BodyCall
  <2>2. p' = pe
    BY <1>4 DEF ParserStep, EatForever, RefuseField, RefuseURI, RefuseDigit, Advance, Reject,
                HeadersComplete, BodyLogic, ChunkData, SkipBody, LastChunk, EndRequest,
                Leave, Reading
  <2>. QED BY <1>2, <2>1, <2>2 DEF ParserTypeOK, Remaining
<1>. QED BY <1>1, <1>3, <1>4

(* The end of the headers and of a message is announced outside any field  *)
(* and any header.                                                         *)
LEMMA CompleteStep ==
  ASSUME ParserTypeOK, ParserInv, NEW c \in Cell, ParserStep(c),
         Callback(c).on \in {"headers_complete", "message_complete"}
  PROVE  field = None /\ field' = None /\ cs \notin {"sep", "value"} /\ cs' \notin {"sep", "value"}
<1>. USE DEF Call, Notify, NoCall, None
<1>1. \/ Reading /\ cs = "hdr" /\ c.k = "end"
      \/ step \in {"end_request", "eat_forever"}
  BY DEF Callback, ReadingCall, FieldCall, BodyCall, EmptyField, Field, ParserTypeOK
<1>2. cs \in {"hdr", "start"}
  BY <1>1 DEF ParserInv, PhaseInv, EatInv
<1>3. field = None
  BY <1>2, NoField DEF ParserInv, Field
<1>4. \A e \in Edge : ~(e[1] = "hdr" /\ e[2] = "end")
  BY DEF Edge, ValueKind, VersionKind
<1>5. cs' = cs /\ field' = None
  <2>1. ~Advance(c)
    BY <1>1, <1>4 DEF Advance, Reading
  <2>2. ~Reject(c)
    BY <1>1 DEF Reject, Reading, Accepts
  <2>3. ~BodyLogic /\ ~ChunkData /\ ~LastChunk(c) /\ ~SkipBody
    BY <1>1, <1>2 DEF BodyLogic, ChunkData, LastChunk, SkipBody, Reading
  <2>4. ~RefuseURI(c)
    BY <1>1, <1>2 DEF RefuseURI, EndsURI, UriState, Reading
  <2>. QED
    BY <1>3, <2>1, <2>2, <2>3, <2>4
       DEF ParserStep, EatForever, RefuseField, RefuseDigit, HeadersComplete, EndRequest,
           Leave, markVars
<1>. QED BY <1>2, <1>3, <1>5

(* A header value is entered only through a name that has been passed on.  *)
LEMMA ValueStep ==
  ASSUME ParserTypeOK, ParserInv, NEW c \in Cell, ParserStep(c),
         cs' \in {"sep", "value"} \/ field' = "value"
  PROVE  cs \in {"sep", "value"} \/ field = "value" \/ Callback(c).on = "name"
<1>1. CASE Advance(c)
  <2>1. PICK e \in Edge : /\ e[1] = cs /\ e[2] = c.k /\ cs' = e[3]
                          /\ field' = FieldOf(e[3])
    BY <1>1 DEF Advance
  <2>2. CASE cs' = "sep"
    <3>1. cs = "name" /\ c.k = "colon"
      BY <2>1, <2>2, EdgeFacts
    <3>2. field = "name" /\ <<cs, c.k, cs>> \notin Edge /\ Accepts(c)
      BY <2>1, <3>1 DEF ParserInv, MarkInv, Field, Edge, ValueKind, VersionKind, Accepts
    <3>3. Reading /\ Closes(c) /\ ~FieldTooLong
      BY <1>1, <3>2 DEF Advance, Closes, None
    <3>4. Callback(c) = Call("name", markAt, p - markAt)
      BY <3>2, <3>3 DEF Callback, ReadingCall, FieldCall, None
    <3>. QED BY <3>4 DEF Call
  <2>3. CASE cs' # "sep"
    <3>1. cs' = "value"
      BY <2>1, <2>3 DEF FieldOf, None
    <3>. QED BY <2>1, <3>1, EdgeFacts
  <2>. QED BY <2>2, <2>3
<1>2. CASE ~Advance(c)
  BY <1>2 DEF ParserStep, EatForever, RefuseField, RefuseURI, RefuseDigit, Reject, HeadersComplete,
              BodyLogic, ChunkData, SkipBody, LastChunk, EndRequest, Leave, markVars, None
<1>. QED BY <1>1, <1>2

(* An error is never left. *)
LEMMA ErrorStays ==
  ASSUME ParserTypeOK, ParserInv, NEW c \in Cell, ParserStep(c), step # "idle", "ERROR" \notin flags
  PROVE  /\ "ERROR" \in flags' => step' = "idle"
         /\ ~http_parser_has_error' => ~http_parser_has_error
<1>1. "ERROR" \in flags' => step' = "idle"
  <2>1. CASE RefuseField(c) \/ RefuseURI(c) \/ RefuseDigit(c) \/ EatForever \/ Leave
    BY <2>1 DEF RefuseField, RefuseURI, RefuseDigit, EatForever, Leave
  <2>2. CASE Advance(c) \/ BodyLogic \/ SkipBody \/ EndRequest
    <3>1. Advance(c) => flags' = flags \/ flags' = flags \cup {"CHUNKED"}
      BY DEF Advance, Learn
    <3>2. BodyLogic => flags' = flags \/ flags' = flags \cup {"EAT_FOREVER"}
      BY DEF BodyLogic, lengthVars
    <3>3. SkipBody => flags' = flags \ {"EATING"} \/ flags' = flags \cup {"EATING"}
      BY DEF SkipBody
    <3>4. EndRequest => flags' = {}
      BY DEF EndRequest
    <3>. QED BY <2>2, <3>1, <3>2, <3>3, <3>4
  <2>3. CASE Reject(c) \/ HeadersComplete(c) \/ ChunkData \/ LastChunk(c)
    BY <2>3 DEF Reject, HeadersComplete, ChunkData, LastChunk, lengthVars
  <2>. QED BY <2>1, <2>2, <2>3 DEF ParserStep
<1>2. cs = "error" => cs' = "error"
  <2>. SUFFICES ASSUME cs = "error" PROVE cs' = "error"
    OBVIOUS
  <2>1. step = "exec" /\ ~Reading
    BY DEF ParserInv, PhaseInv, EatInv, ParserTypeOK, Step, Reading
  <2>. QED BY <2>1 DEF ParserStep, EatForever, RefuseField, RefuseURI, RefuseDigit, Advance, Reject,
                       HeadersComplete, BodyLogic, ChunkData, SkipBody, LastChunk, EndRequest, Leave
<1>. QED BY <1>1, <1>2 DEF http_parser_has_error
=============================================================================
