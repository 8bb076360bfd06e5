--------------------------- MODULE JillHeadProofs ---------------------------
(***************************************************************************)
(* HeadInv is an invariant of Jill: the noted places of path, query, name  *)
(* and value depend on the cells passed on so far, and not on how recv()   *)
(* cut them.  With it, the application gets the head of a request as its   *)
(* client sent it, when no header has an empty value.                      *)
(***************************************************************************)
EXTENDS JillProofs

-----------------------------------------------------------------------------
(***************************************************************************)
(* The head of a request: how the machine walks through it.                *)
(***************************************************************************)

(* What the kind of a cell says of the state behind it. *)
LEMMA AfterIs ==
  ASSUME NEW k
  PROVE  /\ \A f \in {"path", "query", "name"} : After(k) = f <=> k = f
         /\ After(k) = "value" <=> k \in ValueKind
         /\ After(k) = "target" <=> k = "method"
         /\ After(k) = "uri" <=> k = "star"
         /\ After(k) = "query0" <=> k = "qmark"
         /\ After(k) = "sep" <=> k = "colon"
         /\ k \in VersionKind \cup {"crlf"} => After(k) = "hdr"
         /\ After(k) \notin ChunkState \cup {"start", "error"}
BY DEF After, ValueKind, VersionKind, ChunkState

(* In the head, the state behind a transition depends on the cell alone.   *)
LEMMA EdgeIs ==
  ASSUME NEW s, NEW k, NEW t, <<s, k, t>> \in Edge, s \notin ChunkState
  PROVE  /\ t = After(k) /\ k # "end"
         /\ s = "start" <=> k = "method"
         /\ k = "star" => s = "target"
         /\ k = "path" => s \in {"target", "path"}
         /\ k = "qmark" => s = "path"
         /\ k = "query" => s \in {"query0", "query"}
         /\ k \in VersionKind => s \in {"uri", "path", "query0", "query"}
         /\ k = "name" => s \in {"hdr", "name"}
         /\ k = "colon" => s = "name"
         /\ k \in ValueKind => s \in {"sep", "value"}
         /\ k = "crlf" => s \in {"sep", "value"}
         /\ k \in {"method", "star", "path", "qmark", "query", "name", "colon", "crlf"}
                  \cup VersionKind \cup ValueKind
BY DEF Edge, After, ChunkState, ValueKind, VersionKind

-----------------------------------------------------------------------------
(***************************************************************************)
(* What a step of the parser does to the cells that were passed on.        *)
(***************************************************************************)
ReadUp(r) ==
  \/ HeadRead(r)' = HeadRead(r)
  \/ HeadRead(r) = p /\ p < pe /\ HeadRead(r)' = p + 1

(* The step passes nothing of the head on. *)
Quiet(r, cb) ==
  HeadNoted(r)' = HeadNoted(r) /\ cb.on \in {None, "body", "headers_complete"}

(* It goes over a cell that no callback is for. *)
Silent(r, cb) ==
  LET q == HeadNoted(r)
  IN  /\ cb.on = None /\ HeadRead(r)' = q + 1 /\ HeadNoted(r)' = q + 1
      /\ r[q + 1].k \in {"star"} \cup VersionKind

(* It begins the message. *)
Begun(r, cb) ==
  /\ cb.on = "message_begin" /\ HeadNoted(r) = 0
  /\ HeadRead(r)' = 1 /\ HeadNoted(r)' = 1 /\ r[1].k = "method"

(* It passes a piece of part f on. *)
Passed(r, cb, f) ==
  LET q == HeadNoted(r)
  IN  /\ cb.on = f /\ cb.at = q /\ cb.length = p - q
      /\ HeadRead(r) = p /\ q \in 0 .. p
      /\ \A i \in q + 1 .. p : After(r[i].k) = f
      /\ HeadRead(r)' = HeadNoted(r)' /\ HeadNoted(r)' \in {p, p + 1}
      /\ HeadNoted(r)' = p + 1 => p < pe /\ After(r[p + 1].k) \notin Field
      /\ \/ p \in Nat \ {0} /\ After(r[p].k) = f
         \/ /\ q = p /\ HeadNoted(r)' = p + 1
            /\ \/ f = "query" /\ r[p + 1].k \in VersionKind
               \/ f = "value" /\ p \in Nat \ {0} /\ r[p].k = "colon" /\ r[p + 1].k = "crlf"

Moved(r, cb) ==
  /\ ReadUp(r)
  /\ Quiet(r, cb) \/ Silent(r, cb) \/ Begun(r, cb) \/ \E f \in Field : Passed(r, cb, f)

(* Before the blank line all that was read belongs to the head. *)
LEMMA HeadStops ==
  ASSUME NEW r \in Seq(Cell), NEW n \in Nat, \A i \in 1 .. n : r[i].k # "end"
  PROVE  HeadEnd(r) \notin 1 .. n /\ (n = p => HeadRead(r) = p)
<1>1. SUFFICES ASSUME HeadEnd(r) \in 1 .. n PROVE FALSE
  BY DEF HeadRead
<1>. DEFINE S == Places(r, {"end"})
<1>2. S # {} /\ HeadEnd(r) = Least(S) /\ S \in SUBSET Nat
  BY <1>1 DEF HeadEnd, Places
<1>3. Least(S) \in S
  <2>. HIDE DEF S
  <2>1. \E i \in S : \A j \in S : i <= j
    BY <1>2, LeastNumber
  <2>. QED BY <2>1 DEF Least
<1>. QED BY <1>1, <1>2, <1>3 DEF Places

(* A transition in the head. *)
LEMMA AdvanceInHead ==
  ASSUME ParserTypeOK, ParserInv, NEW r \in Seq(Cell), pe <= Len(r), NEW c \in Cell,
         Advance(c), c = r[p + 1], AmidHead(r), Walk(r)
  PROVE  AmidHead(r)' /\ Walk(r)' /\ Moved(r, Callback(c))
<1>0. /\ p \in Nat /\ pe \in Nat /\ p < pe /\ Len(r) \in Nat /\ p' = p + 1 /\ step = "exec"
      /\ step' = "exec" /\ cs # "error" /\ markAt \in Nat /\ Reading
      /\ field \in Field \cup {None} /\ (field # None => markAt <= p /\ cs = field)
      /\ (cs \in Field => field = cs) /\ None \notin Field
  BY DEF Advance, Reading, ParserTypeOK, ParserInv, MarkInv, None, Field
<1>1. PICK e \in Edge : /\ e[1] = cs /\ e[2] = c.k /\ cs' = e[3] /\ field' = FieldOf(e[3])
                        /\ IF FieldOf(e[3]) = field THEN UNCHANGED <<markAt, markSize>>
                           ELSE markAt' = IF FieldOf(e[3]) = None THEN 0 ELSE p
  BY DEF Advance
<1>2. e = <<cs, c.k, cs'>>
  BY <1>1 DEF Edge
<1>3. cs \notin ChunkState /\ cs = StateAfter(r, p)
  <2>1. StateAfter(r, p) \notin ChunkState
    BY AfterIs DEF StateAfter, ChunkState
  <2>. QED BY <2>1 DEF AmidHead
<1>k. PICK k : k = c.k
  OBVIOUS
<1>4. /\ cs' = After(k) /\ k # "end" /\ <<cs, k, cs'>> \in Edge
  BY <1>1, <1>2, <1>3, <1>k, EdgeIs
<1>5. /\ k = r[p + 1].k /\ StateAfter(r, p + 1) = cs'
  BY <1>0, <1>4, <1>k DEF StateAfter
<1>6. \A i \in 1 .. p + 1 : r[i].k # "end"
  BY <1>0, <1>4, <1>5 DEF AmidHead
<1>7. HeadEnd(r) \notin 1 .. p + 1
  BY <1>0, <1>6, HeadStops
<1>8. HeadRead(r) = p /\ HeadRead(r)' = p + 1
  <2>1. HeadEnd(r) \notin 1 .. p
    BY <1>0, <1>7
  <2>2. HeadRead(r)' = IF HeadEnd(r) \in 1 .. p' THEN HeadEnd(r) - 1 ELSE p'
    BY DEF HeadRead
  <2>. QED BY <1>0, <1>7, <2>1, <2>2 DEF HeadRead
<1>9. Walk(r)'
  <2>. SUFFICES ASSUME NEW i \in 1 .. p + 1
                PROVE  /\ <<StateAfter(r, i - 1), r[i].k, StateAfter(r, i)>> \in Edge
                       /\ r[i].k \in {"path", "qmark"} =>
                            \A j \in 1 .. i - 1 : r[j].k \in {"method", "path"}
                       /\ r[i].k = "query" =>
                            \A j \in 1 .. i - 1 : r[j].k \in {"method", "path", "qmark", "query"}
    BY <1>8 DEF Walk, WalkTo
  <2>1. CASE i \in 1 .. p
    BY <1>8, <2>1 DEF Walk, WalkTo
  <2>2. CASE i = p + 1
    <3>1. <<StateAfter(r, i - 1), r[i].k, StateAfter(r, i)>> \in Edge
      BY <1>0, <1>3, <1>4, <1>5, <2>2
    <3>2. CASE p = 0
      <4>1. cs = "start" /\ k = "method"
        BY <1>3, <1>4, <3>2, EdgeIs DEF StateAfter
      <4>. QED BY <1>5, <2>2, <3>1, <3>2, <4>1
    <3>3. CASE p # 0
      <4>1. p \in 1 .. p /\ p \in 1 .. HeadRead(r) /\ cs = After(r[p].k) /\ p - 1 \in Nat
        BY <1>0, <1>3, <1>8, <3>3 DEF StateAfter
      <4>2. <<StateAfter(r, p - 1), r[p].k, StateAfter(r, p)>> \in Edge
        BY <4>1 DEF Walk, WalkTo
      <4>3. r[p].k = "method" => p = 1
        <5>1. StateAfter(r, p - 1) \notin ChunkState
          BY AfterIs DEF StateAfter, ChunkState
        <5>2. r[p].k = "method" => StateAfter(r, p - 1) = "start"
          BY <4>2, <5>1, EdgeIs
        <5>3. p - 1 # 0 => StateAfter(r, p - 1) # "start"
          BY AfterIs DEF StateAfter
        <5>. QED BY <4>1, <5>2, <5>3
      <4>4. ASSUME k \in {"path", "qmark"} PROVE \A j \in 1 .. p : r[j].k \in {"method", "path"}
        <5>1. r[p].k \in {"method", "path"}
          BY <1>3, <1>4, <4>1, <4>4, EdgeIs, AfterIs
        <5>2. \A j \in 1 .. p - 1 : r[j].k \in {"method", "path"}
          <6>1. r[p].k = "path" => \A j \in 1 .. p - 1 : r[j].k \in {"method", "path"}
            BY <4>1 DEF Walk, WalkTo
          <6>2. r[p].k = "method" => 1 .. p - 1 = {}
            BY <4>3
          <6>. QED BY <5>1, <6>1, <6>2
        <5>. QED BY <1>0, <5>1, <5>2
      <4>5. ASSUME k = "query"
            PROVE  \A j \in 1 .. p : r[j].k \in {"method", "path", "qmark", "query"}
        <5>1. r[p].k \in {"qmark", "query"}
          BY <1>3, <1>4, <4>1, <4>5, EdgeIs, AfterIs
        <5>2. \A j \in 1 .. p - 1 : r[j].k \in {"method", "path", "qmark", "query"}
          BY <4>1, <5>1 DEF Walk, WalkTo
        <5>. QED BY <1>0, <5>1, <5>2
      <4>6. k = r[i].k /\ i - 1 = p
        BY <1>0, <1>5, <2>2
      <4>. QED BY <3>1, <4>4, <4>5, <4>6
    <3>. QED BY <3>2, <3>3
  <2>. QED BY <1>0, <2>1, <2>2
<1>10. /\ cs' \in Field => field' = cs'
       /\ cs' \notin Field => field' = None
       /\ field' = field /\ field # None => cs' = cs /\ markAt' = markAt
       /\ field' # field /\ field' # None => markAt' = p
  BY <1>0, <1>1 DEF FieldOf
<1>11. AmidHead(r)'
  <2>1. field' # None => \A i \in markAt' + 1 .. p + 1 : After(r[i].k) = field'
    <3>. SUFFICES ASSUME field' # None, NEW i \in markAt' + 1 .. p + 1
                  PROVE  After(r[i].k) = field'
      OBVIOUS
    <3>1. After(r[p + 1].k) = field'
      BY <1>4, <1>5, <1>10
    <3>2. CASE field' = field
      <4>1. \A j \in markAt + 1 .. p : After(r[j].k) = field
        BY <1>0, <3>2 DEF AmidHead
      <4>2. i = p + 1 \/ i \in markAt + 1 .. p
        BY <1>0, <1>10, <3>2
      <4>. QED BY <3>1, <3>2, <4>1, <4>2
    <3>3. CASE field' # field
      <4>1. i = p + 1
        BY <1>0, <1>10, <3>3
      <4>. QED BY <3>1, <4>1
    <3>. QED BY <3>2, <3>3
  <2>2. "EATING" \notin flags' /\ "EAT_FOREVER" \notin flags'
    BY DEF AmidHead, Advance, Learn
  <2>. QED BY <1>0, <1>5, <1>6, <2>1, <2>2 DEF AmidHead
<1>12. /\ HeadNoted(r) = IF field # None THEN markAt ELSE p
       /\ HeadNoted(r)' = IF field' # None THEN markAt' ELSE p + 1
  BY <1>0, <1>8 DEF HeadNoted
<1>13. ReadUp(r)
  BY <1>0, <1>8 DEF ReadUp
<1>14. Accepts(c)
  BY <1>1 DEF Accepts
<1>15. CASE Closes(c)
  <2>1. field # None /\ cs = field /\ <<cs, k, cs>> \notin Edge /\ cs' # cs
    BY <1>0, <1>4, <1>15, <1>k DEF Closes
  <2>2. cs' \notin Field
    BY <1>0, <1>2, <1>1, <2>1 DEF Edge, Field, ValueKind, VersionKind, ChunkState
  <2>3. Callback(c) = Call(field, markAt, p - markAt)
    BY <1>0, <1>14, <1>15, <2>1 DEF Callback, ReadingCall, FieldCall, Advance
  <2>4. \A i \in markAt + 1 .. p : After(r[i].k) = field
    BY <1>0, <2>1 DEF AmidHead
  <2>5. p # 0 /\ After(r[p].k) = field
    <3>1. StateAfter(r, 0) \notin Field
      BY DEF StateAfter, Field
    <3>. QED BY <1>0, <1>3, <2>1, <3>1 DEF StateAfter
  <2>6. Passed(r, Callback(c), field)
    BY <1>0, <1>4, <1>5, <1>8, <1>10, <1>12, <2>1, <2>2, <2>3, <2>4, <2>5 DEF Passed, Call
  <2>. QED BY <1>0, <1>9, <1>11, <1>13, <2>1, <2>6 DEF Moved
<1>16. CASE ~Closes(c) /\ EmptyField(cs, k) # None
  <2>1. /\ Callback(c) = Call(EmptyField(cs, k), p, 0)
    BY <1>0, <1>16, <1>k DEF Callback, ReadingCall
  <2>2. \/ cs = "sep" /\ k = "crlf" /\ EmptyField(cs, k) = "value"
        \/ cs = "query0" /\ k \in VersionKind /\ EmptyField(cs, k) = "query"
    BY <1>16 DEF EmptyField
  <2>3. field = None /\ After(k) = "hdr" /\ cs' \notin Field /\ field' = None
    BY <1>0, <1>4, <1>10, <2>2, AfterIs DEF Field
  <2>4. p # 0 /\ cs = After(r[p].k)
    BY <1>3, <2>2 DEF StateAfter
  <2>5. cs = "sep" => r[p].k = "colon"
    BY <2>4, AfterIs
  <2>6. Passed(r, Callback(c), EmptyField(cs, k))
    BY <1>0, <1>4, <1>5, <1>8, <1>12, <2>1, <2>2, <2>3, <2>4, <2>5 DEF Passed, Call
  <2>7. EmptyField(cs, k) \in Field
    BY <2>2 DEF Field
  <2>. QED BY <1>9, <1>11, <1>13, <2>6, <2>7 DEF Moved
<1>17. CASE ~Closes(c) /\ EmptyField(cs, k) = None
  <2>1. Callback(c) = IF cs = "start" /\ k = "method" THEN Notify("message_begin") ELSE NoCall
    BY <1>0, <1>4, <1>14, <1>17, <1>k DEF Callback, ReadingCall
  <2>2. CASE field # None
    <3>1. <<cs, k, cs>> \in Edge /\ cs = field /\ cs # "start"
      BY <1>0, <1>17, <2>2, <1>k DEF Closes, Field
    <3>2. cs' = cs
      BY <1>3, <1>4, <3>1, EdgeIs
    <3>3. field' = field /\ markAt' = markAt
      BY <1>0, <1>10, <2>2, <3>1, <3>2
    <3>4. Quiet(r, Callback(c))
      BY <1>12, <2>1, <2>2, <3>1, <3>3 DEF Quiet, NoCall, Call
    <3>. QED BY <1>9, <1>11, <1>13, <3>4 DEF Moved
  <2>3. CASE field = None /\ field' # None
    <3>1. HeadNoted(r)' = HeadNoted(r) /\ cs' \in Field
      BY <1>10, <1>12, <2>3
    <3>2. ~(cs = "start" /\ k = "method")
      BY <1>4, <3>1, AfterIs DEF Field
    <3>3. Quiet(r, Callback(c))
      BY <2>1, <3>1, <3>2 DEF Quiet, NoCall, Call
    <3>. QED BY <1>9, <1>11, <1>13, <3>3 DEF Moved
  <2>4. CASE field = None /\ field' = None
    <3>1. HeadNoted(r) = p /\ HeadNoted(r)' = p + 1 /\ cs \notin Field /\ cs' \notin Field
      BY <1>0, <1>10, <1>12, <2>4
    <3>2. CASE cs = "start" /\ k = "method"
      <4>1. p = 0
        <5>1. p # 0 => StateAfter(r, p) # "start"
          BY AfterIs DEF StateAfter
        <5>. QED BY <1>3, <3>2, <5>1
      <4>2. Begun(r, Callback(c))
        <5>1. /\ HeadNoted(r) = 0 /\ HeadNoted(r)' = 1 /\ HeadRead(r)' = 1 /\ r[1].k = "method"
          <6>1. p + 1 = 1
            BY <4>1
          <6>. QED BY <1>5, <1>8, <3>1, <3>2, <4>1, <6>1
        <5>. QED BY <2>1, <3>2, <5>1 DEF Begun, Notify, Call
      <4>. QED BY <1>9, <1>11, <1>13, <4>2 DEF Moved
    <3>3. CASE ~(cs = "start" /\ k = "method")
      <4>1. k \in {"star"} \cup VersionKind
        BY <1>1, <1>2, <1>3, <1>4, <1>17, <3>1, <3>3
           DEF Edge, Field, EmptyField, ValueKind, VersionKind, ChunkState, None
      <4>2. Silent(r, Callback(c))
        BY <1>5, <1>8, <2>1, <3>1, <3>3, <4>1 DEF Silent, NoCall, Call
      <4>. QED BY <1>9, <1>11, <1>13, <4>2 DEF Moved
    <3>. QED BY <3>2, <3>3
  <2>. QED BY <2>2, <2>3, <2>4
<1>. QED BY <1>15, <1>16, <1>17

(* A step in the head, but for the one that calls the application.         *)
LEMMA AmidStep ==
  ASSUME ParserTypeOK, ParserInv, NEW r \in Seq(Cell), pe <= Len(r), NEW c \in Cell,
         ParserStep(c), step # "idle", p < pe => c = r[p + 1], AmidHead(r), Walk(r),
         ~http_parser_has_error', "ERROR" \notin flags,
         Callback(c).on = "headers_complete" => content_length >= 0
  PROVE  (AmidHead(r)' \/ BehindHead(r)') /\ Walk(r)' /\ Moved(r, Callback(c))
<1>0. /\ p \in Nat /\ pe \in Nat /\ p <= pe /\ Len(r) \in Nat /\ markAt \in Nat
      /\ field \in Field \cup {None} /\ (field # None => markAt <= p /\ cs \in {field, "error"})
      /\ None \notin Field /\ cs = StateAfter(r, p) /\ cs # "error" /\ cs \notin ChunkState
  <2>1. StateAfter(r, p) \notin ChunkState \cup {"error"}
    BY AfterIs DEF StateAfter, ChunkState
  <2>. QED BY <2>1 DEF ParserTypeOK, ParserInv, MarkInv, None, Field, AmidHead
<1>1. HeadRead(r) = p
  BY <1>0, HeadStops DEF AmidHead
<1>2. CASE Advance(c)
  BY <1>2, AdvanceInHead DEF Advance, Reading
<1>3. CASE RefuseField(c) \/ RefuseURI(c) \/ RefuseDigit(c) \/ Reject(c)
  BY <1>3 DEF RefuseField, RefuseURI, RefuseDigit, Reject, http_parser_has_error
<1>4. CASE HeadersComplete(c)
  <2>1. /\ Reading /\ cs = "hdr" /\ c.k = "end" /\ step' = "body_logic" /\ step = "exec"
        /\ UNCHANGED <<cs, p, pe, field, markAt, flags, content_length>> /\ p < pe
    BY <1>4 DEF HeadersComplete, Reading, markVars, lengthVars
  <2>2. field = None
    BY <2>1, NoField DEF ParserInv, Field
  <2>3. Callback(c).on = "headers_complete"
    <3>1. ~(\E e \in Edge : e[1] = "hdr" /\ e[2] = "end")
      BY DEF Edge, ValueKind, VersionKind
    <3>. QED BY <2>1, <2>2, <3>1
         DEF Callback, ReadingCall, Closes, EmptyField, Notify, Call
  <2>4. AmidHead(r)'
    BY <2>1, <2>2, <2>3, <1>0 DEF AmidHead, StateAfter
  <2>5. HeadRead(r)' = HeadRead(r) /\ HeadNoted(r)' = HeadNoted(r)
    BY <2>1, <2>2 DEF HeadRead, HeadNoted
  <2>6. Walk(r)'
    BY <2>5 DEF Walk, WalkTo
  <2>. QED BY <2>3, <2>4, <2>5, <2>6 DEF Moved, ReadUp, Quiet
<1>5. CASE BodyLogic
  <2>1. /\ step = "body_logic" /\ p < pe /\ r[p + 1].k = "end" /\ content_length >= 0 /\ p' = p + 1
        /\ UNCHANGED <<pe, field, markAt>> /\ cs = "hdr"
    BY <1>5 DEF BodyLogic, ParserInv, PhaseInv, AmidHead, markVars
  <2>2. field = None
    BY <2>1, NoField DEF ParserInv, Field
  <2>3. HeadEnd(r) = p + 1
    <3>. DEFINE h == p + 1
    <3>1. h \in 1 .. Len(r) /\ r[h].k = "end" /\ \A i \in 1 .. h - 1 : r[i].k # "end"
      BY <1>0, <2>1 DEF AmidHead
    <3>. HIDE DEF h
    <3>2. HeadEnd(r) = h
      BY <3>1, FirstEnd
    <3>. QED BY <3>2 DEF h
  <2>4. HeadRead(r)' = p /\ HeadNoted(r) = p /\ HeadNoted(r)' = p
    BY <1>0, <1>1, <2>1, <2>2, <2>3 DEF HeadRead, HeadNoted
  <2>5. Walk(r)'
    BY <1>1, <2>4 DEF Walk, WalkTo
  <2>6. BehindHead(r)'
    <3>1. HeadEnd(r) \in 1 .. p' /\ HeadEnd(r) - 1 = p
      BY <1>0, <2>1, <2>3
    <3>2. StateAfter(r, HeadEnd(r) - 1) = "hdr"
      BY <2>1, <3>1 DEF AmidHead
    <3>3. content_length \in Int
      BY DEF ParserTypeOK
    <3>4. CASE "CHUNKED" \in flags
      <4>1. cs' = "chunk" /\ step' = "exec" /\ flags' = flags /\ field' = None
        BY <1>5, <2>1, <2>2, <3>4 DEF BodyLogic, lengthVars
      <4>. QED BY <3>1, <3>2, <4>1 DEF BehindHead, AmidHead, ChunkState
    <3>5. CASE "CHUNKED" \notin flags
      <4>1. cs' = "start" /\ step' = "skip" /\ flags' = flags /\ field' = None
        BY <1>5, <2>1, <2>2, <3>3, <3>5 DEF BodyLogic
      <4>. QED BY <3>1, <3>2, <3>5, <4>1 DEF BehindHead, AmidHead
    <3>. QED BY <3>4, <3>5
  <2>7. Callback(c).on = None
    BY <2>1 DEF Callback, Reading, NoCall, Call
  <2>. QED BY <1>1, <2>4, <2>5, <2>6, <2>7 DEF Moved, ReadUp, Quiet
<1>6. CASE Leave
  <2>1. /\ step = "exec" /\ ~Reading /\ ~FieldTooLong /\ step' = "idle"
        /\ UNCHANGED <<cs, p, pe, field, markAt, flags, content_length>>
    BY <1>6 DEF Leave, lengthVars
  <2>2. AmidHead(r)'
    BY <2>1, <1>0 DEF AmidHead, StateAfter
  <2>3. HeadRead(r)' = p /\ HeadNoted(r)' = p
    BY <1>1, <2>1 DEF HeadRead, HeadNoted
  <2>4. Walk(r)'
    BY <1>1, <2>3 DEF Walk, WalkTo
  <2>5. CASE field = None
    <3>1. HeadNoted(r) = p /\ Callback(c).on = None
      BY <1>1, <2>1, <2>5 DEF HeadNoted, Callback, FieldCall, NoCall, Call
    <3>. QED BY <1>1, <2>2, <2>3, <2>4, <3>1 DEF Moved, ReadUp, Quiet
  <2>6. CASE field # None
    <3>1. Callback(c) = Call(field, markAt, p - markAt) /\ HeadNoted(r) = markAt
      BY <2>1, <2>6 DEF Callback, FieldCall, HeadNoted
    <3>2. \A i \in markAt + 1 .. p : After(r[i].k) = field
      BY <2>1, <2>6 DEF AmidHead
    <3>3. p # 0 /\ After(r[p].k) = field
      <4>1. StateAfter(r, 0) \notin Field
        BY DEF StateAfter, Field
      <4>. QED BY <1>0, <2>6, <4>1 DEF StateAfter
    <3>4. Passed(r, Callback(c), field)
      BY <1>0, <1>1, <2>3, <2>6, <3>1, <3>2, <3>3 DEF Passed, Call
    <3>. QED BY <1>0, <1>1, <2>2, <2>3, <2>4, <2>6, <3>4 DEF Moved, ReadUp
  <2>. QED BY <2>5, <2>6
<1>7. CASE EatForever \/ ChunkData \/ SkipBody \/ LastChunk(c) \/ EndRequest
  BY <1>0, <1>7
     DEF EatForever, ChunkData, SkipBody, LastChunk, EndRequest, Reading, AmidHead, ChunkState
<1>. QED BY <1>2, <1>3, <1>4, <1>5, <1>6, <1>7 DEF ParserStep

(* A step behind the head, but for the end of the request. *)
LEMMA BehindStep ==
  ASSUME ParserTypeOK, ParserInv, NEW r \in Seq(Cell), pe <= Len(r), NEW c \in Cell,
         ParserStep(c), step # "idle", BehindHead(r), Walk(r),
         ~http_parser_has_error', "ERROR" \notin flags, Callback(c).on # "message_complete"
  PROVE  BehindHead(r)' /\ Walk(r)' /\ Moved(r, Callback(c))
<1>0. /\ p \in Nat /\ p' \in Nat /\ p <= p' /\ field' = None /\ field = None
      /\ cs \in {"start"} \cup ChunkState /\ HeadEnd(r) \in 1 .. p
  <2>1. p \in Nat /\ p' \in Nat /\ p <= p'
    BY CursorStep, ParserStepType DEF ParserTypeOK
  <2>2. field = None
    BY DEF BehindHead
  <2>3. cs \in {"start"} \cup ChunkState
    BY DEF BehindHead
  <2>4. field' = None
    <3>1. CASE Advance(c)
      <4>1. PICK e \in Edge : e[1] = cs /\ field' = FieldOf(e[3])
        BY <3>1 DEF Advance
      <4>2. e[3] \notin Field
        BY <2>3, <4>1 DEF Edge, ChunkState, Field, ValueKind, VersionKind
      <4>. QED BY <4>1, <4>2 DEF FieldOf
    <3>. QED
      BY <2>2, <3>1 DEF ParserStep, EatForever, RefuseField, RefuseURI, RefuseDigit, Reject,
         HeadersComplete, BodyLogic, ChunkData, SkipBody, LastChunk, EndRequest, Leave, markVars
  <2>. QED BY <2>1, <2>2, <2>3, <2>4 DEF BehindHead
<1>1. HeadRead(r)' = HeadRead(r) /\ HeadNoted(r)' = HeadNoted(r)
  <2>1. HeadRead(r) = HeadEnd(r) - 1 /\ HeadRead(r)' = HeadEnd(r) - 1
    BY <1>0 DEF HeadRead
  <2>. QED BY <1>0, <2>1 DEF HeadNoted
<1>2. Walk(r)'
  BY <1>1 DEF Walk, WalkTo
<1>3. Callback(c).on \in {None, "body"}
  <2>1. cs # "hdr" /\ ~(step = "exec" /\ cs = "start" /\ Reading)
    BY <1>0 DEF ChunkState, BehindHead, ParserInv, EatInv, Reading
  <2>2. EmptyField(cs, c.k) = None
    BY <1>0 DEF EmptyField, ChunkState
  <2>. QED
    BY <1>0, <2>1, <2>2
       DEF BehindHead, Callback, ReadingCall, FieldCall, BodyCall, Notify, NoCall, Call, Closes,
           Reading
<1>4. HeadEnd(r) \in 1 .. p' /\ StateAfter(r, HeadEnd(r) - 1) = "hdr"
  BY <1>0 DEF BehindHead
<1>5. BehindHead(r)'
  <2>. SUFFICES /\ "EAT_FOREVER" \notin flags' /\ cs' \in {"start"} \cup ChunkState
                /\ step' \in {"idle", "exec", "skip", "end_request"}
                /\ cs' = "start" /\ step' # "end_request" =>
                     "CHUNKED" \notin flags' /\ (step' \in {"idle", "exec"} => "EATING" \in flags')
    BY <1>0, <1>4 DEF BehindHead, StateAfter
  <2>1. ~(step = "exec" /\ cs = "start" /\ Reading)
    BY <1>0 DEF BehindHead, ParserInv, EatInv, Reading
  <2>2. CASE Advance(c)
    <3>1. PICK e \in Edge : e[1] = cs /\ cs' = e[3]
      BY <2>2 DEF Advance
    <3>2. cs \in ChunkState /\ step = "exec" /\ step' = step
      BY <1>0, <2>1, <2>2 DEF Advance, Reading
    <3>3. cs' \in ChunkState /\ cs' # "start"
      BY <3>1, <3>2 DEF Edge, ChunkState, ValueKind, VersionKind
    <3>4. "EAT_FOREVER" \notin flags'
      BY <2>2 DEF Advance, Learn, BehindHead
    <3>. QED BY <3>2, <3>3, <3>4
  <2>3. CASE RefuseField(c) \/ RefuseURI(c) \/ RefuseDigit(c) \/ Reject(c)
    BY <2>3 DEF RefuseField, RefuseURI, RefuseDigit, Reject, http_parser_has_error
  <2>4. CASE HeadersComplete(c) \/ BodyLogic \/ EatForever
    BY <1>0, <2>4 DEF HeadersComplete, BodyLogic, EatForever, BehindHead, ChunkState
  <2>5. CASE ChunkData
    BY <2>5 DEF ChunkData, BehindHead, ChunkState, lengthVars
  <2>6. CASE SkipBody
    <3>1. /\ step = "skip" /\ cs' = cs /\ "EAT_FOREVER" \notin flags'
          /\ ("CHUNKED" \in flags' <=> "CHUNKED" \in flags)
          /\ IF chunk_size = Skipped
               THEN step' = IF "CHUNKED" \in flags THEN "exec" ELSE "end_request"
               ELSE "EATING" \in flags' /\ step' = "exec"
      BY <2>6 DEF SkipBody, BehindHead
    <3>. QED BY <3>1 DEF BehindHead, ChunkState
  <2>7. CASE LastChunk(c)
    BY <2>7 DEF LastChunk, BehindHead, lengthVars
  <2>8. CASE EndRequest
    BY <2>8 DEF EndRequest, Callback, Reading, Notify, Call
  <2>9. CASE Leave
    BY <2>9 DEF Leave, BehindHead, lengthVars
  <2>. QED BY <2>2, <2>3, <2>4, <2>5, <2>6, <2>7, <2>8, <2>9 DEF ParserStep
<1>6. Moved(r, Callback(c))
  BY <1>1, <1>3 DEF Moved, ReadUp, Quiet
<1>. QED BY <1>2, <1>5, <1>6

-----------------------------------------------------------------------------
(***************************************************************************)
(* The headers of a stream, counted by their colons.                       *)
(***************************************************************************)
LEMMA ColonCount ==
  ASSUME NEW r, NEW q \in Nat
  PROVE  /\ IsFiniteSet(Colons(r, q)) /\ Cardinality(Colons(r, q)) \in Nat
         /\ Colons(r, 0) = {} /\ Cardinality(Colons(r, 0)) = 0
         /\ r[q + 1].k = "colon" =>
              Cardinality(Colons(r, q + 1)) = Cardinality(Colons(r, q)) + 1
         /\ \A x \in Nat : q <= x /\ (\A i \in q + 1 .. x : r[i].k # "colon") =>
              Colons(r, x) = Colons(r, q)
<1>1. IsFiniteSet(1 .. q)
  BY FS_Interval
<1>2. Colons(r, q) \in SUBSET (1 .. q)
  BY DEF Colons
<1>3. IsFiniteSet(Colons(r, q)) /\ Cardinality(Colons(r, q)) \in Nat
  BY <1>1, <1>2, FS_Subset, FS_CardinalityType
<1>4. Colons(r, 0) = {}
  BY DEF Colons
<1>5. ASSUME r[q + 1].k = "colon"
      PROVE  Cardinality(Colons(r, q + 1)) = Cardinality(Colons(r, q)) + 1
  <2>1. Colons(r, q + 1) = Colons(r, q) \cup {q + 1} /\ q + 1 \notin Colons(r, q)
    BY <1>5 DEF Colons
  <2>. QED BY <1>3, <2>1, FS_AddElement
<1>6. ASSUME NEW x \in Nat, q <= x, \A i \in q + 1 .. x : r[i].k # "colon"
      PROVE  Colons(r, x) = Colons(r, q)
  BY <1>6 DEF Colons
<1>. QED BY <1>3, <1>4, <1>5, <1>6, FS_EmptySet

(* A later colon has a higher number. *)
LEMMA ColonOrder ==
  ASSUME NEW r, NEW q \in Nat, NEW l \in Colons(r, q)
  PROVE  /\ l \in 1 .. q /\ Cardinality(Colons(r, l)) \in Nat \ {0}
         /\ Cardinality(Colons(r, l)) <= Cardinality(Colons(r, q))
         /\ \A m \in Colons(r, q) : l < m => Cardinality(Colons(r, l)) < Cardinality(Colons(r, m))
<1>1. l \in 1 .. q /\ r[l].k = "colon"
  BY DEF Colons
<1>2. ASSUME NEW x \in Nat, l < x, r[x].k = "colon"
      PROVE  Cardinality(Colons(r, l)) < Cardinality(Colons(r, x))
  <2>1. x - 1 \in Nat /\ x - 1 + 1 = x /\ l <= x - 1
    BY <1>1, <1>2
  <2>2. Cardinality(Colons(r, x)) = Cardinality(Colons(r, x - 1)) + 1
    BY <1>2, <2>1, ColonCount
  <2>3. Colons(r, l) \in SUBSET Colons(r, x - 1)
    BY <1>1, <2>1 DEF Colons
  <2>4. Cardinality(Colons(r, l)) <= Cardinality(Colons(r, x - 1))
    BY <2>1, <2>3, ColonCount, FS_Subset
  <2>. QED BY <1>1, <2>1, <2>2, <2>4, ColonCount
<1>3. Cardinality(Colons(r, l)) <= Cardinality(Colons(r, q))
  <2>1. Colons(r, l) \in SUBSET Colons(r, q)
    BY <1>1 DEF Colons
  <2>. QED BY <2>1, ColonCount, FS_Subset
<1>4. Cardinality(Colons(r, l)) \in Nat \ {0}
  <2>1. Cardinality(Colons(r, l)) \in Nat /\ IsFiniteSet(Colons(r, l))
    BY <1>1, ColonCount
  <2>2. l \in Colons(r, l)
    BY <1>1 DEF Colons
  <2>. QED BY <2>1, <2>2, FS_EmptySet
<1>5. \A m \in Colons(r, q) : m \in Nat /\ r[m].k = "colon"
  BY DEF Colons
<1>. QED BY <1>1, <1>2, <1>3, <1>4, <1>5

-----------------------------------------------------------------------------
(***************************************************************************)
(* Texts that are cut out of the buffer.                                   *)
(***************************************************************************)

(* A NUL on a cell that is part of no text spares them all. *)
LEMMA Sparing ==
  ASSUME NEW r, NEW n \in Nat, n <= bufferSize, bufferSize \in Nat, NEW m,
         Intact(m, r, n), NEW z \in Nat, After(r[z + 1].k) \notin Field,
         NEW w, \A i \in 0 .. bufferSize - 1 : i # z => w[i] = m[i]
  PROVE  Intact(w, r, n)
<1>1. ASSUME NEW i \in 1 .. n, After(r[i].k) \in Field PROVE w[i - 1] = <<cur, i>>
  <2>1. i - 1 # z /\ i - 1 \in 0 .. bufferSize - 1
    BY <1>1
  <2>. QED BY <1>1, <2>1 DEF Intact
<1>. QED BY <1>1 DEF Intact

(* A C string of cells that were spared is what was sent. *)
LEMMA CutOut ==
  ASSUME NEW r, NEW n \in Nat, bufferSize \in Nat, cur # NoClient, NEW m \in Buffer,
         Intact(m, r, n), NEW a \in Nat, NEW k \in Nat, a + k < bufferSize, m[a + k] = Nul,
         \A i \in a + 1 .. a + k : i \in 1 .. n /\ After(r[i].k) \in Field
  PROVE  CString(m, a) = Row(a, k)
<1>1. \A j \in a .. a + k - 1 : m[j] = <<cur, j + 1>> /\ m[j] # Nul
  <2>1. ASSUME NEW j \in a .. a + k - 1 PROVE m[j] = <<cur, j + 1>>
    <3>1. j + 1 \in a + 1 .. a + k /\ j + 1 - 1 = j
      OBVIOUS
    <3>. QED BY <3>1 DEF Intact
  <2>. QED BY <2>1 DEF Nul
<1>. DEFINE First(e) == /\ e >= a /\ m[e] = Nul
                        /\ \A i \in a .. e - 1 : m[i] # Nul
            end == CHOOSE e \in DOMAIN m : First(e)
<1>2. a + k \in DOMAIN m /\ First(a + k)
  BY <1>1 DEF Buffer
<1>3. end \in DOMAIN m /\ First(end)
  <2>. HIDE DEF First
  <2>. QED BY <1>2
<1>. HIDE DEF end
<1>4. end = a + k
  <2>1. end \in Nat
    BY <1>3 DEF Buffer
  <2>2. ~(end < a + k)
    BY <1>1, <1>3, <2>1
  <2>3. ~(a + k < end)
    BY <1>2, <1>3, <2>1
  <2>. QED BY <2>1, <2>2, <2>3
<1>5. CString(m, a) = [i \in 1 .. end - a |-> m[a + i - 1]]
  BY DEF CString, end
<1>6. ASSUME NEW i \in 1 .. k PROVE m[a + i - 1] = <<cur, a + i>>
  <2>1. a + i - 1 \in a .. a + k - 1 /\ a + i - 1 + 1 = a + i
    OBVIOUS
  <2>. QED BY <1>1, <2>1
<1>7. end - a = k
  BY <1>4
<1>. QED BY <1>5, <1>6, <1>7 DEF Row

(* The header that waits is put into env as it was sent. *)
LEMMA HeaderPut ==
  ASSUME TypeOK, NEW r, NEW n \in Nat, n <= bufferSize, NEW q \in 1 .. n, r[q].k = "crlf",
         Intact(mem, r, n), HeadersKept(headers, r, q), Waiting(r, q), cur # NoClient
  PROVE  /\ HeaderPending /\ Len(HeadersNow) = Cardinality(Colons(r, q))
         /\ HeadersKept(HeadersNow, r, q)
         /\ HeaderMem \in Buffer /\ Intact(HeaderMem, r, n)
<1>0. bufferSize \in Nat /\ mem \in Buffer /\ headers \in Seq(Text \X Text) /\ len["value"] \in Nat
      /\ len["name"] \in Nat
  BY DEF TypeOK, Buffer, Part, Field
<1>1. PICK l \in Nat, b \in Nat :
        /\ l <= q /\ b \in 1 .. l - 2 /\ b = off["name"] /\ r[l].k = "colon"
        /\ Len(headers) + 1 = Cardinality(Colons(r, q))
        /\ NameAt(r, b, l) /\ len["name"] = l - 1 - b
        /\ ValueAt(r, l, q) /\ l < q /\ q # l + 1
        /\ off["value"] = l /\ len["value"] = q - 1 - l
  <2>1. PICK l \in 1 .. q, e \in {q, q + 1} :
          /\ r[l].k = "colon" /\ Len(headers) + 1 = Cardinality(Colons(r, q))
          /\ NameAt(r, off["name"], l) /\ len["name"] = l - 1 - off["name"]
          /\ ValueAt(r, l, e)
          /\ IF e = l + 1 THEN q = l /\ off["value"] = -1 /\ len["value"] = 0
             ELSE off["value"] = l /\ len["value"] = e - 1 - l
    BY DEF Waiting
  <2>2. q # l
    BY <2>1
  <2>3. e = q + 1 => q \in l + 1 .. e - 1
    BY <2>1, <2>2
  <2>4. e = q + 1 => r[q].k \in ValueKind
    BY <2>1, <2>3 DEF ValueAt
  <2>5. e = q
    BY <2>4 DEF ValueKind
  <2>6. off["name"] \in 1 .. l - 2 /\ l < q
    BY <2>1, <2>2 DEF NameAt
  <2>7. q # l + 1 /\ off["value"] = l /\ len["value"] = q - 1 - l /\ ValueAt(r, l, q)
    BY <2>1, <2>2, <2>5
  <2>8. off["name"] \in Nat /\ l \in Nat
    BY <2>6
  <2>. QED BY <2>1, <2>6, <2>7, <2>8
<1>2. l < q /\ l # 0 /\ q - 1 - l > 0
  BY <1>1
<1>3. /\ b \in 1 .. l - 2 /\ \A i \in b + 1 .. l - 1 : r[i].k = "name"
      /\ \A i \in l + 1 .. q - 1 : r[i].k \in ValueKind
  BY <1>1 DEF NameAt, ValueAt
<1>4. HeaderPending
  BY <1>1, <1>2 DEF HeaderPending
<1>z. PICK lz \in Nat, ez \in Nat : lz = l - 1 /\ ez = q - 1
  BY <1>2
<1>. DEFINE m1 == [mem EXCEPT ![lz] = Nul]   m2 == [m1 EXCEPT ![ez] = Nul]
<1>5. HeaderMem = m2
  <2>1. off["name"] + len["name"] = lz /\ off["value"] + len["value"] = ez
    BY <1>1, <1>2, <1>3, <1>z
  <2>. QED BY <1>4, <2>1 DEF HeaderMem, Terminate
<1>6. lz \in Nat /\ ez \in Nat /\ lz + 1 = l /\ ez + 1 = q /\ lz < bufferSize
      /\ ez < bufferSize /\ lz # ez
  BY <1>0, <1>2, <1>z
<1>7. After(r[lz + 1].k) \notin Field /\ After(r[ez + 1].k) \notin Field
  BY <1>1, <1>2, <1>6 DEF After, Field, ValueKind
<1>8. m1 \in Buffer /\ Intact(m1, r, n) /\ m1[lz] = Nul
  <2>0. Nul \in Byte /\ lz \in 0 .. bufferSize - 1
    BY <1>0, <1>6 DEF Byte
  <2>1. m1 \in Buffer /\ m1[lz] = Nul
    BY <1>0, <2>0 DEF Buffer
  <2>2. \A i \in 0 .. bufferSize - 1 : i # lz => m1[i] = mem[i]
    BY <1>0, <1>6 DEF Buffer
  <2>. HIDE DEF m1
  <2>. QED BY <1>0, <1>6, <1>7, <2>1, <2>2, Sparing
<1>9. m2 \in Buffer /\ Intact(m2, r, n) /\ m2[ez] = Nul
  <2>. HIDE DEF m1
  <2>1. m2 \in Buffer /\ m2[ez] = Nul
    BY <1>0, <1>6, <1>8, WriteNul, Zenon DEF Buffer
  <2>2. \A i \in 0 .. bufferSize - 1 : i # ez => m2[i] = m1[i]
    BY <1>0, <1>6, <1>8 DEF Buffer
  <2>. HIDE DEF m2
  <2>. QED BY <1>0, <1>6, <1>7, <1>8, <2>1, <2>2, Sparing
<1>10. m2[lz] = Nul
  BY <1>0, <1>6, <1>8 DEF Buffer
<1>. HIDE DEF m1, m2
<1>11. CString(m2, b) = Row(b, l - 1 - b)
  <2>1. PICK k \in Nat : k = l - 1 - b
    BY <1>3
  <2>2. \A i \in b + 1 .. b + k : i \in 1 .. n /\ After(r[i].k) \in Field
    <3>1. ASSUME NEW i \in b + 1 .. b + k PROVE i \in 1 .. n /\ After(r[i].k) \in Field
      <4>1. r[i].k = "name" /\ i \in 1 .. n
        BY <1>2, <1>3, <2>1
      <4>. QED BY <4>1 DEF After, Field
    <3>. QED BY <3>1
  <2>3. b \in Nat /\ b + k = lz
    BY <1>3, <1>z, <2>1
  <2>4. m2[b + k] = Nul /\ b + k < bufferSize
    BY <1>6, <1>10, <2>3
  <2>5. CString(m2, b) = Row(b, k)
    BY <1>0, <1>9, <2>2, <2>3, <2>4, CutOut
  <2>. QED BY <2>1, <2>5
<1>12. CString(m2, l) = Row(l, q - 1 - l)
  <2>1. \A i \in l + 1 .. l + (q - 1 - l) : i \in 1 .. n /\ After(r[i].k) \in Field
    <3>1. ASSUME NEW i \in l + 1 .. l + (q - 1 - l) PROVE i \in 1 .. n /\ After(r[i].k) \in Field
      <4>1. r[i].k \in ValueKind /\ i \in 1 .. n
        BY <1>2, <1>3
      <4>. QED BY <4>1 DEF After, Field, ValueKind
    <3>. QED BY <3>1
  <2>2. l \in Nat /\ q - 1 - l \in Nat /\ l + (q - 1 - l) = ez
    BY <1>2, <1>z
  <2>. QED BY <1>0, <1>6, <1>9, <2>1, <2>2, CutOut
<1>13. HeadersNow = Append(headers, <<Row(b, l - 1 - b), Row(l, q - 1 - l)>>)
  BY <1>1, <1>4, <1>5, <1>11, <1>12 DEF HeadersNow
<1>. DEFINE last == <<Row(b, l - 1 - b), Row(l, q - 1 - l)>>
<1>14. /\ Len(HeadersNow) = Len(headers) + 1 /\ HeadersNow[Len(headers) + 1] = last
       /\ \A i \in 1 .. Len(headers) : HeadersNow[i] = headers[i]
  <2>. HIDE DEF last
  <2>0. HeadersNow = Append(headers, last)
    BY <1>13 DEF last
  <2>1. headers \in Seq((Text \X Text) \cup {last}) /\ last \in (Text \X Text) \cup {last}
    BY <1>0
  <2>. QED BY <2>0, <2>1
<1>15. Colons(r, l) = Colons(r, q) /\ l \in Colons(r, q)
  <2>1. \A i \in l + 1 .. q : r[i].k # "colon"
    BY <1>2, <1>3 DEF ValueKind
  <2>. QED BY <1>1, <2>1, ColonCount DEF Colons
<1>16. HeadersKept(HeadersNow, r, q)
  <2>. SUFFICES ASSUME NEW j \in Colons(r, q)
                PROVE  \E bb, ee \in 1 .. q :
                  /\ NameAt(r, bb, j) /\ ValueAt(r, j, ee) /\ r[ee].k = "crlf"
                  /\ HeadersNow[Cardinality(Colons(r, j))] =
                       <<Row(bb, j - 1 - bb), Row(j, ee - 1 - j)>>
    BY DEF HeadersKept
  <2>1. CASE j = l
    <3>1. HeadersNow[Cardinality(Colons(r, j))] = last
      BY <1>1, <1>14, <1>15, <2>1
    <3>2. b \in 1 .. q /\ q \in 1 .. q /\ NameAt(r, b, j) /\ ValueAt(r, j, q) /\ r[q].k = "crlf"
      BY <1>1, <1>2, <1>3, <2>1
    <3>. QED BY <2>1, <3>1, <3>2
  <2>2. CASE j # l
    <3>1. j \in 1 .. q /\ j < l
      <4>1. j \in Colons(r, l)
        BY <1>15
      <4>. QED BY <2>2, <4>1 DEF Colons
    <3>2. Cardinality(Colons(r, j)) \in 1 .. Len(headers)
      <4>1. Cardinality(Colons(r, j)) < Len(headers) + 1 /\ Cardinality(Colons(r, j)) \in Nat \ {0}
        BY <1>1, <1>15, <3>1, ColonOrder
      <4>. QED BY <1>0, <4>1
    <3>3. PICK bb, ee \in 1 .. q :
            /\ NameAt(r, bb, j) /\ ValueAt(r, j, ee) /\ r[ee].k = "crlf"
            /\ headers[Cardinality(Colons(r, j))] = <<Row(bb, j - 1 - bb), Row(j, ee - 1 - j)>>
      BY <3>2 DEF HeadersKept
    <3>. QED BY <1>14, <3>2, <3>3
  <2>. QED BY <2>1, <2>2
<1>. QED BY <1>1, <1>4, <1>5, <1>9, <1>14, <1>16

-----------------------------------------------------------------------------
(***************************************************************************)
(* What was noted of the head, when more of it is passed on.               *)
(***************************************************************************)

(* Neighbours in the head of a request. *)
LEMMA NextKind ==
  ASSUME NEW r, NEW n \in Nat, WalkTo(r, n), NEW q \in Nat, q + 1 <= n
  PROVE  /\ r[q + 1].k \in Request => q = 0 \/ r[q].k \in Request
         /\ r[q + 1].k = "method" => q = 0
         /\ r[q + 1].k = "path" => q # 0 /\ r[q].k \in {"method", "path"}
         /\ r[q + 1].k = "query" => q # 0 /\ r[q].k \in {"qmark", "query"}
         /\ r[q + 1].k = "name" => q # 0 /\ r[q].k \in VersionKind \cup {"crlf", "name"}
         /\ r[q + 1].k = "colon" => q # 0 /\ r[q].k = "name"
         /\ r[q + 1].k \in ValueKind \cup {"crlf"} => q # 0 /\ r[q].k \in {"colon"} \cup ValueKind
         /\ q # 0 /\ r[q].k \in {"path", "query"} => r[q + 1].k \in Request
         /\ q # 0 /\ r[q].k = "name" => r[q + 1].k \in {"name", "colon"}
         /\ q # 0 /\ r[q].k \in ValueKind => r[q + 1].k \in ValueKind \cup {"crlf"}
<1>. DEFINE s == StateAfter(r, q)
            k == r[q + 1].k
            Seen == Request \cup {"name", "colon", "crlf"} \cup ValueKind
<1>1. <<s, k, StateAfter(r, q + 1)>> \in Edge
  BY DEF WalkTo
<1>2. s \notin ChunkState \cup {"error"} /\ (q = 0 => s = "start") /\ (q # 0 => s = After(r[q].k))
  BY AfterIs DEF StateAfter, ChunkState
<1>3. q # 0 => r[q].k \in Seen
  <2>. SUFFICES ASSUME q # 0 PROVE r[q].k \in Seen
    OBVIOUS
  <2>1. <<StateAfter(r, q - 1), r[q].k, StateAfter(r, q)>> \in Edge /\ q - 1 \in Nat
    BY DEF WalkTo
  <2>2. StateAfter(r, q - 1) \notin ChunkState
    BY AfterIs DEF StateAfter, ChunkState
  <2>. QED BY <2>1, <2>2, EdgeIs DEF Request
<1>. HIDE DEF s, k
<1>4. /\ s = "start" <=> k = "method"
      /\ k = "star" => s = "target"
      /\ k = "path" => s \in {"target", "path"}
      /\ k = "qmark" => s = "path"
      /\ k = "query" => s \in {"query0", "query"}
      /\ k \in VersionKind => s \in {"uri", "path", "query0", "query"}
      /\ k = "name" => s \in {"hdr", "name"}
      /\ k = "colon" => s = "name"
      /\ k \in ValueKind => s \in {"sep", "value"}
      /\ k = "crlf" => s \in {"sep", "value"}
      /\ k \in Seen
  BY <1>1, <1>2, EdgeIs DEF Request
<1>5. q # 0 => /\ s \in {"target", "path", "uri", "query0", "query"} => r[q].k \in Request
               /\ s = "target" => r[q].k = "method"
               /\ s = "query0" => r[q].k = "qmark"
               /\ s = "path" => r[q].k = "path"
               /\ s = "query" => r[q].k = "query"
               /\ s = "hdr" => r[q].k \in VersionKind \cup {"crlf"}
               /\ s = "name" <=> r[q].k = "name"
               /\ s = "sep" <=> r[q].k = "colon"
               /\ s = "value" <=> r[q].k \in ValueKind
               /\ s # "start"
               /\ r[q].k \in {"path", "query"} => s = r[q].k
  BY <1>2, <1>3 DEF After, Request, ValueKind, VersionKind
<1>6. k \in Request => s \in {"start", "target", "path", "uri", "query0", "query"}
  BY <1>4 DEF Request
<1>. QED BY <1>2, <1>4, <1>5, <1>6 DEF k, Request, ValueKind, VersionKind

(* A cell that belongs to another part leaves path and query as they are. *)
LEMMA ExtendedOn ==
  ASSUME NEW f, NEW r, NEW q \in Nat, NEW x \in Nat, q <= x, Extended(f, r, q),
         off[f] \in Int, len[f] \in Nat, off'[f] = off[f], len'[f] = len[f],
         \A i \in q + 1 .. x : r[i].k # f
  PROVE  Extended(f, r, x)'
<1>1. CASE off[f] < 0
  <2>1. \A i \in 1 .. x : r[i].k # f
    BY <1>1 DEF Extended
  <2>. QED BY <1>1, <2>1 DEF Extended
<1>2. CASE off[f] >= 0
  <2>1. /\ off[f] + len[f] <= q
        /\ \A i \in 1 .. q : r[i].k = f <=> i \in off[f] + 1 .. off[f] + len[f]
        /\ len[f] = 0 => off[f] < q /\ r[off[f] + 1].k \in VersionKind
    BY <1>2 DEF Extended
  <2>2. \A i \in 1 .. x : r[i].k = f <=> i \in off[f] + 1 .. off[f] + len[f]
    BY <1>2, <2>1
  <2>3. off[f] + len[f] <= x /\ (len[f] = 0 => off[f] < x /\ r[off[f] + 1].k \in VersionKind)
    BY <1>2, <2>1
  <2>. QED BY <1>2, <2>2, <2>3 DEF Extended
<1>. QED BY <1>1, <1>2

(* What is kept of the headers is kept when no colon is added. *)
LEMMA HeadersOn ==
  ASSUME NEW hs, NEW r, NEW q \in Nat, NEW x \in Nat, q <= x, HeadersKept(hs, r, q),
         \A i \in q + 1 .. x : r[i].k = "colon" => Cardinality(Colons(r, i)) > Len(hs),
         Len(hs) \in Nat
  PROVE  HeadersKept(hs, r, x)
<1>. SUFFICES ASSUME NEW l \in Colons(r, x), Cardinality(Colons(r, l)) <= Len(hs)
              PROVE  \E b, e \in 1 .. x :
                       /\ NameAt(r, b, l) /\ ValueAt(r, l, e) /\ r[e].k = "crlf"
                       /\ hs[Cardinality(Colons(r, l))] = <<Row(b, l - 1 - b), Row(l, e - 1 - l)>>
  BY DEF HeadersKept
<1>1. l \in 1 .. x /\ r[l].k = "colon" /\ Cardinality(Colons(r, l)) \in Nat
  BY ColonOrder DEF Colons
<1>2. l \in Colons(r, q)
  <2>1. l \notin q + 1 .. x
    BY <1>1
  <2>. QED BY <1>1, <2>1 DEF Colons
<1>3. PICK b, e \in 1 .. q :
        /\ NameAt(r, b, l) /\ ValueAt(r, l, e) /\ r[e].k = "crlf"
        /\ hs[Cardinality(Colons(r, l))] = <<Row(b, l - 1 - b), Row(l, e - 1 - l)>>
  BY <1>2 DEF HeadersKept
<1>4. b \in 1 .. x /\ e \in 1 .. x
  OBVIOUS
<1>. QED BY <1>3, <1>4

(* The headers kept are those of the next state. *)
LEMMA HeadersSame ==
  ASSUME NEW r, NEW y, cur' = cur, NEW hs, hs = headers', HeadersKept(hs, r, y)
  PROVE  HeadersKept(headers, r, y)'
<1>. SUFFICES ASSUME NEW l \in Colons(r, y), Cardinality(Colons(r, l)) <= Len(hs)
              PROVE  \E b, e \in 1 .. y :
                       /\ NameAt(r, b, l) /\ ValueAt(r, l, e) /\ r[e].k = "crlf"
                       /\ hs[Cardinality(Colons(r, l))] = <<Row(b, l - 1 - b)', Row(l, e - 1 - l)'>>
  BY DEF HeadersKept
<1>1. PICK b, e \in 1 .. y :
        /\ NameAt(r, b, l) /\ ValueAt(r, l, e) /\ r[e].k = "crlf"
        /\ hs[Cardinality(Colons(r, l))] = <<Row(b, l - 1 - b), Row(l, e - 1 - l)>>
  BY DEF HeadersKept
<1>2. \A o, n : Row(o, n)' = Row(o, n)
  BY DEF Row
<1>. QED BY <1>1, <1>2

(* What the last cell that was passed on says. *)
LEMMA LastKind ==
  ASSUME NEW r, NEW q \in Nat
  PROVE  /\ NoHeader(r, q) => q = 0 \/ r[q].k \in Request
         /\ InName(r, q) => q # 0 /\ r[q].k = "name"
         /\ Waiting(r, q) => q # 0 /\ r[q].k \in {"colon", "crlf"} \cup ValueKind
<1>1. NoHeader(r, q) => q = 0 \/ r[q].k \in Request
  BY DEF NoHeader
<1>2. InName(r, q) => q # 0 /\ r[q].k = "name"
  <2>1. ASSUME NEW b, NameAt(r, b, q + 1) PROVE q # 0 /\ r[q].k = "name"
    <3>1. b \in 1 .. q - 1
      BY <2>1 DEF NameAt
    <3>2. q \in b + 1 .. q + 1 - 1
      BY <3>1
    <3>. QED BY <2>1, <3>1, <3>2 DEF NameAt
  <2>. QED BY <2>1 DEF InName
<1>3. ASSUME Waiting(r, q) PROVE q # 0 /\ r[q].k \in {"colon", "crlf"} \cup ValueKind
  <2>1. PICK l \in 1 .. q, e \in {q, q + 1} :
          r[l].k = "colon" /\ ValueAt(r, l, e) /\ (e = q => r[e].k = "crlf")
    BY <1>3 DEF Waiting
  <2>2. CASE q # l /\ e = q + 1
    <3>1. q \in l + 1 .. e - 1
      BY <2>2
    <3>. QED BY <2>1, <2>2, <3>1 DEF ValueAt
  <2>. QED BY <2>1, <2>2
<1>. QED BY <1>1, <1>2, <1>3

(* Callback on_path or on_query_string: the cells q + 1 .. x are passed on. *)
LEMMA ExtendedMore ==
  ASSUME NEW f \in {"path", "query"}, NEW r, NEW q \in Nat, NEW x \in Nat, q <= x,
         NEW y \in {x, x + 1}, WalkTo(r, y), Extended(f, r, q),
         off[f] \in Nat \cup {-1}, len[f] \in Nat,
         \A i \in q + 1 .. x : r[i].k = f,
         y = x + 1 => r[x + 1].k # f,
         \/ x # 0 /\ r[x].k = f
         \/ q = x /\ y = x + 1 /\ r[x + 1].k \in VersionKind,
         off'[f] = IF off[f] < 0 THEN q ELSE off[f],
         len'[f] = IF off[f] < 0 THEN x - q ELSE len[f] + (x - q)
  PROVE  Extended(f, r, y)'
<1>0. y \in Nat /\ x <= y /\ (y # x => y = x + 1 /\ r[x + 1].k # f)
  OBVIOUS
<1>1. CASE off[f] < 0
  <2>1. off'[f] = q /\ len'[f] = x - q /\ \A i \in 1 .. q : r[i].k # f
    BY <1>1 DEF Extended
  <2>2. \A i \in 1 .. y : r[i].k = f <=> i \in q + 1 .. x
    BY <1>0, <2>1
  <2>3. x = q => q < y /\ r[q + 1].k \in VersionKind
    BY <2>1
  <2>. QED BY <1>0, <2>1, <2>2, <2>3 DEF Extended
<1>2. CASE ~(off[f] < 0)
  <2>0. PICK o \in Nat, n \in Nat : o = off[f] /\ n = len[f]
    BY <1>2
  <2>1. /\ off'[f] = o /\ len'[f] = n + (x - q) /\ o + n <= q
        /\ \A i \in 1 .. q : r[i].k = f <=> i \in o + 1 .. o + n
        /\ n = 0 => o < q /\ r[o + 1].k \in VersionKind
    BY <1>2, <2>0 DEF Extended
  <2>2. CASE q = x
    <3>1. \A i \in 1 .. y : r[i].k = f <=> i \in o + 1 .. o + n
      BY <1>0, <2>1, <2>2
    <3>2. n = 0 => o < y
      BY <1>0, <2>1, <2>2
    <3>. QED BY <1>0, <2>0, <2>1, <2>2, <3>1, <3>2 DEF Extended
  <2>3. CASE q < x
    <3>1. x \in 1 .. y /\ r[x].k = f
      BY <1>0, <2>3
    <3>2. \A j \in 1 .. x - 1 :
            r[j].k \in IF f = "path" THEN {"method", "path"}
                       ELSE {"method", "path", "qmark", "query"}
      BY <3>1 DEF WalkTo
    <3>3. n # 0
      <4>1. n = 0 => o + 1 \in 1 .. x - 1
        BY <2>1, <2>3
      <4>. QED BY <2>1, <3>2, <4>1 DEF VersionKind
    <3>4. o + n \in 1 .. q /\ r[o + n].k = f
      BY <2>1, <3>3
    <3>5. q \in 1 .. y /\ q \in 1 .. x - 1
      BY <1>0, <2>3, <3>4
    <3>6. o + n = q
      <4>. SUFFICES ASSUME o + n < q PROVE FALSE
        BY <2>1
      <4>1. r[q].k # f
        BY <2>1, <3>5
      <4>2. r[q].k \in {"method", "path", "qmark"} /\ (f = "path" => r[q].k = "method")
        BY <3>2, <3>5, <4>1
      <4>3. CASE r[q].k = "method"
        <5>1. PICK z \in Nat : z + 1 = q
          BY <3>5
        <5>2. z + 1 <= y /\ z # 0 /\ r[z + 1].k = "method"
          BY <1>0, <3>4, <3>5, <4>3, <5>1
        <5>. QED BY <1>0, <5>2, NextKind
      <4>4. CASE r[q].k \in {"path", "qmark"}
        <5>1. \A j \in 1 .. q - 1 : r[j].k \in {"method", "path"}
          BY <3>5, <4>4 DEF WalkTo
        <5>2. o + n \in 1 .. q - 1 /\ f = "query"
          BY <3>4, <4>2, <4>4
        <5>. QED BY <3>4, <5>1, <5>2
      <4>. QED BY <4>2, <4>3, <4>4
    <3>7. o + len'[f] = x /\ len'[f] \in Nat \ {0}
      BY <2>1, <2>3, <3>6
    <3>8. \A i \in 1 .. y : r[i].k = f <=> i \in o + 1 .. x
      BY <1>0, <2>1, <3>6
    <3>. QED BY <1>0, <2>1, <3>7, <3>8 DEF Extended
  <2>. QED BY <2>2, <2>3
<1>. QED BY <1>1, <1>2

(* The same for all that was noted. *)
LEMMA PartPassed ==
  ASSUME TypeOK, NEW f \in {"path", "query"}, NEW r, NEW q \in Nat, NEW x \in Nat, q <= x,
         NEW y \in {x, x + 1}, WalkTo(r, y), Noted(r, q),
         \A i \in q + 1 .. x : r[i].k = f,
         y = x + 1 => After(r[x + 1].k) \notin Field,
         \/ x # 0 /\ r[x].k = f
         \/ q = x /\ y = x + 1 /\ f = "query" /\ r[x + 1].k \in VersionKind,
         Accumulate(f, q, x - q, off, len), headers' = headers, cur' = cur
  PROVE  Noted(r, y)'
<1>0. /\ y \in Nat /\ q <= y /\ Len(headers) \in Nat
      /\ \A g \in Field : off[g] \in Nat \cup {-1} /\ len[g] \in Nat
      /\ off' = IF off[f] < 0 THEN [off EXCEPT ![f] = q] ELSE off
      /\ len' = [len EXCEPT ![f] = IF off[f] < 0 THEN x - q ELSE len[f] + (x - q)]
      /\ DOMAIN off = Part /\ DOMAIN len = Part /\ f \in Field /\ f \in Part
  BY DEF TypeOK, Part, Field, Accumulate
<1>1. /\ off'[f] = IF off[f] < 0 THEN q ELSE off[f]
      /\ len'[f] = IF off[f] < 0 THEN x - q ELSE len[f] + (x - q)
      /\ \A g \in Field : g # f => off'[g] = off[g] /\ len'[g] = len[g]
  BY <1>0 DEF Part
<1>2. r[x + 1].k \in Request /\ After(r[x + 1].k) \notin Field =>
        r[x + 1].k \notin {"path", "query"}
  BY DEF After, Field
<1>3. y = x + 1 => r[x + 1].k \in Request
  <2>1. CASE x # 0 /\ r[x].k = f
    BY <2>1, <1>0, NextKind
  <2>2. CASE r[x + 1].k \in VersionKind
    BY <2>2 DEF Request
  <2>. QED BY <2>1, <2>2
<1>4. Extended("path", r, y)' /\ Extended("query", r, y)'
  <2>1. Extended(f, r, y)'
    <3>1. Extended(f, r, q)
      BY DEF Noted
    <3>2. y = x + 1 => r[x + 1].k # f
      BY <1>2, <1>3
    <3>3. off[f] \in Nat \cup {-1} /\ len[f] \in Nat
      BY <1>0
    <3>. QED BY <1>1, <3>1, <3>2, <3>3, ExtendedMore
  <2>2. ASSUME NEW g \in {"path", "query"}, g # f PROVE Extended(g, r, y)'
    <3>1. Extended(g, r, q) /\ g \in Field
      BY DEF Noted, Field
    <3>2. \A i \in q + 1 .. y : r[i].k # g
      BY <1>2, <1>3, <2>2
    <3>3. off[g] \in Int /\ len[g] \in Nat /\ off'[g] = off[g] /\ len'[g] = len[g]
      BY <1>0, <1>1, <2>2, <3>1
    <3>. QED BY <1>0, <3>1, <3>2, <3>3, ExtendedOn
  <2>. QED BY <2>1, <2>2
<1>5. \A i \in q + 1 .. y : r[i].k \in Request
  <2>1. f \in Request
    BY DEF Request
  <2>. QED BY <1>3, <2>1
<1>6. HeadersKept(headers, r, y)
  <2>1. \A i \in q + 1 .. y : r[i].k # "colon"
    BY <1>5 DEF Request, VersionKind
  <2>2. HeadersKept(headers, r, q)
    BY DEF Noted
  <2>. QED BY <1>0, <2>1, <2>2, HeadersOn
<1>7. NoHeader(r, q)
  <2>1. q = 0 \/ r[q].k \in Request
    <3>1. CASE q < y
      <4>1. q + 1 \in q + 1 .. y
        BY <1>0, <3>1
      <4>. QED BY <1>0, <1>5, <3>1, <4>1, NextKind
    <3>2. CASE q = y
      BY <1>0, <3>2 DEF Request
    <3>. QED BY <1>0, <3>1, <3>2
  <2>2. ~InName(r, q) /\ ~Waiting(r, q)
    BY <2>1, LastKind DEF Request, ValueKind, VersionKind
  <2>. QED BY <2>2 DEF Noted
<1>8. NoHeader(r, y)'
  <2>1. \A i \in 1 .. y : r[i].k \in Request
    BY <1>0, <1>5, <1>7 DEF NoHeader
  <2>2. off'["name"] = off["name"] /\ off'["value"] = off["value"] /\ len'["value"] = len["value"]
    BY <1>1 DEF Field
  <2>. QED BY <1>7, <2>1, <2>2 DEF NoHeader
<1>9. HeadersKept(headers, r, y)'
  BY <1>6, HeadersSame
<1>. QED BY <1>4, <1>8, <1>9 DEF Noted

(* A step that notes nothing. *)
LEMMA NotedSame ==
  ASSUME TypeOK, NEW r, NEW q \in Nat, Noted(r, q), cur' = cur, headers' = headers,
         \A g \in Field : off'[g] = off[g] /\ len'[g] = len[g]
  PROVE  Noted(r, q)'
<1>0. \A g \in Field : off[g] \in Int /\ len[g] \in Nat
  BY DEF TypeOK, Part
<1>1. ASSUME NEW g \in {"path", "query"} PROVE Extended(g, r, q)'
  <2>1. Extended(g, r, q) /\ g \in Field
    BY DEF Noted, Field
  <2>2. \A i \in q + 1 .. q : r[i].k # g
    OBVIOUS
  <2>. QED BY <1>0, <2>1, <2>2, ExtendedOn
<1>2. HeadersKept(headers, r, q)'
  BY HeadersSame DEF Noted
<1>3. /\ off'["name"] = off["name"] /\ off'["value"] = off["value"]
      /\ len'["name"] = len["name"] /\ len'["value"] = len["value"]
  BY DEF Field
<1>4. (NoHeader(r, q) \/ InName(r, q) \/ Waiting(r, q))'
  <2>1. NoHeader(r, q) => NoHeader(r, q)'
    BY <1>3 DEF NoHeader
  <2>2. InName(r, q) => InName(r, q)'
    BY <1>3 DEF InName
  <2>3. Waiting(r, q) => Waiting(r, q)'
    BY <1>3 DEF Waiting
  <2>. QED BY <2>1, <2>2, <2>3 DEF Noted
<1>. QED BY <1>1, <1>2, <1>4 DEF Noted

(* A cell that no callback passes on. *)
LEMMA SilentOn ==
  ASSUME TypeOK, NEW r, NEW q \in Nat, NEW y \in Nat, y = q + 1, WalkTo(r, y), Noted(r, q),
         r[y].k \in {"star"} \cup VersionKind, cur' = cur, headers' = headers,
         \A g \in Field : off'[g] = off[g] /\ len'[g] = len[g]
  PROVE  Noted(r, y)'
<1>0. (\A g \in Field : off[g] \in Int /\ len[g] \in Nat) /\ Len(headers) \in Nat
  BY DEF TypeOK, Part
<1>1. r[q + 1].k \in Request /\ r[y].k \notin {"path", "query", "colon"}
  BY DEF Request, VersionKind
<1>2. ASSUME NEW g \in {"path", "query"} PROVE Extended(g, r, y)'
  <2>1. Extended(g, r, q) /\ g \in Field
    BY DEF Noted, Field
  <2>2. \A i \in q + 1 .. y : r[i].k # g
    BY <1>1
  <2>. QED BY <1>0, <2>1, <2>2, ExtendedOn
<1>3. HeadersKept(headers, r, y)'
  <2>1. HeadersKept(headers, r, q) /\ \A i \in q + 1 .. y : r[i].k # "colon"
    BY <1>1 DEF Noted
  <2>2. HeadersKept(headers, r, y)
    BY <1>0, <2>1, HeadersOn
  <2>. QED BY <2>2, HeadersSame
<1>4. NoHeader(r, y)'
  <2>1. q = 0 \/ r[q].k \in Request
    BY <1>1, NextKind
  <2>2. ~InName(r, q) /\ ~Waiting(r, q)
    BY <2>1, LastKind DEF Request, ValueKind, VersionKind
  <2>3. NoHeader(r, q)
    BY <2>2 DEF Noted
  <2>4. \A i \in 1 .. y : r[i].k \in Request
    BY <1>1, <2>3 DEF NoHeader
  <2>5. off'["name"] = off["name"] /\ off'["value"] = off["value"] /\ len'["value"] = len["value"]
    BY DEF Field
  <2>. QED BY <2>3, <2>4, <2>5 DEF NoHeader
<1>. QED BY <1>2, <1>3, <1>4 DEF Noted

(* on_message_begin, behind the method *)
LEMMA BegunOn ==
  ASSUME TypeOK, NEW r, Noted(r, 0), r[1].k = "method", headers' = <<>>,
         off' = off, len' = len
  PROVE  Noted(r, 1)'
<1>0. \A g \in Field : off[g] \in Int /\ len[g] \in Nat
  BY DEF TypeOK, Part
<1>1. ASSUME NEW g \in {"path", "query"} PROVE Extended(g, r, 1)'
  <2>0. off[g] \in Int /\ len[g] \in Nat
    BY <1>0 DEF Field
  <2>1. off[g] < 0
    BY <2>0 DEF Noted, Extended
  <2>2. \A i \in 1 .. 1 : r[i].k # g
    OBVIOUS
  <2>. QED BY <2>1, <2>2 DEF Extended
<1>2. HeadersKept(headers, r, 1)'
  <2>1. Colons(r, 1) = {}
    BY DEF Colons
  <2>2. HeadersKept(headers', r, 1)
    BY <2>1 DEF HeadersKept
  <2>3. Colons(r, 1)' = {}
    BY <2>1
  <2>. QED BY <2>3 DEF HeadersKept
<1>3. NoHeader(r, 1)'
  <2>1. NoHeader(r, 0)
    <3>1. 0 \in Nat /\ (0 = 0)
      OBVIOUS
    <3>2. ~InName(r, 0) /\ ~Waiting(r, 0)
      BY <3>1, LastKind
    <3>. QED BY <3>2 DEF Noted
  <2>2. \A i \in 1 .. 1 : r[i].k \in Request
    BY DEF Request
  <2>. QED BY <2>1, <2>2 DEF NoHeader
<1>. QED BY <1>1, <1>2, <1>3 DEF Noted

(* Behind a name that is passed on, in it or behind its colon. *)
LEMMA BehindName ==
  ASSUME NEW r, NEW q \in Nat, NEW x \in Nat, q <= x, NEW y \in {x, x + 1}, WalkTo(r, y),
         \A i \in q + 1 .. x : r[i].k = "name", x # 0, r[x].k = "name",
         y = x + 1 => After(r[x + 1].k) \notin Field,
         NEW b \in Nat, NameAt(r, b, x + 1),
         off'["name"] = b, len'["name"] = x - b, off'["value"] = -1, len'["value"] = 0,
         Len(headers') = Cardinality(Colons(r, q))
  PROVE  (InName(r, y) \/ Waiting(r, y))'
<1>1. Colons(r, x) = Colons(r, q)
  BY ColonCount
<1>2. CASE y = x
  <2>1. Len(headers)' = Cardinality(Colons(r, x))
    BY <1>1
  <2>. QED BY <1>2, <2>1 DEF InName
<1>3. CASE y = x + 1
  <2>1. r[x + 1].k = "colon"
    <3>1. r[x + 1].k \in {"name", "colon"}
      BY <1>3, NextKind
    <3>. QED BY <1>3, <3>1 DEF After, Field
  <2>2. Len(headers') + 1 = Cardinality(Colons(r, y))
    BY <1>1, <1>3, <2>1, ColonCount
  <2>3. ValueAt(r, y, y + 1) /\ y \in 1 .. y /\ y + 1 \in {y, y + 1} /\ y # y + 1
    BY <1>3 DEF ValueAt
  <2>4. NameAt(r, b, y) /\ x - b = y - 1 - b /\ r[y].k = "colon"
    BY <1>3, <2>1
  <2>5. /\ r[y].k = "colon" /\ Len(headers') + 1 = Cardinality(Colons(r, y))
        /\ NameAt(r, off'["name"], y) /\ len'["name"] = y - 1 - off'["name"]
        /\ ValueAt(r, y, y + 1) /\ (y + 1 = y => r[y + 1].k = "crlf")
        /\ IF y + 1 = y + 1 THEN y = y /\ off'["value"] = -1 /\ len'["value"] = 0
           ELSE off'["value"] = y /\ len'["value"] = y + 1 - 1 - y
    BY <2>2, <2>3, <2>4
  <2>6. Waiting(r, y)'
    BY <2>3, <2>5 DEF Waiting
  <2>. QED BY <2>6
<1>. QED BY <1>2, <1>3

(* on_header_field *)
LEMMA NamePassed ==
  ASSUME TypeOK, NEW r, NEW q \in Nat, NEW x \in Nat, q <= x, x <= bufferSize,
         NEW y \in {x, x + 1}, WalkTo(r, y), Noted(r, q), Intact(mem, r, x), cur # NoClient,
         \A i \in q + 1 .. x : r[i].k = "name", x # 0, r[x].k = "name",
         y = x + 1 => After(r[x + 1].k) \notin Field,
         headers' = HeadersNow, cur' = cur,
         Accumulate("name", q, x - q, ForgottenOff, ForgottenLen)
  PROVE  Noted(r, y)' /\ Intact(HeaderMem, r, x)
<1>0. /\ y \in Nat /\ q <= y /\ headers \in Seq(Text \X Text) /\ Len(headers) \in Nat
      /\ off \in [Part -> Nat \cup {-1}] /\ len \in [Part -> Nat]
      /\ Field \in SUBSET Part /\ "name" \in Field /\ "value" \in Field
  BY SMTT(40) DEF TypeOK, Part, Field
<1>1. /\ off' = IF ForgottenOff["name"] < 0 THEN [ForgottenOff EXCEPT !["name"] = q]
                ELSE ForgottenOff
      /\ len' = [ForgottenLen EXCEPT !["name"] =
                   IF ForgottenOff["name"] < 0 THEN x - q ELSE ForgottenLen["name"] + (x - q)]
  BY DEF Accumulate
<1>2. \A g \in {"path", "query"} : off'[g] = off[g] /\ len'[g] = len[g]
  BY <1>0, <1>1 DEF ForgottenOff, ForgottenLen, Part, Field
<1>3. r[x + 1].k \in {"name", "colon"} /\ After(r[x + 1].k) \notin Field => r[x + 1].k = "colon"
  BY DEF After, Field
<1>4. y = x + 1 => r[x + 1].k = "colon"
  BY <1>0, <1>3, NextKind
<1>5. \A g \in {"path", "query"} : Extended(g, r, y)'
  <2>. SUFFICES ASSUME NEW g \in {"path", "query"} PROVE Extended(g, r, y)'
    OBVIOUS
  <2>1. /\ Extended(g, r, q) /\ off[g] \in Int /\ len[g] \in Nat
        /\ off'[g] = off[g] /\ len'[g] = len[g]
    BY <1>0, <1>2 DEF Noted, Field
  <2>2. \A i \in q + 1 .. y : r[i].k # g
    BY <1>4
  <2>. QED BY <1>0, <2>1, <2>2, ExtendedOn
<1>6. q < x => q # 0 /\ r[q].k \in VersionKind \cup {"crlf", "name"}
  <2>. SUFFICES ASSUME q < x PROVE q # 0 /\ r[q].k \in VersionKind \cup {"crlf", "name"}
    OBVIOUS
  <2>1. q + 1 \in q + 1 .. x /\ q + 1 <= y
    BY <1>0
  <2>2. r[q + 1].k = "name"
    BY <2>1
  <2>. QED BY <1>0, <2>1, <2>2, NextKind
<1>7. q = x \/ q < x
  OBVIOUS
<1>8. \A i \in q + 1 .. y : r[i].k = "colon" => i = x + 1 /\ y = x + 1
  BY <1>0
<1>9. Colons(r, x) = Colons(r, q) /\ Cardinality(Colons(r, q)) \in Nat
  BY ColonCount
<1>10. y = x + 1 => Cardinality(Colons(r, x + 1)) = Cardinality(Colons(r, q)) + 1
  BY <1>4, <1>9, ColonCount
<1>11. CASE NoHeader(r, q)
  <2>1. ~HeaderPending /\ headers' = <<>> /\ headers = <<>> /\ off["name"] = -1
    BY <1>11 DEF NoHeader, HeaderPending, HeadersNow
  <2>2. q < x /\ q # 0 /\ r[q].k # "name"
    <3>1. q # 0 => r[q].k # "name"
      BY <1>11, LastKind DEF Request, VersionKind
    <3>. QED BY <1>6, <1>7, <3>1
  <2>3. off'["name"] = q /\ len'["name"] = x - q /\ off'["value"] = -1 /\ len'["value"] = 0
    BY <1>0, <1>1, <1>11, <2>1 DEF ForgottenOff, ForgottenLen, NoHeader
  <2>4. NameAt(r, q, x + 1)
    BY <2>2 DEF NameAt
  <2>5. Colons(r, q) = {} /\ Len(headers') = Cardinality(Colons(r, q))
    <3>1. Colons(r, q) = {}
      BY <1>11 DEF Colons, NoHeader, Request, VersionKind
    <3>. QED BY <2>1, <3>1, FS_EmptySet
  <2>6. (InName(r, y) \/ Waiting(r, y))'
    BY <2>3, <2>4, <2>5, BehindName
  <2>7. HeadersKept(headers, r, y)'
    <3>1. HeadersKept(headers, r, q) /\ Len(headers) = Cardinality(Colons(r, q))
      BY <2>1, <2>5 DEF Noted
    <3>2. HeadersKept(headers, r, y)
      BY <1>0, <1>8, <1>9, <1>10, <3>1, HeadersOn
    <3>. QED BY <2>1, <3>2, HeadersSame
  <2>8. HeaderMem = mem
    BY <2>1 DEF HeaderMem
  <2>. QED BY <1>5, <2>6, <2>7, <2>8 DEF Noted
<1>12. CASE InName(r, q)
  <2>1. ~HeaderPending /\ headers' = headers
    BY <1>12 DEF InName, HeaderPending, HeadersNow
  <2>2. PICK b \in Nat : b = off["name"] /\ b \in 1 .. q - 1
    BY <1>12 DEF InName, NameAt
  <2>3. off'["name"] = b /\ len'["name"] = x - b /\ off'["value"] = -1 /\ len'["value"] = 0
    BY SMTT(40), <1>0, <1>1, <1>12, <2>1, <2>2 DEF ForgottenOff, ForgottenLen, InName
  <2>4. NameAt(r, b, x + 1)
    <3>1. NameAt(r, b, q + 1)
      BY <1>12, <2>2 DEF InName
    <3>. QED BY <2>2, <3>1 DEF NameAt
  <2>5. Len(headers') = Cardinality(Colons(r, q))
    BY <1>12, <2>1 DEF InName
  <2>6. (InName(r, y) \/ Waiting(r, y))'
    BY <2>3, <2>4, <2>5, BehindName
  <2>7. HeadersKept(headers, r, y)'
    <3>1. HeadersKept(headers, r, q) /\ Len(headers) = Cardinality(Colons(r, q))
      BY <2>1, <2>5 DEF Noted
    <3>2. HeadersKept(headers, r, y)
      BY <1>0, <1>8, <1>9, <1>10, <3>1, HeadersOn
    <3>. QED BY <2>1, <3>2, HeadersSame
  <2>8. HeaderMem = mem
    BY <2>1 DEF HeaderMem
  <2>. QED BY <1>5, <2>6, <2>7, <2>8 DEF Noted
<1>13. CASE Waiting(r, q)
  <2>1. q # 0 /\ r[q].k # "name"
    BY <1>13, LastKind DEF ValueKind
  <2>2. q < x /\ r[q].k = "crlf"
    <3>1. r[q].k \in {"colon", "crlf"} \cup ValueKind
      BY <1>13, LastKind
    <3>. QED BY <1>6, <1>7, <2>1, <3>1 DEF VersionKind, ValueKind
  <2>3. q \in 1 .. x /\ HeadersKept(headers, r, q)
    BY <2>1 DEF Noted
  <2>4. /\ HeaderPending /\ Len(HeadersNow) = Cardinality(Colons(r, q))
        /\ HeadersKept(HeadersNow, r, q) /\ Intact(HeaderMem, r, x)
    BY <1>13, <2>2, <2>3, HeaderPut
  <2>5. off'["name"] = q /\ len'["name"] = x - q /\ off'["value"] = -1 /\ len'["value"] = 0
    BY <1>0, <1>1, <2>4 DEF ForgottenOff, ForgottenLen
  <2>6. NameAt(r, q, x + 1)
    BY <2>1, <2>2 DEF NameAt
  <2>7. (InName(r, y) \/ Waiting(r, y))'
    BY <2>4, <2>5, <2>6, BehindName
  <2>8. HeadersKept(headers, r, y)'
    <3>1. PICK hs : hs = HeadersNow
      OBVIOUS
    <3>2. HeadersKept(hs, r, y)
      BY <1>0, <1>8, <1>9, <1>10, <2>4, <3>1, HeadersOn
    <3>. QED BY <3>1, <3>2, HeadersSame
  <2>. QED BY <1>5, <2>4, <2>7, <2>8 DEF Noted
<1>. QED BY <1>11, <1>12, <1>13 DEF Noted

(* on_header_value; the value is not empty. *)
LEMMA ValuePassed ==
  ASSUME TypeOK, NEW r, NEW q \in Nat, NEW x \in Nat, q <= x,
         NEW y \in {x, x + 1}, WalkTo(r, y), Noted(r, q),
         \A i \in q + 1 .. x : r[i].k \in ValueKind, x # 0, r[x].k \in ValueKind,
         y = x + 1 => After(r[x + 1].k) \notin Field,
         headers' = headers, cur' = cur,
         Accumulate("value", q, x - q, off, len)
  PROVE  Noted(r, y)'
<1>0. /\ y \in Nat /\ q <= y /\ Len(headers) \in Nat
      /\ off \in [Part -> Nat \cup {-1}] /\ len \in [Part -> Nat]
      /\ Field \in SUBSET Part /\ "name" \in Field /\ "value" \in Field
  BY SMTT(40) DEF TypeOK, Part, Field
<1>1. /\ off'["value"] = IF off["value"] < 0 THEN q ELSE off["value"]
      /\ len'["value"] = IF off["value"] < 0 THEN x - q ELSE len["value"] + (x - q)
      /\ \A g \in Field : g # "value" => off'[g] = off[g] /\ len'[g] = len[g]
  BY <1>0 DEF Accumulate, Part, Field
<1>2. y = x + 1 => r[x + 1].k = "crlf"
  <2>1. r[x + 1].k \in ValueKind \cup {"crlf"} /\ After(r[x + 1].k) \notin Field
          => r[x + 1].k = "crlf"
    BY DEF After, Field, ValueKind
  <2>2. ASSUME y = x + 1 PROVE r[x + 1].k \in ValueKind \cup {"crlf"}
    <3>1. y \in Nat /\ WalkTo(r, y) /\ x \in Nat /\ x + 1 <= y
      BY <1>0, <2>2
    <3>2. x # 0 /\ r[x].k \in ValueKind
      OBVIOUS
    <3>. QED BY ONLY <3>1, <3>2, NextKind
  <2>. QED BY <2>1, <2>2
<1>3. \A i \in q + 1 .. y : r[i].k \notin {"path", "query", "colon"}
  <2>1. \A i \in q + 1 .. x : r[i].k \notin {"path", "query", "colon"}
    BY DEF ValueKind
  <2>. QED BY <1>2, <2>1
<1>4. \A g \in {"path", "query"} : Extended(g, r, y)'
  <2>. SUFFICES ASSUME NEW g \in {"path", "query"} PROVE Extended(g, r, y)'
    OBVIOUS
  <2>1. /\ Extended(g, r, q) /\ off[g] \in Int /\ len[g] \in Nat
        /\ off'[g] = off[g] /\ len'[g] = len[g]
    BY <1>0, <1>1 DEF Noted, Field
  <2>2. \A i \in q + 1 .. y : r[i].k # g
    BY <1>3
  <2>. QED BY <1>0, <2>1, <2>2, ExtendedOn
<1>5. HeadersKept(headers, r, y)'
  <2>1. HeadersKept(headers, r, q)
    BY DEF Noted
  <2>2. HeadersKept(headers, r, y)
    BY <1>0, <1>3, <2>1, HeadersOn
  <2>. QED BY <2>2, HeadersSame
<1>6. q # 0 /\ r[q].k \in {"colon"} \cup ValueKind
  <2>1. CASE q = x
    BY <2>1
  <2>2. CASE q < x
    <3>1. q + 1 \in q + 1 .. x /\ q + 1 <= y
      BY <1>0, <2>2
    <3>2. r[q + 1].k \in ValueKind
      BY <3>1
    <3>. QED BY <1>0, <3>1, <3>2, NextKind
  <2>. QED BY <2>1, <2>2
<1>7. Waiting(r, q)
  <2>1. ~InName(r, q) /\ ~NoHeader(r, q)
    BY <1>6, LastKind DEF Request, ValueKind, VersionKind
  <2>. QED BY <2>1 DEF Noted
<1>8. PICK l \in 1 .. q, e \in {q, q + 1} :
        /\ r[l].k = "colon" /\ Len(headers) + 1 = Cardinality(Colons(r, q))
        /\ NameAt(r, off["name"], l) /\ len["name"] = l - 1 - off["name"]
        /\ ValueAt(r, l, e) /\ (e = q => r[e].k = "crlf")
        /\ IF e = l + 1 THEN q = l /\ off["value"] = -1 /\ len["value"] = 0
           ELSE off["value"] = l /\ len["value"] = e - 1 - l
  BY <1>7 DEF Waiting
<1>9. e = q + 1
  BY <1>6, <1>8 DEF ValueKind
<1>10. l < x
  <2>1. r[x].k # "colon"
    BY DEF ValueKind
  <2>. QED BY <1>8, <2>1
<1>11. off'["value"] = l /\ len'["value"] = x - l
  <2>1. CASE e = l + 1
    BY <1>1, <1>8, <1>9, <2>1
  <2>2. CASE e # l + 1
    BY <1>0, <1>1, <1>8, <1>9, <2>2
  <2>. QED BY <2>1, <2>2
<1>12. ValueAt(r, l, x + 1)
  <2>1. \A i \in l + 1 .. q : r[i].k \in ValueKind
    BY <1>8, <1>9 DEF ValueAt
  <2>2. \A i \in l + 1 .. x : r[i].k \in ValueKind
    BY <2>1
  <2>. QED BY <1>10, <2>2 DEF ValueAt
<1>13. Waiting(r, y)'
  <2>1. Colons(r, y) = Colons(r, q)
    BY <1>0, <1>3, ColonCount
  <2>. DEFINE z == x + 1
  <2>2. /\ l \in 1 .. y /\ z \in {y, y + 1} /\ (z = y => r[z].k = "crlf")
        /\ z # l + 1 /\ x - l = z - 1 - l /\ ValueAt(r, l, z)
    BY <1>0, <1>2, <1>10, <1>12
  <2>. HIDE DEF z
  <2>3. off'["name"] = off["name"] /\ len'["name"] = len["name"]
    BY <1>0, <1>1
  <2>4. /\ r[l].k = "colon" /\ Len(headers') + 1 = Cardinality(Colons(r, y))
        /\ NameAt(r, off'["name"], l) /\ len'["name"] = l - 1 - off'["name"]
        /\ ValueAt(r, l, z) /\ (z = y => r[z].k = "crlf")
        /\ IF z = l + 1 THEN y = l /\ off'["value"] = -1 /\ len'["value"] = 0
           ELSE off'["value"] = l /\ len'["value"] = z - 1 - l
    BY <1>8, <1>11, <2>1, <2>2, <2>3
  <2>. QED BY <2>2, <2>4 DEF Waiting
<1>. QED BY <1>4, <1>5, <1>13 DEF Noted

(* The cells that are read next are spared as well. *)
LEMMA IntactOn ==
  ASSUME NEW m, NEW r, NEW n \in Nat, NEW x \in Nat, Intact(m, r, n),
         x = n \/ (x = n + 1 /\ m[n] = <<cur, n + 1>>), cur' = cur, mem' = m
  PROVE  Intact(mem, r, x)'
<1>1. ASSUME NEW i \in 1 .. x, After(r[i].k) \in Field PROVE mem'[i - 1] = <<cur, i>>
  <2>1. CASE i \in 1 .. n
    BY <1>1, <2>1 DEF Intact
  <2>2. CASE i \notin 1 .. n
    <3>1. x = n + 1 /\ i = n + 1 /\ i - 1 = n
      BY <2>2
    <3>. QED BY <3>1
  <2>. QED BY <2>1, <2>2
<1>. QED BY <1>1 DEF Intact

(* How far the head has been passed on. *)
LEMMA NotedBound ==
  ASSUME ParserTypeOK, ParserInv, NEW r \in Seq(Cell), AmidHead(r) \/ BehindHead(r)
  PROVE  HeadRead(r) \in 0 .. p /\ HeadNoted(r) \in 0 .. HeadRead(r)
<1>1. p \in Nat /\ markAt \in Nat /\ (field # None => markAt <= p)
  BY DEF ParserTypeOK, ParserInv, MarkInv
<1>2. HeadRead(r) \in 0 .. p
  BY <1>1 DEF HeadRead
<1>3. AmidHead(r) => HeadRead(r) = p
  BY <1>1, HeadStops DEF AmidHead
<1>4. BehindHead(r) => field = None
  BY DEF BehindHead
<1>. QED BY <1>1, <1>2, <1>3, <1>4 DEF HeadNoted

(* A value that is passed on without a byte is empty. *)
LEMMA EmptyValue ==
  ASSUME NEW r \in Seq(Cell), EachValued(r), HeadEnd(r) # 0, NEW n \in Nat \ {0},
         \A i \in 1 .. n : r[i].k # "end", n + 1 <= Len(r),
         r[n].k = "colon", r[n + 1].k = "crlf"
  PROVE  FALSE
<1>1. HeadEnd(r) \in Nat /\ n <= HeadEnd(r)
  <2>1. HeadEnd(r) \in Nat
    BY HeadEndType
  <2>2. HeadEnd(r) \notin 1 .. n
    BY HeadStops
  <2>. QED BY <2>1, <2>2
<1>2. n \in InHead(r, {"colon"})
  BY <1>1 DEF InHead, Places
<1>3. PICK i \in ValuePlaces(r, n) : TRUE
  BY <1>2 DEF EachValued
<1>4. i \in Nat /\ i > n /\ \A j \in n + 1 .. i : r[j].k \in ValueKind
  BY <1>3 DEF ValuePlaces, InHead, Places
<1>5. n + 1 \in n + 1 .. i
  BY <1>4
<1>. QED BY <1>4, <1>5 DEF ValueKind

(* A step of the parser in the first request, with its callback, that does *)
(* not call the application.                                               *)
LEMMA MovedStep ==
  ASSUME IInv, NEW r \in Seq(Cell), NEW c \in Cell, ParserStep(c), Handle(Callback(c)),
         ~dispatch, Moved(r, Callback(c)), Walk(r)', AmidHead(r) \/ BehindHead(r),
         cur' = cur, cur # NoClient, pe <= Len(r), p < pe => mem[p] = <<cur, p + 1>>,
         HeadEnd(r) # 0, EachValued(r), Intact(mem, r, HeadRead(r)), Noted(r, HeadNoted(r)),
         Callback(c).on \in Field => \A i \in 1 .. p : r[i].k # "end"
  PROVE  (Intact(mem, r, HeadRead(r)) /\ Noted(r, HeadNoted(r)))'
<1>0. /\ TypeOK /\ p \in Nat /\ pe \in Nat /\ p <= pe /\ pe <= bufferSize /\ bufferSize \in Nat
      /\ HeadRead(r) \in 0 .. p /\ HeadNoted(r) \in 0 .. HeadRead(r)
      /\ off \in [Part -> Nat \cup {-1}] /\ len \in [Part -> Nat] /\ Field \in SUBSET Part
      /\ "body" \notin Field /\ None \notin Field
  BY NotedBound DEF IInv, TypeOK, ParserTypeOK, LoopInv, ParserInv, MarkInv, Part, Field, None
<1>1. PICK q \in Nat, n \in Nat : q = HeadNoted(r) /\ n = HeadRead(r)
  BY <1>0
<1>2. PICK y, z : y = HeadNoted(r)' /\ z = HeadRead(r)'
  OBVIOUS
<1>3. z = n \/ (n = p /\ p < pe /\ z = n + 1)
  BY <1>1, <1>2 DEF Moved, ReadUp
<1>4. z \in Nat
  BY <1>0, <1>3
<1>5. WalkTo(r, z)
  BY <1>2 DEF Walk, WalkTo
<1>6. Noted(r, q) /\ Intact(mem, r, n)
  BY <1>1
<1>. SUFFICES Intact(mem, r, z)' /\ Noted(r, y)'
  <2>1. Intact(mem, r, z)' => Intact(mem, r, HeadRead(r))'
    BY <1>2 DEF Intact
  <2>2. Noted(r, y)' => Noted(r, HeadNoted(r))'
    <3>1. y = HeadNoted(r)'
      BY <1>2
    <3>. QED BY <3>1
  <2>. QED BY <2>1, <2>2
<1>7. mem' = mem => Intact(mem, r, z)'
  <2>. SUFFICES ASSUME mem' = mem PROVE Intact(mem, r, z)'
    OBVIOUS
  <2>1. PICK m : m = mem
    OBVIOUS
  <2>2. (z = n \/ (z = n + 1 /\ m[n] = <<cur, n + 1>>)) /\ Intact(m, r, n) /\ mem' = m
    BY <1>3, <1>6, <2>1
  <2>. QED BY <1>4, <2>2, IntactOn
<1>8. CASE Quiet(r, Callback(c))
  <2>1. y = q
    BY <1>1, <1>2, <1>8 DEF Quiet
  <2>2. /\ mem' = mem /\ headers' = headers
        /\ \A g \in Field : off'[g] = off[g] /\ len'[g] = len[g]
    <3>1. CASE Callback(c).on = None
      BY <3>1 DEF Handle, None, on_data, on_header_field, dataVars
    <3>2. CASE Callback(c).on = "body"
      <4>1. on_data(Callback(c))
        BY <3>2 DEF Handle, None
      <4>. QED BY <1>0, <3>2, <4>1 DEF on_data, Accumulate
    <3>3. CASE Callback(c).on = "headers_complete"
      BY <3>3 DEF Handle, None, on_headers_complete, dataVars
    <3>. QED BY <1>8, <3>1, <3>2, <3>3 DEF Quiet
  <2>3. Noted(r, q)'
    BY <1>0, <1>6, <2>2, NotedSame
  <2>. QED BY <1>7, <2>1, <2>2, <2>3
<1>9. CASE Silent(r, Callback(c))
  <2>1. y = q + 1 /\ z = q + 1 /\ r[y].k \in {"star"} \cup VersionKind
    BY <1>1, <1>2, <1>9 DEF Silent
  <2>2. mem' = mem /\ headers' = headers /\ off' = off /\ len' = len
    BY <1>9 DEF Silent, Handle, None, dataVars
  <2>3. Noted(r, y)'
    BY <1>0, <1>4, <1>5, <1>6, <2>1, <2>2, SilentOn
  <2>. QED BY <1>7, <2>2, <2>3
<1>10. CASE Begun(r, Callback(c))
  <2>1. q = 0 /\ y = 1 /\ r[1].k = "method"
    BY <1>1, <1>2, <1>10 DEF Begun
  <2>2. mem' = mem /\ headers' = <<>> /\ off' = off /\ len' = len
    BY <1>10 DEF Begun, Handle, None, on_message_begin
  <2>3. Noted(r, 0)
    BY <1>6, <2>1
  <2>4. Noted(r, 1)'
    BY <1>0, <2>1, <2>2, <2>3, BegunOn
  <2>. QED BY <1>7, <2>1, <2>2, <2>4
<1>11. ASSUME NEW f \in Field, Passed(r, Callback(c), f)
       PROVE  Intact(mem, r, z)' /\ Noted(r, y)'
  <2>1. /\ Callback(c).on = f /\ Callback(c).at = q /\ Callback(c).length = p - q
        /\ n = p /\ q <= p /\ z = y /\ y \in {p, p + 1}
        /\ \A i \in q + 1 .. p : After(r[i].k) = f
        /\ y = p + 1 => p < pe /\ After(r[p + 1].k) \notin Field
        /\ \/ p # 0 /\ After(r[p].k) = f
           \/ /\ q = p /\ y = p + 1
              /\ \/ f = "query" /\ r[p + 1].k \in VersionKind
                 \/ f = "value" /\ p \in Nat \ {0} /\ r[p].k = "colon" /\ r[p + 1].k = "crlf"
    BY <1>0, <1>1, <1>2, <1>11 DEF Passed
  <2>2. WalkTo(r, y)
    BY <1>5, <2>1
  <2>3. \/ p # 0 /\ After(r[p].k) = f
        \/ q = p /\ y = p + 1 /\ f = "query" /\ r[p + 1].k \in VersionKind
    <3>1. ~(f = "value" /\ y = p + 1 /\ p \in Nat \ {0} /\ r[p].k = "colon" /\ r[p + 1].k = "crlf")
      BY <1>0, <2>1, EmptyValue
    <3>. QED BY <2>1, <3>1
  <2>4. CASE f \in {"path", "query"}
    <3>1. on_data(Callback(c))
      BY <2>1, <2>4 DEF Handle, None, Field
    <3>2. Accumulate(f, q, p - q, off, len) /\ headers' = headers /\ mem' = mem
      BY <2>1, <3>1 DEF on_data
    <3>3. \A i \in q + 1 .. p : r[i].k = f
      BY <2>1, <2>4, AfterIs
    <3>4. \/ p # 0 /\ r[p].k = f
          \/ q = p /\ y = p + 1 /\ f = "query" /\ r[p + 1].k \in VersionKind
      BY <2>3, <2>4, AfterIs
    <3>5. Noted(r, y)'
      BY ZenonT(40), <1>0, <1>6, <2>1, <2>2, <2>4, <3>2, <3>3, <3>4, PartPassed
    <3>. QED BY <1>7, <3>2, <3>5
  <2>5. CASE f = "name"
    <3>1. on_header_field(Callback(c))
      BY <2>1, <2>5 DEF Handle, None
    <3>2. /\ Accumulate("name", q, p - q, ForgottenOff, ForgottenLen)
          /\ headers' = HeadersNow /\ mem' = HeaderMem
      BY <2>1, <3>1 DEF on_header_field
    <3>3. \A i \in q + 1 .. p : r[i].k = "name"
      BY <2>1, <2>5, AfterIs
    <3>4. p # 0 /\ r[p].k = "name"
      BY <2>3, <2>5, AfterIs
    <3>5. Noted(r, y)' /\ Intact(HeaderMem, r, p)
      <4>1. p <= bufferSize /\ Intact(mem, r, p)
        BY <1>0, <1>6, <2>1
      <4>. QED BY <1>0, <1>6, <2>1, <2>2, <3>2, <3>3, <3>4, <4>1, NamePassed
    <3>6. y = p + 1 => HeaderMem[p] = <<cur, p + 1>>
      <4>1. Ahead(HeaderMem)
        BY <3>2, HandledAhead
      <4>2. y = p + 1 => p \in p .. bufferSize - 1
        BY <1>0, <2>1
      <4>. QED BY <2>1, <4>1, <4>2 DEF Ahead
    <3>7. Intact(mem, r, y)'
      <4>1. PICK m : m = HeaderMem
        OBVIOUS
      <4>2. (y = p \/ (y = p + 1 /\ m[p] = <<cur, p + 1>>)) /\ Intact(m, r, p) /\ mem' = m
        BY <2>1, <3>2, <3>5, <3>6, <4>1
      <4>3. y \in Nat
        BY <1>4, <2>1
      <4>. QED BY <1>0, <4>2, <4>3, IntactOn
    <3>. QED BY <2>1, <3>5, <3>7
  <2>6. CASE f = "value"
    <3>1. on_data(Callback(c))
      BY <2>1, <2>6 DEF Handle, None
    <3>2. Accumulate("value", q, p - q, off, len) /\ headers' = headers /\ mem' = mem
      BY <2>1, <2>6, <3>1 DEF on_data
    <3>3. \A i \in q + 1 .. p : r[i].k \in ValueKind
      BY <2>1, <2>6, AfterIs
    <3>4. p # 0 /\ r[p].k \in ValueKind
      BY <2>3, <2>6, AfterIs
    <3>5. Noted(r, y)'
      BY <1>0, <1>6, <2>1, <2>2, <3>2, <3>3, <3>4, ValuePassed
    <3>. QED BY <1>7, <3>2, <3>5
  <2>. QED BY <2>4, <2>5, <2>6 DEF Field
<1>. QED BY <1>8, <1>9, <1>10, <1>11 DEF Moved

(* A step of the server that leaves the parser where it stands. *)
LEMMA HeadStill ==
  ASSUME IInv, NEW r \in Seq(Cell), HeadAt(r),
         UNCHANGED <<p, cur, off, len, headers>>,
         \A i \in 0 .. p - 1 : mem'[i] = mem[i],
         HeadNoted(r)' = HeadNoted(r), (AmidHead(r) \/ BehindHead(r))'
  PROVE  HeadAt(r)'
<1>0. /\ TypeOK /\ p \in Nat /\ HeadRead(r) \in 0 .. p /\ HeadNoted(r) \in Nat
  <2>1. HeadRead(r) \in 0 .. p /\ HeadNoted(r) \in 0 .. HeadRead(r)
    BY NotedBound DEF IInv, TypeOK, HeadAt
  <2>. QED BY <2>1 DEF IInv, TypeOK, ParserTypeOK
<1>1. HeadRead(r)' = HeadRead(r)
  BY DEF HeadRead
<1>2. Walk(r)'
  BY <1>1 DEF HeadAt, Walk, WalkTo
<1>3. ASSUME HeadEnd(r) # 0, EachValued(r)
      PROVE  (Intact(mem, r, HeadRead(r)) /\ Noted(r, HeadNoted(r)))'
  <2>1. Intact(mem, r, HeadRead(r)) /\ Noted(r, HeadNoted(r))
    BY <1>3 DEF HeadAt
  <2>2. PICK q \in Nat, n \in 0 .. p : q = HeadNoted(r) /\ n = HeadRead(r)
    BY <1>0
  <2>3. Intact(mem, r, n)'
    <3>1. ASSUME NEW i \in 1 .. n, After(r[i].k) \in Field PROVE mem'[i - 1] = <<cur, i>>
      <4>1. mem[i - 1] = <<cur, i>>
        BY <2>1, <2>2, <3>1 DEF Intact
      <4>2. i - 1 \in 0 .. p - 1
        BY <1>0, <2>2
      <4>. QED BY <4>1, <4>2
    <3>. QED BY <3>1 DEF Intact
  <2>4. Noted(r, q)'
    BY <1>0, <2>1, <2>2, NotedSame
  <2>5. q = HeadNoted(r)' /\ n = HeadRead(r)'
    BY <1>1, <2>2
  <2>6. Intact(mem, r, HeadRead(r))'
    BY <2>3, <2>5 DEF Intact
  <2>. QED BY <2>4, <2>5, <2>6
<1>. QED BY <1>2, <1>3 DEF HeadAt

(* The parser of a new connection. *)
LEMMA HeadBegins ==
  ASSUME NEW r \in Seq(Cell), cs' = "start", step' = "idle", p' = 0, field' = None, flags' = {},
         headers' = <<>>, off' = [f \in Part |-> -1], len' = [f \in Part |-> 0]
  PROVE  HeadAt(r)'
<1>0. Field \in SUBSET Part /\ "path" \in Field /\ "query" \in Field /\ "name" \in Field
      /\ "value" \in Field
  BY DEF Part, Field
<1>1. HeadRead(r)' = 0 /\ HeadNoted(r)' = 0
  <2>1. HeadRead(r)' = 0
    BY DEF HeadRead
  <2>. QED BY <2>1 DEF HeadNoted
<1>2. Walk(r)'
  BY <1>1 DEF Walk, WalkTo
<1>3. AmidHead(r)'
  BY DEF AmidHead, StateAfter
<1>4. Intact(mem, r, HeadRead(r))'
  BY <1>1 DEF Intact
<1>5. Noted(r, HeadNoted(r))'
  <2>1. Noted(r, 0)'
    <3>1. Extended("path", r, 0)' /\ Extended("query", r, 0)'
      BY <1>0 DEF Extended
    <3>2. Colons(r, 0)' = {}
      BY DEF Colons
    <3>3. HeadersKept(headers, r, 0)'
      BY <3>2 DEF HeadersKept
    <3>4. NoHeader(r, 0)'
      BY <1>0 DEF NoHeader
    <3>. QED BY <3>1, <3>3, <3>4 DEF Noted
  <2>. QED BY <1>1, <2>1
<1>. QED BY <1>2, <1>3, <1>4, <1>5 DEF HeadAt

(* A step of the parser in the first request. *)
LEMMA HeadExecuted ==
  ASSUME IInv, AnswerInv, PositionInv, HeadInv, Execute, calls'[cur] = <<>>,
         ~http_parser_has_error', NEW r, r = request[cur], r \in Seq(Cell)
  PROVE  HeadAt(r)'
<1>1. /\ pc = "exec" /\ cur \in Clients /\ Here \in Cell /\ step # "idle"
      /\ ParserStep(Here) /\ Handle(Callback(Here)) /\ cur' = cur /\ cur # NoClient
  BY ExecuteFrame, JillAssumption DEF Execute
<1>2. /\ pe \in Nat /\ pe <= Len(r) /\ p \in Nat /\ p <= pe
      /\ p < pe => Here = r[p + 1] /\ mem[p] = <<cur, p + 1>>
      /\ ParserTypeOK /\ ParserInv
  <2>1. pe <= sent[cur] /\ sent[cur] <= Len(r) /\ sent[cur] \in Nat /\ pe \in Nat /\ p \in Nat
    BY <1>1 DEF IInv, LoopInv, TypeOK, SocketsTypeOK, ParserTypeOK
  <2>2. p < pe => mem[p] = <<cur, p + 1>>
    BY <1>1, <2>1 DEF PositionInv
  <2>. QED BY SMTT(40), <1>1, <2>1, <2>2, HereInOrder DEF IInv, TypeOK, ParserInv, MarkInv
<1>3. calls[cur] = <<>> /\ ~complete /\ ~dispatch
  <2>1. calls \in [Clients -> Seq(CallOfApp)]
    BY DEF IInv, TypeOK
  <2>2. Append(calls[cur], AppCall) # <<>>
    BY <1>1, <2>1, LongerThanNothing
  <2>3. complete => calls[cur] # <<>> /\ calls' = calls
    BY <1>1, ExecuteFrame DEF AnswerInv, Serving
  <2>4. ~complete /\ dispatch => calls'[cur] # <<>>
    BY <1>1, <2>1, <2>2 DEF dispatch
  <2>5. ~complete
    BY <2>3
  <2>. QED BY <1>1, <2>4, <2>5 DEF AnswerInv, Serving
<1>4. /\ Callback(Here).on # "message_complete"
      /\ Callback(Here).on = "headers_complete" => content_length >= 0
  BY <1>1, <1>2, <1>3 DEF Handle, on_message_complete, on_headers_complete, None, ParserTypeOK
<1>5. "ERROR" \notin flags /\ ~http_parser_has_error
  BY <1>1, <1>2, ErrorStays DEF HeadInv, Serving
<1>6. HeadAt(r)
  BY <1>1, <1>3, <1>5 DEF HeadInv, Serving
<1>7. (AmidHead(r) \/ BehindHead(r))' /\ Walk(r)' /\ Moved(r, Callback(Here))
  <2>1. CASE AmidHead(r)
    BY <1>1, <1>2, <1>4, <1>5, <1>6, <2>1, AmidStep DEF HeadAt
  <2>2. CASE BehindHead(r)
    BY <1>1, <1>2, <1>4, <1>5, <1>6, <2>2, BehindStep DEF HeadAt
  <2>. QED BY <1>6, <2>1, <2>2 DEF HeadAt
<1>8. Callback(Here).on \in Field => \A i \in 1 .. p : r[i].k # "end"
  <2>1. ASSUME Callback(Here).on \in Field, BehindHead(r) PROVE FALSE
    <3>1. HeadRead(r) < p
      BY <1>2, <2>1 DEF BehindHead, HeadRead
    <3>2. \E f \in Field : Passed(r, Callback(Here), f)
      BY <1>7, <2>1 DEF Moved, Quiet, Silent, Begun, Field, None
    <3>. QED BY <1>2, <3>1, <3>2 DEF Passed
  <2>. QED BY <1>6, <2>1 DEF HeadAt, AmidHead
<1>9. ASSUME HeadEnd(r) # 0, EachValued(r)
      PROVE  (Intact(mem, r, HeadRead(r)) /\ Noted(r, HeadNoted(r)))'
  BY <1>1, <1>2, <1>3, <1>6, <1>7, <1>8, <1>9, MovedStep DEF HeadAt
<1>. QED BY <1>7, <1>9 DEF HeadAt

(* The parser is given what recv() put into the buffer. *)
LEMMA HeadReceived ==
  ASSUME IInv, PositionInv, Recv, NEW r \in Seq(Cell), HeadAt(r)
  PROVE  HeadAt(r)'
<1>1. /\ pc = "recv" /\ UNCHANGED <<cur, off, len, headers, cs, field, flags, content_length>>
      /\ p' = bufferPosition /\ step = "idle" /\ mem' = Received(recved')
      /\ step' = IF "EAT_FOREVER" \in flags THEN "eat_forever"
                 ELSE IF chunk_size > 0 /\ "EATING" \in flags THEN "skip" ELSE "exec"
      /\ markAt' = IF field = None \/ "EAT_FOREVER" \in flags THEN markAt ELSE bufferPosition
  BY DEF Recv, http_parser_execute, lengthVars
<1>2. p' = p /\ p \in Nat
  BY <1>1 DEF PositionInv, IInv, TypeOK, ParserTypeOK
<1>3. \A i \in 0 .. p - 1 : mem'[i] = mem[i]
  <2>1. DOMAIN mem = 0 .. bufferSize - 1 /\ p <= bufferSize /\ bufferSize \in Nat /\ pe \in Nat
    BY <1>1 DEF IInv, TypeOK, ParserTypeOK, LoopInv, ParserInv, MarkInv
  <2>. QED BY <1>1, <1>2, <2>1 DEF Received
<1>4. AmidHead(r) => AmidHead(r)' /\ HeadNoted(r) = p /\ HeadNoted(r)' = p
  <2>. SUFFICES ASSUME AmidHead(r) PROVE AmidHead(r)' /\ HeadNoted(r) = p /\ HeadNoted(r)' = p
    OBVIOUS
  <2>1. step' = "exec" /\ (field # None => markAt' = p)
    BY <1>1, <1>2 DEF AmidHead
  <2>2. HeadRead(r) = p
    BY <1>2, HeadStops DEF AmidHead
  <2>3. HeadRead(r)' = p
    BY <1>2, <2>2 DEF HeadRead
  <2>4. HeadNoted(r) = p /\ HeadNoted(r)' = p
    BY <1>1, <2>1, <2>2, <2>3 DEF HeadNoted
  <2>. QED BY <1>1, <1>2, <2>1, <2>4 DEF AmidHead, StateAfter
<1>5. BehindHead(r) => BehindHead(r)' /\ HeadNoted(r)' = HeadNoted(r)
  <2>. SUFFICES ASSUME BehindHead(r) PROVE BehindHead(r)' /\ HeadNoted(r)' = HeadNoted(r)
    OBVIOUS
  <2>1. "EATING" \in flags => chunk_size > 0
    BY DEF IInv, ParserInv, EatInv
  <2>2. HeadRead(r)' = HeadRead(r) /\ field' = None /\ field = None
    BY <1>1, <1>2 DEF HeadRead, BehindHead
  <2>. QED BY <1>1, <1>2, <2>1, <2>2 DEF BehindHead, HeadNoted, StateAfter, ChunkState
<1>6. AmidHead(r) \/ BehindHead(r)
  BY DEF HeadAt
<1>. QED BY <1>1, <1>2, <1>3, <1>4, <1>5, <1>6, HeadStill

(* Every step of the system keeps HeadInv. *)
LEMMA HeadStep ==
  ASSUME IInv, AnswerInv, PositionInv, HeadInv, [Next]_vars
  PROVE  HeadInv'
<1>0. ASSUME NEW c \in Clients PROVE request[c] \in Seq(Cell)
  BY SocketsAssumption DEF IInv, TypeOK, SocketsTypeOK
<1>1. CASE Accept
  <2>1. /\ cur' = Head(queue) /\ queue # <<>> /\ request' = request /\ p' = 0 /\ step' = "idle"
        /\ cs' = "start" /\ flags' = {} /\ field' = None
        /\ headers' = <<>> /\ off' = [f \in Part |-> -1] /\ len' = [f \in Part |-> 0]
    BY <1>1 DEF Accept, AcceptConnection, http_parser_init, NewData
  <2>2. PICK r : r = request[Head(queue)]
    OBVIOUS
  <2>3. r \in Seq(Cell)
    BY <1>0, <2>1, <2>2 DEF IInv, TypeOK, SocketsTypeOK
  <2>4. HeadAt(r)'
    BY <2>1, <2>3, HeadBegins
  <2>5. r = request'[cur']
    BY <2>1, <2>2
  <2>. QED BY <2>1, <2>4, <2>5 DEF HeadInv
<1>2. CASE Execute
  <2>1. /\ pc = "exec" /\ cur \in Clients /\ Here \in Cell /\ step # "idle"
        /\ ParserStep(Here) /\ cur' = cur /\ request' = request
        /\ ParserTypeOK /\ ParserInv
    BY <1>2, ExecuteFrame DEF Execute, IInv, TypeOK
  <2>2. "ERROR" \in flags' => step' = "idle"
    BY <2>1, ErrorStays DEF HeadInv, Serving
  <2>3. PICK r : r = request[cur]
    OBVIOUS
  <2>4. calls'[cur] = <<>> /\ ~http_parser_has_error' => HeadAt(r)'
    BY <1>0, <1>2, <2>1, <2>3, HeadExecuted
  <2>5. r = request'[cur']
    BY <2>1, <2>3
  <2>. QED BY <2>1, <2>2, <2>4, <2>5 DEF HeadInv
<1>3. CASE Recv
  <2>1. /\ pc = "recv" /\ cur \in Clients /\ UNCHANGED <<request, cur, calls, cs, flags>>
    BY <1>3 DEF Recv, http_parser_execute, lengthVars, socketVars, replyVars, IInv, LoopInv, Serving
  <2>2. ~http_parser_has_error
    BY <2>1 DEF PositionInv
  <2>3. PICK r : r = request[cur]
    OBVIOUS
  <2>4. calls[cur] = <<>> => HeadAt(r)'
    <3>1. calls[cur] = <<>> => HeadAt(r)
      BY <2>1, <2>2, <2>3 DEF HeadInv, Serving
    <3>. QED BY <1>0, <1>3, <2>1, <2>3, <3>1, HeadReceived
  <2>5. r = request'[cur']
    BY <2>1, <2>3
  <2>. QED BY <2>1, <2>2, <2>4, <2>5 DEF HeadInv, http_parser_has_error
<1>4. CASE \/ RecvError \/ CloseClient \/ AcceptError \/ OutOfMemory \/ Start
  BY <1>4 DEF RecvError, CloseClient, Close, AcceptError, OutOfMemory, Start, HeadInv, Serving
<1>5. ASSUME UNCHANGED <<parserVars, cur, request, calls, off, len, headers>>,
             \A i \in 0 .. p - 1 : mem'[i] = mem[i], Serving' => Serving
      PROVE  HeadInv'
  <2>. SUFFICES ASSUME Serving' PROVE HeadInv'
    BY DEF HeadInv
  <2>1. PICK r : r = request[cur]
    OBVIOUS
  <2>2. cur \in Clients /\ r \in Seq(Cell)
    BY <1>0, <1>5, <2>1 DEF IInv, LoopInv
  <2>3. HeadAt(r) => HeadAt(r)'
    <3>. SUFFICES ASSUME HeadAt(r) PROVE HeadAt(r)'
      OBVIOUS
    <3>1. HeadNoted(r)' = HeadNoted(r)
      BY <1>5 DEF parserVars, markVars, HeadNoted, HeadRead
    <3>2. (AmidHead(r) \/ BehindHead(r))'
      BY <1>5 DEF parserVars, HeadAt, AmidHead, BehindHead
    <3>. QED BY <1>5, <2>2, <3>1, <3>2, HeadStill DEF parserVars
  <2>4. r = request'[cur']
    BY <1>5, <2>1
  <2>. QED BY <1>5, <2>1, <2>3, <2>4 DEF HeadInv, parserVars, http_parser_has_error
<1>6. CASE Realloc
  <2>1. p \in Nat /\ p <= bufferSize /\ bufferSize \in Nat /\ pe \in Nat
    BY DEF IInv, TypeOK, ParserTypeOK, LoopInv, ParserInv, MarkInv
  <2>2. /\ mem' = [i \in 0 .. 2 * bufferSize - 1 |-> IF i < bufferSize THEN mem[i] ELSE Junk]
        /\ UNCHANGED <<parserVars, cur, request, calls, off, len, headers>>
        /\ pc = "room" /\ pc' = "recv"
    BY <1>6 DEF Realloc, socketVars, replyVars
  <2>3. \A i \in 0 .. p - 1 : mem'[i] = mem[i]
    BY <2>1, <2>2
  <2>. QED BY <1>5, <2>2, <2>3 DEF Serving
<1>7. CASE \/ HasRoom \/ ReadOn \/ App \/ Send \/ SendThrows \/ Responded \/ UNCHANGED vars
           \/ \E c \in Clients : Client(c)
  <2>1. UNCHANGED <<parserVars, cur, request, calls, off, len, headers, mem>>
    BY <1>7
       DEF HasRoom, ReadOn, App, Send, SendThrows, Responded, vars, jillVars, runVars, dataVars,
           replyVars, socketVars, TakePiece, Client, ClientStep, Connect, SendCell, HangUp,
           TakeAnswer
  <2>2. Serving' => Serving
    BY <1>7
       DEF HasRoom, ReadOn, App, Send, SendThrows, Responded, vars, jillVars, runVars, Serving,
           Client
  <2>. QED BY <1>5, <2>1, <2>2
<1>. QED BY <1>1, <1>2, <1>3, <1>4, <1>6, <1>7 DEF Next, Server

(* At first no request is served. *)
LEMMA InitHeadInv == Init => HeadInv
BY DEF Init, HeadInv, Serving

-----------------------------------------------------------------------------
(***************************************************************************)
(* The call of the application.                                            *)
(***************************************************************************)

(* Where the head ends when the application is called. *)
LEMMA CalledBehindHead ==
  ASSUME ParserTypeOK, ParserInv, NEW r \in Seq(Cell), pe <= Len(r), NEW c \in Cell,
         ParserStep(c), p < pe => c = r[p + 1], HeadAt(r),
         Callback(c).on \in {"headers_complete", "message_complete"}
  PROVE  /\ ~http_parser_has_error \/ "ERROR" \in flags
         /\ HeadEnd(r) \in 1 .. Len(r) /\ r[HeadEnd(r)].k = "end"
         /\ HeadRead(r) = HeadEnd(r) - 1 /\ HeadNoted(r) = HeadEnd(r) - 1
         /\ HeadEnd(r) - 1 <= p
         /\ StateAfter(r, HeadEnd(r) - 1) = "hdr"
<1>0. p \in Nat /\ pe \in Nat /\ p <= pe /\ Len(r) \in Nat /\ field = None
  BY CompleteStep DEF ParserTypeOK, ParserInv, MarkInv
<1>1. \/ Reading /\ cs = "hdr" /\ c.k = "end"
      \/ step \in {"end_request", "eat_forever"}
  BY DEF Callback, ReadingCall, FieldCall, BodyCall, EmptyField, Field, ParserTypeOK, Call, Notify,
         NoCall, None
<1>2. CASE Reading /\ cs = "hdr" /\ c.k = "end"
  <2>1. AmidHead(r) /\ p < pe
    BY <1>2 DEF HeadAt, BehindHead, ChunkState, Reading
  <2>. DEFINE h == p + 1
  <2>2. h \in 1 .. Len(r) /\ r[h].k = "end" /\ \A i \in 1 .. h - 1 : r[i].k # "end"
    BY <1>0, <1>2, <2>1 DEF AmidHead
  <2>3. h - 1 = p /\ h \in Nat
    BY <1>0
  <2>. HIDE DEF h
  <2>4. HeadEnd(r) = h
    BY <2>2, FirstEnd
  <2>5. HeadRead(r) = p /\ HeadNoted(r) = p
    BY <1>0, <2>1, HeadStops DEF AmidHead, HeadNoted
  <2>. QED BY <1>0, <1>2, <2>1, <2>2, <2>3, <2>4, <2>5 DEF AmidHead, http_parser_has_error
<1>3. CASE step \in {"end_request", "eat_forever"}
  <2>1. BehindHead(r)
    BY <1>3 DEF HeadAt, AmidHead
  <2>2. HeadEnd(r) \in 1 .. p /\ cs # "error"
    BY <2>1 DEF BehindHead, ChunkState
  <2>3. r[HeadEnd(r)].k = "end"
    <3>. DEFINE S == Places(r, {"end"})
    <3>1. S # {} /\ HeadEnd(r) = Least(S) /\ S \in SUBSET Nat
      BY <2>2 DEF HeadEnd, Places
    <3>2. Least(S) \in S
      <4>. HIDE DEF S
      <4>1. \E i \in S : \A j \in S : i <= j
        BY <3>1, LeastNumber
      <4>. QED BY <4>1 DEF Least
    <3>. QED BY <3>1, <3>2 DEF Places
  <2>4. HeadRead(r) = HeadEnd(r) - 1 /\ HeadNoted(r) = HeadEnd(r) - 1
    BY <1>0, <2>2 DEF HeadRead, HeadNoted
  <2>. QED BY <1>0, <2>1, <2>2, <2>3, <2>4 DEF BehindHead, http_parser_has_error
<1>. QED BY <1>1, <1>2, <1>3

(* The places in a head whose blank line is at q + 1. *)
LEMMA HeadPlaces ==
  ASSUME NEW r \in Seq(Cell), NEW q \in Nat, HeadEnd(r) = q + 1, q + 1 <= Len(r),
         r[q + 1].k = "end", NEW K, "end" \notin K
  PROVE  InHead(r, K) = {i \in 1 .. q : r[i].k \in K}
BY DEF InHead, Places

(* Path or query, when they are cut out of the buffer. *)
LEMMA PartCut ==
  ASSUME NEW r \in Seq(Cell), NEW q \in Nat, WalkTo(r, q), r[q + 1].k = "end",
         NEW f \in {"path", "query"}, Extended(f, r, q), cur # NoClient,
         bufferSize \in Nat, q <= bufferSize, NEW m \in Buffer, Intact(m, r, q),
         off[f] \in Nat, len[f] \in Nat, off[f] + len[f] < bufferSize
  PROVE  /\ Terminate(m, f) \in Buffer /\ Intact(Terminate(m, f), r, q)
         /\ CString(Terminate(m, f), off[f]) = Row(off[f], len[f])
<1>0. PICK o \in Nat, n \in Nat, z \in Nat : o = off[f] /\ n = len[f] /\ z = o + n
  OBVIOUS
<1>1. /\ o + n <= q /\ \A i \in 1 .. q : r[i].k = f <=> i \in o + 1 .. o + n
      /\ n = 0 => o < q /\ r[o + 1].k \in VersionKind
  BY <1>0 DEF Extended
<1>3. After(r[z + 1].k) \notin Field
  <2>1. CASE z = q
    BY <2>1 DEF After, Field, ValueKind
  <2>2. CASE z # q /\ n = 0
    <3>1. r[z + 1].k \in VersionKind
      BY <1>0, <1>1, <2>2
    <3>. QED BY <3>1 DEF After, Field, VersionKind, ValueKind
  <2>3. CASE z # q /\ n # 0
    <3>0. z = o + n /\ z < q /\ n > 0
      BY <1>0, <1>1, <2>3
    <3>1. z + 1 <= q /\ z \in 1 .. q /\ z \in o + 1 .. o + n /\ z + 1 \in 1 .. q
          /\ z + 1 \notin o + 1 .. o + n
      BY <3>0
    <3>2. r[z].k = f /\ r[z + 1].k # f
      BY <1>1, <3>1
    <3>3. r[z + 1].k \in Request
      <4>1. z # 0 /\ r[z].k \in {"path", "query"}
        BY <3>1, <3>2
      <4>. QED BY <3>1, <4>1, NextKind
    <3>4. r[z + 1].k \notin {"path", "query"}
      <4>1. /\ r[z + 1].k = "path" => r[z].k \in {"method", "path"}
            /\ r[z + 1].k = "query" => r[z].k \in {"qmark", "query"}
        BY <3>1, NextKind
      <4>. QED BY <3>2, <4>1
    <3>. QED BY <3>3, <3>4 DEF After, Field, Request, VersionKind, ValueKind
  <2>. QED BY <2>1, <2>2, <2>3
<1>. DEFINE w == [m EXCEPT ![z] = Nul]
<1>4. Terminate(m, f) = w
  BY <1>0 DEF Terminate
<1>5. z < bufferSize
  BY <1>0
<1>6. w \in Buffer /\ w[z] = Nul
  <2>1. Nul \in Byte /\ z \in 0 .. bufferSize - 1
    BY <1>5 DEF Byte
  <2>. QED BY <2>1 DEF Buffer
<1>7. \A i \in 0 .. bufferSize - 1 : i # z => w[i] = m[i]
  BY DEF Buffer
<1>. HIDE DEF w
<1>8. Intact(w, r, q)
  BY <1>3, <1>7, Sparing
<1>9. CString(w, o) = Row(o, n)
  <2>1. \A i \in o + 1 .. o + n : i \in 1 .. q /\ After(r[i].k) \in Field
    <3>1. ASSUME NEW i \in o + 1 .. o + n PROVE i \in 1 .. q /\ After(r[i].k) \in Field
      <4>1. i \in 1 .. q /\ r[i].k = f
        BY <1>1
      <4>. QED BY <4>1 DEF After, Field
    <3>. QED BY <3>1
  <2>2. w[o + n] = Nul /\ o + n < bufferSize
    BY <1>0, <1>5, <1>6
  <2>3. w \in Buffer /\ Intact(w, r, q)
    BY <1>6, <1>8
  <2>4. o \in Nat /\ n \in Nat /\ bufferSize \in Nat /\ cur # NoClient
    OBVIOUS
  <2>. QED BY ONLY <2>1, <2>2, <2>3, <2>4, CutOut
<1>. QED BY <1>0, <1>4, <1>6, <1>8, <1>9

(* Every header put into env has its colon. *)
LEMMA ColonOfPut ==
  ASSUME NEW r, NEW q \in Nat, NEW j \in 1 .. Cardinality(Colons(r, q))
  PROVE  \E l \in Colons(r, q) : Cardinality(Colons(r, l)) = j
<1>. DEFINE C == Colons(r, q)  n == Cardinality(C)
            place == [l \in C |-> Cardinality(Colons(r, l))]
            K == {place[l] : l \in C}
<1>1. IsFiniteSet(C) /\ n \in Nat
  BY ColonCount
<1>2. \A l \in C : l \in Nat /\ place[l] \in 1 .. n
  BY ColonOrder
<1>3. \A l, m \in C : place[l] = place[m] => l = m
  <2>. SUFFICES ASSUME NEW l \in C, NEW m \in C, l < m PROVE place[l] # place[m]
    BY <1>2
  <2>1. place[l] < place[m]
    BY ColonOrder
  <2>. QED BY <1>2, <2>1
<1>4. place \in Bijection(C, K)
  <2>1. place \in [C -> K] /\ \A t \in K : \E l \in C : place[l] = t
    OBVIOUS
  <2>2. IsInjective(place)
    BY <1>3 DEF IsInjective
  <2>. QED BY <2>1, <2>2 DEF Bijection, Injection, Surjection
<1>5. Cardinality(K) = n
  BY <1>1, <1>4, FS_Bijection DEF ExistsBijection
<1>6. K \in SUBSET (1 .. n)
  BY <1>2
<1>. HIDE DEF K, n, C, place
<1>7. IsFiniteSet(1 .. n) /\ Cardinality(1 .. n) = n
  BY <1>1, FS_Interval
<1>8. K = 1 .. n
  BY <1>5, <1>6, <1>7, FS_Subset
<1>9. j \in K
  BY <1>8 DEF n, C
<1>. QED BY <1>9 DEF K, C, place

(* The key a name has in env is the name of the request. *)
LEMMA KeyOfRow ==
  ASSUME NEW r \in Seq(Cell), r = request[cur], cur # NoClient,
         NEW b \in Nat, NEW l \in 1 .. Len(r), b <= l - 2, NamePlaces(r, l) = b + 1 .. l - 1
  PROVE  Key(Row(b, l - 1 - b)) = NameOf(r, l)
<1>0. Len(r) \in Nat
  OBVIOUS
<1>1. PICK n \in Nat : n = l - 1 - b
  BY <1>0
<1>2. Cardinality(NamePlaces(r, l)) = n
  <2>1. Cardinality(b + 1 .. l - 1) = n
    BY <1>0, <1>1, FS_Interval
  <2>. QED BY <2>1
<1>3. NameOf(r, l) = [i \in 1 .. n |-> r[b + i]]
  <2>1. l - n = b + 1 /\ b + 1 \in 1 .. Len(r) /\ l - 1 \in 1 .. Len(r)
        /\ l - 1 - (b + 1) + 1 = n
    BY <1>0, <1>1
  <2>2. NameOf(r, l) = SubSeq(r, b + 1, l - 1)
    BY <1>2, <2>1 DEF NameOf
  <2>3. SubSeq(r, b + 1, l - 1) = [i \in 1 .. n |-> r[b + 1 + i - 1]]
    BY <1>0, <1>1, <2>1
  <2>4. \A i \in 1 .. n : b + 1 + i - 1 = b + i
    OBVIOUS
  <2>. QED BY <2>2, <2>3, <2>4
<1>4. Key(Row(b, n)) = [i \in 1 .. n |-> CellOf(<<cur, b + i>>)]
  BY DEF Key, Row
<1>5. \A i \in 1 .. n : CellOf(<<cur, b + i>>) = r[b + i]
  BY DEF CellOf, Nul, Junk
<1>. QED BY <1>1, <1>3, <1>4, <1>5

(* The headers of the request, when env holds them all. *)
LEMMA HeadersSent ==
  ASSUME NEW r \in Seq(Cell), r = request[cur], cur # NoClient,
         NEW q \in Nat, HeadEnd(r) = q + 1, q + 1 <= Len(r),
         r[q + 1].k = "end", NEW hs, Len(hs) = Cardinality(Colons(r, q)), HeadersKept(hs, r, q),
         DOMAIN hs = 1 .. Len(hs)
  PROVE  /\ \A h \in HeaderPlaces(r) : \E x \in Env(hs) : IsHeader(x, cur, h)
         /\ \A x \in Env(hs) : \E h \in HeaderPlaces(r) : IsHeader(x, cur, h)
<1>. DEFINE C == Colons(r, q)
<1>1. InHead(r, {"colon"}) = C
  <2>1. InHead(r, {"colon"}) = {i \in 1 .. q : r[i].k \in {"colon"}}
    BY HeadPlaces
  <2>. QED BY <2>1 DEF Colons
<1>2. InHead(r, {"name"}) = {i \in 1 .. q : r[i].k = "name"}
  <2>1. InHead(r, {"name"}) = {i \in 1 .. q : r[i].k \in {"name"}}
    BY HeadPlaces
  <2>. QED BY <2>1
<1>3. InHead(r, ValueKind) = {i \in 1 .. q : r[i].k \in ValueKind}
  <2>1. "end" \notin ValueKind
    BY ONLY DEF ValueKind
  <2>2. r \in Seq(Cell) /\ q \in Nat /\ HeadEnd(r) = q + 1 /\ q + 1 <= Len(r) /\ r[q + 1].k = "end"
    OBVIOUS
  <2>. QED BY ONLY <2>1, <2>2, HeadPlaces, SMTT(30)
<1>4. ASSUME NEW l \in C
      PROVE  /\ \E b, e \in 1 .. q :
                  /\ NamePlaces(r, l) = b + 1 .. l - 1 /\ ValuePlaces(r, l) = l + 1 .. e - 1
                  /\ b <= l - 2 /\ l < e
                  /\ hs[Cardinality(Colons(r, l))] = <<Row(b, l - 1 - b), Row(l, e - 1 - l)>>
             /\ Cardinality(Colons(r, l)) \in DOMAIN hs
  <2>1. l \in 1 .. q /\ Cardinality(Colons(r, l)) \in 1 .. Len(hs)
    BY ColonOrder, ColonCount
  <2>2. PICK b, e \in 1 .. q :
          /\ NameAt(r, b, l) /\ ValueAt(r, l, e) /\ r[e].k = "crlf"
          /\ hs[Cardinality(Colons(r, l))] = <<Row(b, l - 1 - b), Row(l, e - 1 - l)>>
    <3>1. Cardinality(Colons(r, l)) <= Len(hs) /\ l \in Colons(r, q)
      BY <2>1, ColonCount
    <3>. QED BY <3>1 DEF HeadersKept
  <2>3. /\ b <= l - 2 /\ r[b].k # "name" /\ \A i \in b + 1 .. l - 1 : r[i].k = "name"
        /\ l < e /\ \A i \in l + 1 .. e - 1 : r[i].k \in ValueKind
        /\ r[e].k \notin ValueKind
    BY <2>2 DEF NameAt, ValueAt, ValueKind
  <2>4. NamePlaces(r, l) = b + 1 .. l - 1
    <3>1. ASSUME NEW i \in NamePlaces(r, l) PROVE i \in b + 1 .. l - 1
      <4>1. i \in 1 .. q /\ i < l /\ \A j \in i .. l - 1 : r[j].k = "name"
        BY <1>2 DEF NamePlaces
      <4>2. ~(i <= b)
        BY <2>1, <2>3, <4>1
      <4>. QED BY <2>1, <4>1, <4>2
    <3>2. ASSUME NEW i \in b + 1 .. l - 1 PROVE i \in NamePlaces(r, l)
      <4>0. r[i].k = "name"
        BY ONLY <2>3, <3>2
      <4>1. i \in 1 .. q /\ i < l
        BY SMTT(40), <2>1, <2>3
      <4>2. \A j \in i .. l - 1 : r[j].k = "name"
        BY SMTT(40), <2>3
      <4>3. i \in InHead(r, {"name"})
        BY ONLY <1>2, <4>0, <4>1
      <4>. QED BY ONLY <4>1, <4>2, <4>3 DEF NamePlaces
    <3>. QED BY <3>1, <3>2
  <2>5. ValuePlaces(r, l) = l + 1 .. e - 1
    <3>1. ASSUME NEW i \in ValuePlaces(r, l) PROVE i \in l + 1 .. e - 1
      <4>1. i \in 1 .. q /\ i > l /\ \A j \in l + 1 .. i : r[j].k \in ValueKind
        BY <1>3 DEF ValuePlaces
      <4>2. ~(e <= i)
        BY <2>1, <2>3, <4>1
      <4>. QED BY <2>1, <4>1, <4>2
    <3>2. ASSUME NEW i \in l + 1 .. e - 1 PROVE i \in ValuePlaces(r, l)
      <4>0. r[i].k \in ValueKind
        BY ONLY <2>3, <3>2
      <4>1. i \in 1 .. q /\ i > l
        BY <2>1, <2>3
      <4>2. \A j \in l + 1 .. i : r[j].k \in ValueKind
        BY <2>3
      <4>3. i \in InHead(r, ValueKind)
        BY ONLY <1>3, <4>0, <4>1
      <4>. QED BY ONLY <4>1, <4>2, <4>3 DEF ValuePlaces
    <3>. QED BY <3>1, <3>2
  <2>. QED BY <2>1, <2>2, <2>3, <2>4, <2>5
<1>. DEFINE place(l) == Cardinality(Colons(r, l))
            header(l) == <<NamePlaces(r, l), ValuePlaces(r, l)>>
            last(i) == \A j \in DOMAIN hs : i < j => Key(hs[j][1]) # Key(hs[i][1])
<1>5. HeaderPlaces(r) = {header(l) : l \in {l \in C : Stands(r, l)}}
  BY <1>1 DEF HeaderPlaces
<1>6. Env(hs) = {hs[i] : i \in {i \in DOMAIN hs : last(i)}}
  BY DEF Env
<1>7. ASSUME NEW l \in C
      PROVE  /\ place(l) \in DOMAIN hs /\ l \in Nat /\ place(l) \in Nat
             /\ IsHeader(hs[place(l)], cur, header(l))
             /\ Key(hs[place(l)][1]) = NameOf(r, l)
  <2>1. l \in 1 .. q /\ l \in Nat /\ place(l) \in DOMAIN hs /\ place(l) \in Nat
    BY <1>4, ColonOrder
  <2>3. PICK b \in 1 .. q, e \in 1 .. q :
          /\ NamePlaces(r, l) = b + 1 .. l - 1 /\ ValuePlaces(r, l) = l + 1 .. e - 1
          /\ b <= l - 2 /\ l < e
          /\ hs[place(l)] = <<Row(b, l - 1 - b), Row(l, e - 1 - l)>>
    BY <1>4
  <2>4. Is(Row(b, l - 1 - b), cur, b + 1 .. l - 1)
    <3>1. PICK k \in Nat : k = l - 1 - b
      BY <2>1, <2>3
    <3>2. Is(Row(b, k), cur, b + 1 .. b + k)
      <4>1. b \in Nat
        OBVIOUS
      <4>. QED BY <4>1, RowIs DEF Row
    <3>3. b + k = l - 1
      BY <2>1, <3>1
    <3>. QED BY <3>1, <3>2, <3>3
  <2>5. Is(Row(l, e - 1 - l), cur, l + 1 .. e - 1)
    <3>1. PICK k \in Nat : k = e - 1 - l
      BY <2>1, <2>3
    <3>2. Is(Row(l, k), cur, l + 1 .. l + k)
      BY <2>1, RowIs DEF Row
    <3>3. l + k = e - 1
      BY <2>1, <3>1
    <3>. QED BY <3>1, <3>2, <3>3
  <2>6. IsHeader(hs[place(l)], cur, header(l))
    BY <2>3, <2>4, <2>5 DEF IsHeader
  <2>7. Key(Row(b, l - 1 - b)) = NameOf(r, l)
    <3>1. b \in Nat /\ l \in 1 .. Len(r)
      BY <2>1
    <3>. QED BY <2>3, <3>1, KeyOfRow
  <2>. QED BY <2>1, <2>3, <2>6, <2>7
<1>8. \A j \in DOMAIN hs : \E l \in C : place(l) = j
  BY ColonOfPut
<1>9. \A l, m \in C : l < m => place(l) < place(m)
  BY ColonOrder
<1>10. InHead(r, {"colon"}) = C
  BY <1>1
<1>. HIDE DEF C, place, header, last
<1>11. ASSUME NEW l \in C PROVE last(place(l)) <=> Stands(r, l)
  <2>1. ASSUME last(place(l)), NEW m \in C, l < m PROVE NameOf(r, m) # NameOf(r, l)
    <3>1. place(l) < place(m) /\ place(m) \in DOMAIN hs
      BY <1>7, <1>9, <2>1
    <3>2. Key(hs[place(m)][1]) # Key(hs[place(l)][1])
      BY <2>1, <3>1 DEF last
    <3>. QED BY <1>7, <3>2
  <2>2. ASSUME Stands(r, l), NEW j \in DOMAIN hs, place(l) < j
        PROVE  Key(hs[j][1]) # Key(hs[place(l)][1])
    <3>1. PICK m \in C : place(m) = j
      BY <1>8
    <3>2. l < m
      <4>1. l \in Nat /\ m \in Nat /\ place(l) \in Nat /\ place(m) \in Nat
        BY <1>7
      <4>2. ~(m < l) /\ m # l
        BY <1>9, <2>2, <3>1, <4>1
      <4>. QED BY <4>1, <4>2
    <3>3. NameOf(r, m) # NameOf(r, l)
      BY <1>10, <2>2, <3>2 DEF Stands
    <3>. QED BY <1>7, <3>1, <3>3
  <2>. QED BY <1>10, <2>1, <2>2 DEF Stands, last
<1>12. ASSUME NEW h \in HeaderPlaces(r) PROVE \E x \in Env(hs) : IsHeader(x, cur, h)
  <2>1. PICK l \in C : h = header(l) /\ Stands(r, l)
    BY <1>5
  <2>2. hs[place(l)] \in Env(hs)
    BY <1>6, <1>7, <1>11, <2>1
  <2>. QED BY <1>7, <2>1, <2>2
<1>13. ASSUME NEW x \in Env(hs) PROVE \E h \in HeaderPlaces(r) : IsHeader(x, cur, h)
  <2>1. PICK i \in DOMAIN hs : x = hs[i] /\ last(i)
    BY <1>6
  <2>2. PICK l \in C : place(l) = i
    BY <1>8
  <2>3. header(l) \in HeaderPlaces(r)
    BY <1>5, <1>11, <2>1, <2>2
  <2>. QED BY <1>7, <2>1, <2>2, <2>3
<1>. QED BY <1>12, <1>13

(* The head of a request as the application gets it. *)
LEMMA HeadCalled ==
  ASSUME IInv, AnswerInv, PositionInv, HeadInv, pc = "exec", cur \in Clients,
         NEW r, r = request[cur], r \in Seq(Cell), EachValued(r),
         ParserStep(Here), Here \in Cell, step # "idle", ~complete,
         Callback(Here).on \in {"headers_complete", "message_complete"}
  PROVE  /\ Is(AppCall.path, cur, InHead(r, {"path"}))
         /\ Is(AppCall.query, cur, InHead(r, {"query"}))
         /\ \A h \in HeaderPlaces(r) : \E x \in AppCall.headers : IsHeader(x, cur, h)
         /\ \A x \in AppCall.headers : \E h \in HeaderPlaces(r) : IsHeader(x, cur, h)
<1>1. /\ pe \in Nat /\ pe <= Len(r) /\ p \in Nat /\ p <= pe /\ Len(r) \in Nat /\ cur # NoClient
      /\ (p < pe => Here = r[p + 1]) /\ ParserTypeOK /\ ParserInv /\ TypeOK
      /\ bufferSize \in Nat /\ pe <= bufferSize /\ mem \in Buffer
      /\ off \in [Part -> Nat \cup {-1}] /\ len \in [Part -> Nat]
      /\ Field \in SUBSET Part /\ "path" \in Field /\ "query" \in Field
  <2>1. pe <= sent[cur] /\ sent[cur] <= Len(r) /\ sent[cur] \in Nat /\ pe \in Nat /\ p \in Nat
    BY DEF IInv, LoopInv, TypeOK, SocketsTypeOK, ParserTypeOK
  <2>2. p < pe => Here = r[p + 1]
    BY HereInOrder
  <2>3. /\ p <= pe /\ Len(r) \in Nat /\ cur # NoClient /\ ParserTypeOK /\ ParserInv /\ TypeOK
    BY JillAssumption DEF IInv, TypeOK, ParserInv, MarkInv
  <2>4. /\ bufferSize \in Nat /\ pe <= bufferSize /\ mem \in Buffer
        /\ off \in [Part -> Nat \cup {-1}] /\ len \in [Part -> Nat]
        /\ Field \in SUBSET Part /\ "path" \in Field /\ "query" \in Field
    BY DEF IInv, TypeOK, LoopInv, Buffer, Part, Field
  <2>. QED BY <2>1, <2>2, <2>3, <2>4
<1>2. calls[cur] = <<>> /\ "ERROR" \notin flags
  BY DEF AnswerInv, HeadInv, Serving
<1>3. field = None
  BY <1>1, CompleteStep
<1>4. cs # "error"
  <2>1. \/ Reading /\ cs = "hdr" /\ Here.k = "end"
        \/ step \in {"end_request", "eat_forever"}
    BY <1>1 DEF Callback, ReadingCall, FieldCall, BodyCall, EmptyField, Field, ParserTypeOK, Call,
                Notify, NoCall, None
  <2>. QED BY <1>1, <2>1 DEF ParserInv, PhaseInv, EatInv
<1>5. HeadAt(r)
  BY <1>2, <1>4 DEF HeadInv, Serving, http_parser_has_error
<1>6. PICK q \in Nat : /\ HeadEnd(r) = q + 1 /\ q + 1 <= Len(r) /\ r[q + 1].k = "end"
                       /\ HeadRead(r) = q /\ HeadNoted(r) = q /\ q <= p
                       /\ StateAfter(r, q) = "hdr"
  <2>1. /\ HeadEnd(r) \in 1 .. Len(r) /\ r[HeadEnd(r)].k = "end"
        /\ HeadRead(r) = HeadEnd(r) - 1 /\ HeadNoted(r) = HeadEnd(r) - 1
        /\ HeadEnd(r) - 1 <= p /\ StateAfter(r, HeadEnd(r) - 1) = "hdr"
    BY <1>1, <1>5, CalledBehindHead
  <2>2. HeadEnd(r) - 1 \in Nat /\ HeadEnd(r) - 1 + 1 = HeadEnd(r)
    BY <1>1, <2>1
  <2>. QED BY <1>1, <2>1, <2>2
<1>7. WalkTo(r, q) /\ Intact(mem, r, q) /\ Noted(r, q) /\ q <= bufferSize
  <2>1. WalkTo(r, q)
    BY <1>5, <1>6 DEF HeadAt, Walk, WalkTo
  <2>2. Intact(mem, r, q) /\ Noted(r, q)
    BY <1>5, <1>6 DEF HeadAt
  <2>. QED BY <1>1, <1>6, <2>1, <2>2
<1>8. q # 0 /\ After(r[q].k) = "hdr"
  BY <1>6 DEF StateAfter
<1>9. /\ Len(HeadersNow) = Cardinality(Colons(r, q)) /\ HeadersKept(HeadersNow, r, q)
      /\ HeaderMem \in Buffer /\ Intact(HeaderMem, r, q)
  <2>1. CASE NoHeader(r, q)
    <3>1. ~HeaderPending
      BY <2>1 DEF NoHeader, HeaderPending
    <3>2. Colons(r, q) = {}
      BY <2>1 DEF Colons, NoHeader, Request, VersionKind
    <3>3. headers = <<>>
      BY <2>1 DEF NoHeader
    <3>. QED BY <1>1, <1>7, <3>1, <3>2, <3>3, FS_EmptySet DEF HeaderMem, HeadersNow, Noted
  <2>2. CASE InName(r, q)
    <3>1. r[q].k = "name"
      BY <2>2, LastKind
    <3>. QED BY <1>8, <3>1 DEF After
  <2>3. CASE Waiting(r, q)
    <3>1. r[q].k \in {"colon", "crlf"} \cup ValueKind
      BY <2>3, LastKind
    <3>2. r[q].k = "crlf" /\ q \in 1 .. q
      BY <1>8, <3>1 DEF After, ValueKind
    <3>. QED BY <1>1, <1>7, <2>3, <3>2, HeaderPut DEF Noted
  <2>. QED BY <1>7, <2>1, <2>2, <2>3 DEF Noted
<1>10. ASSUME NEW f \in {"path", "query"}, NEW m \in Buffer, Intact(m, r, q)
       PROVE  /\ off[f] < 0 => InHead(r, {f}) = {}
              /\ ~(off[f] < 0) =>
                   /\ Terminate(m, f) \in Buffer /\ Intact(Terminate(m, f), r, q)
                   /\ Is(CString(Terminate(m, f), off[f]), cur, InHead(r, {f}))
  <2>1. InHead(r, {f}) = {i \in 1 .. q : r[i].k = f}
    <3>1. InHead(r, {f}) = {i \in 1 .. q : r[i].k \in {f}}
      BY <1>6, HeadPlaces
    <3>. QED BY <3>1
  <2>2. Extended(f, r, q) /\ off[f] \in Nat \cup {-1} /\ len[f] \in Nat /\ f \in Field
    BY <1>1, <1>7 DEF Noted
  <2>3. CASE off[f] < 0
    BY <2>1, <2>2, <2>3 DEF Extended
  <2>4. CASE ~(off[f] < 0)
    <3>1. off[f] \in Nat
      BY <2>2, <2>4
    <3>2. off[f] + len[f] < bufferSize
      <4>1. off[f] + len[f] < p
        BY <1>1, <1>3, <2>2, <3>1 DEF IInv, ExtentInv, Extent, Ended, Field, None
      <4>. QED BY <1>1, <2>2, <3>1, <4>1
    <3>3. /\ Terminate(m, f) \in Buffer /\ Intact(Terminate(m, f), r, q)
          /\ CString(Terminate(m, f), off[f]) = Row(off[f], len[f])
      <4>1. /\ r \in Seq(Cell) /\ q \in Nat /\ WalkTo(r, q) /\ r[q + 1].k = "end"
            /\ Extended(f, r, q) /\ cur # NoClient /\ bufferSize \in Nat /\ q <= bufferSize
        BY <1>1, <1>6, <1>7, <2>2
      <4>2. m \in Buffer /\ Intact(m, r, q) /\ len[f] \in Nat
        BY <1>10, <2>2
      <4>. QED BY ONLY <3>1, <3>2, <4>1, <4>2, f \in {"path", "query"}, PartCut
    <3>5. {i \in 1 .. q : r[i].k = f} = off[f] + 1 .. off[f] + len[f]
      <4>1. /\ off[f] + len[f] <= q
            /\ \A i \in 1 .. q : r[i].k = f <=> i \in off[f] + 1 .. off[f] + len[f]
        BY <2>2, <3>1 DEF Extended
      <4>. QED BY <2>2, <3>1, <4>1
    <3>4. Is(Row(off[f], len[f]), cur, off[f] + 1 .. off[f] + len[f])
      BY <2>2, <3>1, RowIs DEF Row
    <3>. QED BY <2>1, <2>4, <3>3, <3>4, <3>5
  <2>. QED BY <2>3, <2>4
<1>11. Is(<<>>, cur, {})
  <2>1. Is([i \in 1 .. 0 |-> <<cur, 0 + i>>], cur, 0 + 1 .. 0 + 0)
    BY RowIs
  <2>2. [i \in 1 .. 0 |-> <<cur, 0 + i>>] = <<>> /\ 0 + 1 .. 0 + 0 = {}
    OBVIOUS
  <2>. QED BY <2>1, <2>2
<1>12. PathMem \in Buffer /\ Intact(PathMem, r, q) /\ Is(AppCall.path, cur, InHead(r, {"path"}))
  <2>1. CASE off["path"] < 0
    BY <1>9, <1>10, <1>11, <2>1 DEF PathMem, AppCall
  <2>2. CASE ~(off["path"] < 0)
    <3>1. PathMem = Terminate(HeaderMem, "path")
          /\ AppCall.path = CString(PathMem, off["path"])
      BY <2>2 DEF PathMem, AppCall
    <3>. QED BY <1>9, <1>10, <2>2, <3>1
  <2>. QED BY <2>1, <2>2
<1>13. Is(AppCall.query, cur, InHead(r, {"query"}))
  <2>1. CASE off["query"] < 0
    BY <1>10, <1>11, <1>12, <2>1 DEF AppCall
  <2>2. CASE ~(off["query"] < 0)
    <3>1. QueryMem = Terminate(PathMem, "query")
          /\ AppCall.query = CString(QueryMem, off["query"])
      BY <2>2 DEF QueryMem, AppCall
    <3>. QED BY <1>10, <1>12, <2>2, <3>1
  <2>. QED BY <2>1, <2>2
<1>14. /\ \A h \in HeaderPlaces(r) : \E x \in Env(HeadersNow) : IsHeader(x, cur, h)
       /\ \A x \in Env(HeadersNow) : \E h \in HeaderPlaces(r) : IsHeader(x, cur, h)
  <2>1. DOMAIN HeadersNow = 1 .. Len(HeadersNow)
    <3>1. headers \in Seq(Text \X Text)
      BY <1>1 DEF TypeOK
    <3>2. PICK x : x = <<CString(HeaderMem, off["name"]), CString(HeaderMem, off["value"])>>
      OBVIOUS
    <3>3. headers \in Seq((Text \X Text) \cup {x}) /\ x \in (Text \X Text) \cup {x}
      BY <3>1
    <3>4. HeadersNow \in {headers, Append(headers, x)}
      BY <3>2 DEF HeadersNow
    <3>. QED BY <3>3, <3>4
  <2>. QED BY <1>1, <1>6, <1>9, <2>1, HeadersSent
<1>15. AppCall.headers = Env(HeadersNow)
  BY DEF AppCall
<1>. QED BY <1>12, <1>13, <1>14, <1>15

(* The call a of the application has the head of the request of client c. *)
HeadOf(a, c) ==
  /\ Is(a.path, c, InHead(request[c], {"path"})) /\ Is(a.query, c, InHead(request[c], {"query"}))
  /\ \A h \in HeaderPlaces(request[c]) : \E x \in a.headers : IsHeader(x, c, h)
  /\ \A x \in a.headers : \E h \in HeaderPlaces(request[c]) : IsHeader(x, c, h)

(* The one step that calls the application hands it the head as it was sent. *)
LEMMA HeadAsSentStep ==
  ASSUME \A r \in Requests : EachValued(r), IInv, RInv, HeadInv, HeadAsSent, [Next]_vars
  PROVE  HeadAsSent'
<1>0. HeadAsSent <=> \A c \in Clients : \A i \in DOMAIN calls[c] : HeadOf(calls[c][i], c)
  BY DEF HeadAsSent, HeadOf
<1>1. ASSUME request' = request,
             \A c \in Clients : \A i \in DOMAIN calls'[c] : HeadOf(calls'[c][i], c)
      PROVE  HeadAsSent'
  BY <1>1 DEF HeadAsSent, HeadOf
<1>2. CASE UNCHANGED <<request, calls>>
  BY <1>0, <1>1, <1>2
<1>3. CASE Execute
  <2>1. /\ pc = "exec" /\ cur \in Clients /\ UNCHANGED request
        /\ Here \in Cell /\ ParserStep(Here) /\ step # "idle"
        /\ \/ UNCHANGED calls
           \/ /\ dispatch /\ ~complete
              /\ Callback(Here).on \in {"headers_complete", "message_complete"}
    BY <1>3, ExecuteFrame DEF Execute
  <2>2. CASE UNCHANGED calls
    BY <1>2, <2>1, <2>2
  <2>3. CASE /\ dispatch /\ ~complete
             /\ Callback(Here).on \in {"headers_complete", "message_complete"}
    <3>1. PICK c, r : c = cur /\ r = request[cur]
      OBVIOUS
    <3>2. r \in Requests /\ EachValued(r) /\ c \in Clients /\ r \in Seq(Cell)
      BY <2>1, <3>1, SocketsAssumption DEF IInv, TypeOK, SocketsTypeOK
    <3>3. calls \in [Clients -> Seq(CallOfApp)] /\ calls[c] = <<>>
      BY <2>1, <2>3, <3>1, <3>2 DEF IInv, TypeOK, RInv, AnswerInv, Serving
    <3>4. HeadOf(AppCall, c)
      <4>1. AnswerInv /\ PositionInv
        BY DEF RInv
      <4>. QED BY <2>1, <2>3, <3>1, <3>2, <4>1, HeadCalled DEF HeadOf
    <3>5. calls' = [calls EXCEPT ![c] = <<AppCall>>]
      <4>1. calls' = [calls EXCEPT ![c] = Append(calls[c], AppCall)]
        BY <2>3, <3>1 DEF dispatch
      <4>2. Append(calls[c], AppCall) = <<AppCall>>
        BY <3>3
      <4>. QED BY <4>1, <4>2
    <3>6. ASSUME NEW d \in Clients, NEW i \in DOMAIN calls'[d]
          PROVE  HeadOf(calls'[d][i], d)
      <4>1. CASE d = c
        <5>1. calls'[d] = <<AppCall>>
          BY <3>2, <3>3, <3>5, <4>1
        <5>2. i = 1 /\ calls'[d][i] = AppCall
          BY <3>6, <5>1
        <5>. QED BY <3>4, <4>1, <5>2
      <4>2. CASE d # c
        <5>1. calls'[d] = calls[d]
          BY <3>3, <3>5, <4>2
        <5>. QED BY <1>0, <3>6, <5>1
      <4>. QED BY <4>1, <4>2
    <3>. QED BY <1>1, <2>1, <3>6
  <2>. QED BY <2>1, <2>2, <2>3
<1>4. CASE \/ Start \/ Accept \/ AcceptError \/ HasRoom \/ Realloc \/ OutOfMemory \/ Recv
           \/ RecvError \/ CloseClient \/ ReadOn \/ App \/ Send \/ SendThrows \/ Responded
           \/ UNCHANGED vars \/ \E c \in Clients : Client(c)
  BY <1>2, <1>4
     DEF Start, Accept, AcceptConnection, AcceptError, HasRoom, Realloc, OutOfMemory, Recv,
         RecvError, CloseClient, Close, CloseConnection, TakePiece, ReadOn, App, Send, SendThrows,
         Responded, vars, jillVars, replyVars, socketVars, Client, ClientStep, Connect, SendCell,
         HangUp, TakeAnswer
<1>. QED BY <1>3, <1>4 DEF Next, Server

(* In every reachable state the noted places of path, query and headers are *)
(* those of the cells passed on so far, and the buffer still holds the      *)
(* cells of the head, but for the terminators behind ended parts            *)
(* (jill.cc:73-119, 438-503).                                               *)
THEOREM HeadIsNoted == Spec => []HeadInv
<1>1. IInv /\ RInv /\ HeadInv /\ [Next]_vars => HeadInv'
  BY HeadStep DEF RInv
<1>. QED BY <1>1, InitHeadInv, InTurn, PTL DEF Spec

(* The application gets the path, the query and the headers as the client   *)
(* sent them, of the headers of one name the last, and nothing else,        *)
(* however the head was cut into recv() calls, when no header of a request  *)
(* has an empty value (jill.cc:73-119, 438-503).                            *)
THEOREM HeadIsAsSent ==
  ASSUME \A r \in Requests : EachValued(r)
  PROVE  Spec => []HeadAsSent
<1>1. Init => HeadAsSent
  <2>1. Init => \A c \in Clients : DOMAIN calls[c] = {}
    BY DEF Init
  <2>. QED BY <2>1 DEF HeadAsSent
<1>2. IInv /\ RInv /\ HeadInv /\ HeadAsSent /\ [Next]_vars => HeadAsSent'
  BY HeadAsSentStep
<1>. QED BY <1>1, <1>2, HeadIsNoted, InTurn, PTL DEF Spec
=============================================================================
