----------------------------- MODULE HttpStream -----------------------------
(***************************************************************************)
(* http-parser on its own: one stream, given to http_parser_execute() in   *)
(* pieces of any size, the last of them empty (the end of the stream), and *)
(* a user that only writes down what the callbacks pass on.  The README of *)
(* the parser promises that it "can be interrupted at anytime", handles    *)
(* keep-alive streams and decodes chunked encoding.                        *)
(***************************************************************************)
EXTENDS Message

CONSTANTS Streams

ASSUME StreamsAssumption == Streams \subseteq Seq(Cell)

VARIABLES
  stream,          \* what is to be parsed
  ended,           \* the parser was given its end
  heard            \* what the callbacks said: a notification, or a field or
                   \* the body with the place of each of its cells

streamVars == <<stream, ended, heard>>
vars == <<parserVars, streamVars>>

Init ==
  /\ ParserInit
  /\ stream \in Streams
  /\ ended = FALSE
  /\ heard = <<>>

Data == Field \cup {"body"}

(* Two calls for the same field or the body, one after the other, are one  *)
(* text; a notification is one each time.                                  *)
Hear(cb) ==
  LET places == [i \in 1 .. cb.length |-> cb.at + i]
      last == heard[Len(heard)]
  IN  IF cb.on = None THEN heard
      ELSE IF heard # <<>> /\ cb.on \in Data /\ last.on = cb.on
        THEN [heard EXCEPT ![Len(heard)].text = @ \o places]
        ELSE Append(heard, [on |-> cb.on, text |-> places])

Feed ==
  /\ step = "idle" /\ ~ended /\ ~http_parser_has_error
  /\ \E n \in 0 .. Len(stream) - pe :
       /\ n = 0 => pe = Len(stream)
       /\ ended' = (n = 0)
       /\ http_parser_execute(pe, n)
  /\ UNCHANGED <<stream, heard>>

Here == IF p < pe THEN stream[p + 1] ELSE [k |-> "junk", n |-> 0]

Parse ==
  /\ ParserStep(Here)
  /\ heard' = Hear(Callback(Here))
  /\ UNCHANGED <<stream, ended>>

Next == Feed \/ Parse
Spec == Init /\ [][Next]_vars

-----------------------------------------------------------------------------
(* The parser never reads past the data it was given (the assertion at its *)
(* end, http_parser.rl:492), and what it says of a field or a body lies    *)
(* within what it has read.                                                *)
StaysWithinData ==
  /\ p <= pe /\ pe <= Len(stream)
  /\ field # None => markAt <= p
  /\ \A i \in DOMAIN heard : \A j \in DOMAIN heard[i].text : heard[i].text[j] <= p

KindsOf(on) == IF on = "value" THEN ValueKind ELSE {on}

(* The places passed on under a name, the calls of a callback, and whether *)
(* every place came once and in order.                                     *)
PassedAs(on) == UNION {{heard[i].text[j] : j \in DOMAIN heard[i].text} :
                         i \in {i \in DOMAIN heard : heard[i].on = on}}
Count(on) == Cardinality({i \in DOMAIN heard : heard[i].on = on})
InOrder(h) ==
  \A i, j \in DOMAIN h : \A a \in DOMAIN h[i].text, b \in DOMAIN h[j].text :
    i < j \/ (i = j /\ a < b) => h[i].text[a] < h[j].text[b]

(* However the stream was cut, once its end has been reported the          *)
(* callbacks have passed on every cell of every field and body, once, in   *)
(* order and under its own name, and have announced every message and the  *)
(* end of its headers and of itself ("can be interrupted at anytime",      *)
(* deps/http-parser/README.md:6).                                          *)
Read == ended /\ step = "idle" /\ ~http_parser_has_error
InterruptedAnywhere ==
  Read => /\ InOrder(heard)
          /\ \A on \in Data : PassedAs(on) = Places(stream, KindsOf(on))
          /\ Count("message_begin") = Cardinality(Places(stream, {"method"}))
          /\ Count("headers_complete") = Cardinality(Places(stream, {"end"}))
          /\ Count("message_complete") = Cardinality(Places(stream, {"method"}))

(* Messages of one connection do not overlap: one begins exactly where the *)
(* one before it was reported complete, and a body follows its headers.    *)
MessagesInTurn ==
  \A i \in DOMAIN heard :
    /\ heard[i].on = "message_begin" <=> i = 1 \/ heard[i - 1].on = "message_complete"
    /\ heard[i].on = "body" => heard[i - 1].on = "headers_complete"
=============================================================================
