---------------------------- MODULE HttpStreamMC ----------------------------
(***************************************************************************)
(* An instance of HttpStream for TLC: streams of one or two whole          *)
(* messages, and some the parser refuses.                                  *)
(***************************************************************************)
EXTENDS HttpStream

X(k) == <<[k |-> k, n |-> 0]>>
D(k, n) == <<[k |-> k, n |-> n]>>
Line(v) == X("method") \o X("path") \o X(v)
Header(last) == X("name") \o X("name") \o X("colon") \o last \o X("crlf")
Chunk(n) == D("csize", n) \o X("crlf") \o [i \in 1 .. n |-> X("body")[1]] \o X("crlf")

Get == X("method") \o X("path") \o X("qmark") \o X("version11")
       \o Header(<<>>) \o Header(X("value") \o X("value")) \o X("end")
Star == X("method") \o X("star") \o X("version11") \o X("end")
Query == X("method") \o X("path") \o X("path") \o X("qmark") \o X("query")
         \o X("query") \o X("version11") \o X("end")
Post(d) == Line("version11") \o Header(d) \o X("end")
Body(n) == [i \in 1 .. n |-> X("body")[1]]
Chunks == Chunk(2) \o Chunk(1) \o X("last")

AllStreams == {
  (* keep-alive streams *)
  Post(D("digit", 2)) \o Body(2) \o Get,
  Post(D("digit", 0)) \o Star \o Query,
  Post(X("chunked")) \o Chunks \o Star,
  (* Content-Length of two digits, or twice; with chunked encoding *)
  Post(D("digit", 0) \o D("digit", 3)) \o Body(3),
  Line("version11") \o Header(D("digit", 0)) \o Header(D("digit", 3)) \o X("end") \o Body(3),
  Line("version11") \o Header(D("digit", 3)) \o Header(X("chunked")) \o X("end") \o Chunks,
  (* bodies that end with the connection *)
  Line("version10") \o X("end") \o Body(3),
  Post(X("close")) \o Body(2),
  Line("version10") \o Header(X("keep")) \o X("end") \o Star,
  (* refused: a field, a URI of two short parts and a length that are too  *)
  (* long, and a syntax error                                              *)
  Line("version11") \o X("name") \o X("name") \o X("name") \o X("name") \o Header(X("value")) \o X("end"),
  X("method") \o X("path") \o X("path") \o X("qmark") \o X("query") \o X("query") \o X("query")
    \o X("version11") \o X("end"),
  Post(D("digit", 1) \o D("digit", 0) \o D("digit", 0)) \o Body(1),
  Line("version11") \o X("name") \o X("junk")}
=============================================================================
