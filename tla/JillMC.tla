------------------------------- MODULE JillMC -------------------------------
(***************************************************************************)
(* Instances of JillServer for TLC: the streams the clients may send and   *)
(* what the application may do.                                            *)
(***************************************************************************)
EXTENDS JillInductive

X(k) == <<[k |-> k, n |-> 0]>>
D(k, n) == <<[k |-> k, n |-> n]>>

GetLine == X("method") \o X("path") \o X("path") \o X("version11")
Header == X("name") \o X("name") \o X("colon") \o X("value") \o X("crlf")
EmptyHeader == X("name") \o X("colon") \o X("crlf")
ContentLength(n) == X("name") \o X("colon") \o D("digit", n) \o X("crlf")

(* GET with a query and two headers *)
Get == X("method") \o X("path") \o X("qmark") \o X("query") \o X("query")
       \o X("version11") \o Header \o X("name") \o X("colon") \o X("value")
       \o X("value") \o X("crlf") \o X("end")
(* no header, an empty query, HTTP/1.0 *)
Plain == X("method") \o X("path") \o X("qmark") \o X("version10") \o X("end")
(* a header of one name, another, and the first name again *)
Twice == GetLine \o D("name", 1) \o X("colon") \o X("value") \o X("crlf")
         \o D("name", 2) \o X("colon") \o X("value") \o X("crlf")
         \o D("name", 1) \o X("colon") \o X("value") \o X("value") \o X("crlf") \o X("end")
(* a body of two bytes, and one that stops short of it *)
Post == GetLine \o ContentLength(2) \o X("end") \o X("body") \o X("body")
Short == X("method") \o X("path") \o X("version11") \o ContentLength(2) \o X("end") \o X("body")
(* a second request on the same connection *)
Pipelined == X("method") \o X("path") \o X("version11") \o ContentLength(1) \o X("end")
             \o X("body") \o X("method") \o X("path") \o X("path")
Broken == X("method") \o X("path") \o X("junk") \o X("path")

Anything == [did : {"responds"}, headers : {1}, chunks : {1}, whole : BOOLEAN]
            \cup [did : {"throws", "nothing"}, headers : {0}, chunks : {0}, whole : {TRUE}]

OneRequest == {Get, Twice, Post, Plain, Short, Pipelined, Broken}
(* Short streams for two clients: the shortest whole request, and one that   *)
(* stops within its headers.                                               *)
TwoClients == {X("method") \o X("path") \o X("version11") \o X("end"),
               X("method") \o X("path") \o X("version11") \o X("name") \o X("colon") \o X("value")}
(* What the proofs of ImplementsJsgi, EntireBody and HeadAsSent assume of   *)
(* a request.                                                              *)
ASSUME InstanceDeclared ==
  \A r \in OneRequest \cup TwoClients : ~Chunked(r) /\ BodyDeclared(r) /\ EachValued(r)

Briefly == {[did |-> "responds", headers |-> 0, chunks |-> 1, whole |-> TRUE]}

(* a Transfer-Encoding header and no Content-Length *)
ChunkedPost == GetLine \o X("name") \o X("colon") \o X("chunked") \o X("crlf") \o X("end")
               \o D("csize", 2) \o X("crlf") \o X("body") \o X("body") \o X("crlf") \o X("last")
OnlyChunked == {ChunkedPost}

(* a header without a value before another header *)
EmptyValue == GetLine \o EmptyHeader \o Header \o X("end")
OnlyEmptyValue == {EmptyValue}
=============================================================================
