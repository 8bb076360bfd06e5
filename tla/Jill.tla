-------------------------------- MODULE Jill --------------------------------
(***************************************************************************)
(* Jill, the JSGI web server of src/jack/handler/jill.cc: one thread that  *)
(* accepts a connection, reads one request through http-parser into a      *)
(* buffer it keeps for all connections, calls the application, writes what *)
(* it returns and closes the connection.  The parser's callbacks only      *)
(* note where in the buffer the parts of the request lie; the text of a    *)
(* part is cut out later by writing a NUL after it.                        *)
(***************************************************************************)
EXTENDS Sockets

CONSTANTS
  InitialSize,     \* bufferSize at the start (1024)
  Results,         \* what the application may do with a request
  NoClient

Part == Field \cup {"body"}
Result == [did : {"responds", "throws", "nothing"},
           headers : Nat, chunks : Nat, whole : BOOLEAN]

ASSUME JillAssumption ==
  /\ InitialSize \in Nat \ {0}
  /\ Results \subseteq Result
  /\ NoClient \notin Clients

VARIABLES
  pc,              \* where JILL_run is
  cur,             \* the client whose connection is served
  bufferSize, bufferPosition, recved,
  mem,             \* the buffer, by offset
  off, len,        \* client_data: where each part is, -1 for not seen
  headers,         \* what SET_VALUE was called with for data->env, in order
  complete,        \* client_data.complete: dispatch() was called
  plan,            \* what the response being sent still consists of
  calls,           \* the requests the application was called with, by client
  out              \* the pieces sent on each connection

runVars == <<pc, cur, bufferSize, bufferPosition, recved>>
dataVars == <<mem, off, len, headers, complete>>
replyVars == <<plan, calls, out>>
jillVars == <<runVars, dataVars, replyVars>>
vars == <<parserVars, socketVars, jillVars>>

PC == {"start", "accept", "room", "recv", "exec", "app", "send", "thrown"}

(* A byte of the buffer is the cell of a client's stream that recv() put   *)
(* there, a NUL, or what malloc() or realloc() left there.                 *)
Nul == <<NoClient, 0>>
Junk == <<NoClient, 1>>
Byte == (Clients \X Nat) \cup {Nul, Junk}
Text == Seq(Byte)
Piece == {"status", "header", "blank", "chunk", "throw",
          "status500", "header500", "blank500", "body500"}
CallOfApp == [path : Text, query : Text, headers : SUBSET (Text \X Text), body : Text]

TypeOK ==
  /\ ParserTypeOK /\ SocketsTypeOK
  /\ pc \in PC
  /\ cur \in Clients \cup {NoClient}
  /\ bufferSize \in Nat /\ bufferPosition \in Nat /\ recved \in Nat
  /\ mem \in [0 .. bufferSize - 1 -> Byte]
  /\ off \in [Part -> Nat \cup {-1}] /\ len \in [Part -> Nat]
  /\ headers \in Seq(Text \X Text)
  /\ complete \in BOOLEAN
  /\ plan \in Seq(Piece)
  /\ calls \in [Clients -> Seq(CallOfApp)]
  /\ out \in [Clients -> Seq(Piece)]

Init ==
  /\ ParserInit /\ SocketsInit
  /\ pc = "start" /\ cur = NoClient
  /\ bufferSize = InitialSize /\ bufferPosition = 0 /\ recved = 0
  /\ mem = [i \in 0 .. InitialSize - 1 |-> Junk]
  /\ off = [f \in Part |-> -1] /\ len = [f \in Part |-> 0]
  /\ headers = <<>> /\ complete = FALSE
  /\ plan = <<>>
  /\ calls = [c \in Clients |-> <<>>]
  /\ out = [c \in Clients |-> <<>>]

-----------------------------------------------------------------------------
(***************************************************************************)
(* What the callbacks do with client_data.                                 *)
(***************************************************************************)

(* The text of a C string: JS_str_utf8(str, length) reads to the NUL and   *)
(* ignores the length.                                                     *)
CString(m, o) ==
  LET e == CHOOSE e \in DOMAIN m : /\ e >= o /\ m[e] = Nul
                                   /\ \A i \in o .. e - 1 : m[i] # Nul
  IN  [i \in 1 .. e - o |-> m[o + i - 1]]

Terminate(m, f) == [m EXCEPT ![off[f] + len[f]] = Nul]

HeaderPending == len["value"] > 0

HeaderMem == IF HeaderPending THEN Terminate(Terminate(mem, "name"), "value")
             ELSE mem

(* processHeader puts a pending header into env and forgets where it was.  *)
(* That a name has had a value before is seen in Env below.                *)
HeadersNow == IF HeaderPending
                THEN Append(headers, <<CString(HeaderMem, off["name"]),
                                       CString(HeaderMem, off["value"])>>)
                ELSE headers

ForgottenOff == IF HeaderPending
                  THEN [off EXCEPT !["name"] = -1, !["value"] = -1] ELSE off
ForgottenLen == IF HeaderPending
                  THEN [len EXCEPT !["name"] = 0, !["value"] = 0] ELSE len

(* [mutant] Every call notes the place. *)
Accumulate_First(f, at, n, o, l) ==
  off' = [o EXCEPT ![f] = at] /\ len' = [l EXCEPT ![f] = n]

(* on_path, on_query_string, on_header_value, on_body: the first call notes *)
(* the place, the others add to the length.                                 *)
Accumulate(f, at, n, o, l) ==
  /\ off' = IF o[f] < 0 THEN [o EXCEPT ![f] = at] ELSE o
  /\ len' = [l EXCEPT ![f] = IF o[f] < 0 THEN n ELSE l[f] + n]

on_data(cb) ==
  /\ Accumulate(cb.on, cb.at, cb.length, off, len)
  /\ UNCHANGED <<pc, mem, headers, complete, calls>>

(* [mutant] The header before is put into env, but its extents are kept. *)
on_header_field_Kept(cb) ==
  /\ headers' = HeadersNow
  /\ mem' = HeaderMem
  /\ Accumulate("name", cb.at, cb.length, off, len)
  /\ UNCHANGED <<pc, complete, calls>>

on_header_field(cb) ==
  /\ headers' = HeadersNow
  /\ mem' = HeaderMem
  /\ Accumulate("name", cb.at, cb.length, ForgottenOff, ForgottenLen)
  /\ UNCHANGED <<pc, complete, calls>>

(* on_message_begin makes a new env. *)
on_message_begin ==
  /\ headers' = <<>>
  /\ UNCHANGED <<pc, mem, off, len, complete, calls>>

-----------------------------------------------------------------------------
(***************************************************************************)
(* dispatch and handlerWrapper up to the call of the application.          *)
(***************************************************************************)
(* A byte's cell.  The number of a name's cell is its letter in the key    *)
(* env has it under: upper case, and "_" for "-".                          *)
Cell0 == [k |-> "junk", n |-> 0]
CellOf(byte) == IF byte \in {Nul, Junk} THEN Cell0 ELSE request[byte[1]][byte[2]]
Key(name) == [i \in DOMAIN name |-> CellOf(name[i])]

(* data->env is an object: SET_VALUE overwrites what a header of the same  *)
(* name has put there.                                                     *)
Env(puts) ==
  {puts[i] : i \in {i \in DOMAIN puts : \A j \in DOMAIN puts :
                      i < j => Key(puts[j][1]) # Key(puts[i][1])}}

PathMem == IF off["path"] < 0 THEN HeaderMem ELSE Terminate(HeaderMem, "path")
QueryMem == IF off["query"] < 0 THEN PathMem ELSE Terminate(PathMem, "query")

(* What handlerWrapper hands to the application: each part is cut out, and *)
(* the body copied last, from the buffer with the NULs written so far.     *)
AppCall ==
  [path |-> IF off["path"] < 0 THEN <<>> ELSE CString(PathMem, off["path"]),
   query |-> IF off["query"] < 0 THEN <<>> ELSE CString(QueryMem, off["query"]),
   headers |-> Env(HeadersNow),
   body |-> IF off["body"] < 0 THEN <<>>
            ELSE [i \in 1 .. len["body"] |-> QueryMem[off["body"] + i - 1]]]

(* [mutant] dispatch without the test of data->complete *)
dispatch_Again ==
  /\ complete' = TRUE /\ headers' = HeadersNow /\ mem' = QueryMem
  /\ off' = ForgottenOff /\ len' = ForgottenLen
  /\ calls' = [calls EXCEPT ![cur] = Append(@, AppCall)] /\ pc' = "app"

dispatch ==
  IF complete THEN UNCHANGED <<pc, dataVars, calls>>
  ELSE /\ complete' = TRUE
       /\ headers' = HeadersNow
       /\ mem' = QueryMem
       /\ off' = ForgottenOff /\ len' = ForgottenLen
       /\ calls' = [calls EXCEPT ![cur] = Append(@, AppCall)]
       /\ pc' = "app"

(* [mutant] The Content-Length is not looked at. *)
on_headers_complete_Always == dispatch

on_headers_complete ==
  IF content_length < 0 THEN dispatch ELSE UNCHANGED <<pc, dataVars, calls>>

on_message_complete == dispatch

Handle(cb) ==
  \/ cb.on = None /\ UNCHANGED <<pc, dataVars, calls>>
  \/ cb.on \in {"path", "query", "value", "body"} /\ on_data(cb)
  \/ cb.on = "name" /\ on_header_field(cb)
  \/ cb.on = "message_begin" /\ on_message_begin
  \/ cb.on = "headers_complete" /\ on_headers_complete
  \/ cb.on = "message_complete" /\ on_message_complete

-----------------------------------------------------------------------------
(***************************************************************************)
(* JILL_run.                                                               *)
(***************************************************************************)
Start ==
  /\ pc = "start"
  /\ \/ pc' = "accept" /\ listening' = TRUE
     \/ pc' = "thrown" /\ UNCHANGED listening  \* socket, bind or listen error
  /\ UNCHANGED <<parserVars, request, queue, conn, sent, peer, full, cur, bufferSize,
                 bufferPosition, recved, dataVars, replyVars>>

(* [mutant] The extents of the connection before are kept. *)
NewData_Stale == UNCHANGED <<off, len>> /\ headers' = <<>> /\ complete' = FALSE

(* The client_data of a new connection. *)
NewData ==
  /\ off' = [f \in Part |-> -1] /\ len' = [f \in Part |-> 0]
  /\ headers' = <<>> /\ complete' = FALSE

Accept ==
  /\ pc = "accept"
  /\ AcceptConnection
  /\ http_parser_init
  /\ pc' = "room" /\ cur' = Head(queue)
  /\ bufferPosition' = 0
  /\ NewData
  /\ UNCHANGED <<bufferSize, recved, mem, replyVars>>

AcceptError ==
  /\ pc = "accept"
  /\ pc' = "thrown" /\ listening' = FALSE
  /\ UNCHANGED <<parserVars, request, queue, conn, sent, peer, full, cur, bufferSize,
                 bufferPosition, recved, dataVars, replyVars>>

(* [mutant] ">" for ">=" in the test before realloc() *)
HasRoom_OffByOne ==
  /\ pc = "room" /\ bufferPosition <= bufferSize
  /\ pc' = "recv"
  /\ UNCHANGED <<parserVars, socketVars, cur, bufferSize, bufferPosition,
                 recved, dataVars, replyVars>>

HasRoom ==
  /\ pc = "room" /\ bufferPosition < bufferSize
  /\ pc' = "recv"
  /\ UNCHANGED <<parserVars, socketVars, cur, bufferSize, bufferPosition,
                 recved, dataVars, replyVars>>

(* [mutant] realloc() before bufferSize is doubled *)
Realloc_OldSize ==
  /\ pc = "room" /\ bufferPosition >= bufferSize
  /\ pc' = "recv" /\ bufferSize' = 2 * bufferSize
  /\ UNCHANGED <<parserVars, socketVars, cur, bufferPosition, recved, dataVars, replyVars>>

Realloc ==
  /\ pc = "room" /\ bufferPosition >= bufferSize
  /\ pc' = "recv"
  /\ bufferSize' = 2 * bufferSize
  /\ mem' = [i \in 0 .. 2 * bufferSize - 1 |-> IF i < bufferSize THEN mem[i] ELSE Junk]
  /\ UNCHANGED <<parserVars, socketVars, cur, bufferPosition, recved, off, len,
                 headers, complete, replyVars>>

(* realloc() fails: JILL_run throws, with both sockets open. *)
OutOfMemory ==
  /\ pc = "room" /\ bufferPosition >= bufferSize
  /\ pc' = "thrown"
  /\ UNCHANGED <<parserVars, socketVars, cur, bufferSize, bufferPosition,
                 recved, dataVars, replyVars>>

Close ==
  /\ CloseConnection(cur)
  /\ pc' = "accept" /\ cur' = NoClient

(* recv(): it blocks while nothing has come and the client has not hung up *)
Space == bufferSize - bufferPosition
Unread == sent[cur] - bufferPosition
Received(n) ==
  [i \in DOMAIN mem |-> IF i \in bufferPosition .. bufferPosition + n - 1
                        THEN <<cur, i + 1>> ELSE mem[i]]

Recv ==
  /\ pc = "recv" /\ peer[cur] # "rst"
  /\ Unread = 0 => peer[cur] = "fin" \/ Space = 0
  /\ recved' = IF Unread < Space THEN Unread ELSE Space
  /\ mem' = Received(recved')
  /\ http_parser_execute(bufferPosition, recved')
  /\ pc' = "exec"
  /\ UNCHANGED <<socketVars, cur, bufferSize, bufferPosition, off, len, headers,
                 complete, replyVars>>

RecvError ==
  /\ pc = "recv" /\ peer[cur] = "rst"
  /\ Close
  /\ UNCHANGED <<parserVars, bufferSize, bufferPosition, recved, dataVars, replyVars>>

(* A step of http_parser_execute() with the callback it makes. *)
Here == IF p < pe THEN CellOf(mem[p]) ELSE Cell0

Execute ==
  /\ pc = "exec" /\ step # "idle"
  /\ ParserStep(Here)
  /\ Handle(Callback(Here))
  /\ UNCHANGED <<socketVars, cur, bufferSize, bufferPosition, recved, plan, out>>

(* [mutant] The parser's error is not looked for. *)
ReadOn_PastError ==
  /\ pc = "exec" /\ step = "idle"
  /\ ~complete /\ recved # 0
  /\ bufferPosition' = bufferPosition + recved
  /\ pc' = "room"
  /\ UNCHANGED <<parserVars, socketVars, cur, bufferSize, recved, dataVars, replyVars>>

(* http_parser_execute() has returned. *)
ReadOn ==
  /\ pc = "exec" /\ step = "idle"
  /\ ~http_parser_has_error /\ ~complete /\ recved # 0
  /\ bufferPosition' = bufferPosition + recved
  /\ pc' = "room"
  /\ UNCHANGED <<parserVars, socketVars, cur, bufferSize, recved, dataVars, replyVars>>

(* [mutant] The end of the stream is not looked for. *)
CloseClient_NoEnd ==
  /\ pc = "exec" /\ step = "idle"
  /\ http_parser_has_error \/ complete
  /\ Close
  /\ UNCHANGED <<parserVars, bufferSize, bufferPosition, recved, dataVars, replyVars>>

CloseClient ==
  /\ pc = "exec" /\ step = "idle"
  /\ http_parser_has_error \/ complete \/ recved = 0
  /\ Close
  /\ UNCHANGED <<parserVars, bufferSize, bufferPosition, recved, dataVars, replyVars>>

-----------------------------------------------------------------------------
(***************************************************************************)
(* The application's result, and handlerWrapper from there on.             *)
(***************************************************************************)
Repeat(x, n) == [i \in 1 .. n |-> x]

(* The error page for an exception, nothing for a result that is no object *)
(* with a status, else the response, which a writer that throws cuts off.  *)
Plan(r) ==
  CASE r.did = "throws"   -> <<"status500", "header500", "header500", "blank500", "body500">>
    [] r.did = "nothing"  -> <<>>
    [] r.did = "responds" -> <<"status">> \o Repeat("header", r.headers)
                             \o <<"blank">> \o Repeat("chunk", r.chunks)
                             \o (IF r.whole THEN <<>> ELSE <<"throw">>)

App ==
  /\ pc = "app"
  /\ \E r \in Results : plan' = Plan(r)
  /\ pc' = "send"
  /\ UNCHANGED <<parserVars, socketVars, cur, bufferSize, bufferPosition,
                 recved, dataVars, calls, out>>

(* send() blocks, without a timeout, while the client does not read. *)
Send ==
  /\ pc = "send" /\ plan # <<>> /\ Head(plan) # "throw"
  /\ peer[cur] # "rst" /\ cur \notin full
  /\ TakePiece(cur)
  /\ out' = [out EXCEPT ![cur] = Append(@, Head(plan))]
  /\ plan' = Tail(plan)
  /\ UNCHANGED <<parserVars, runVars, dataVars, calls>>

(* [mutant] A piece that could not be sent is skipped. *)
SendThrows_Ignored ==
  /\ pc = "send" /\ plan # <<>>
  /\ Head(plan) = "throw" \/ peer[cur] # "up"
  /\ plan' = Tail(plan)
  /\ UNCHANGED <<parserVars, socketVars, runVars, dataVars, calls, out>>

(* THROW("Client closed connection"), or the body's forEach throws: the    *)
(* rest of the response is dropped.                                        *)
SendThrows ==
  /\ pc = "send" /\ plan # <<>>
  /\ Head(plan) = "throw" \/ peer[cur] # "up"
  /\ plan' = <<>>
  /\ UNCHANGED <<parserVars, socketVars, runVars, dataVars, calls, out>>

(* dispatch() returns to the parser that called on_..._complete. *)
Responded ==
  /\ pc = "send" /\ plan = <<>>
  /\ pc' = "exec"
  /\ UNCHANGED <<parserVars, socketVars, cur, bufferSize, bufferPosition,
                 recved, dataVars, replyVars>>

-----------------------------------------------------------------------------
Server == Start \/ Accept \/ AcceptError \/ HasRoom \/ Realloc \/ OutOfMemory
          \/ Recv \/ RecvError \/ Execute \/ ReadOn \/ CloseClient
          \/ App \/ Send \/ SendThrows \/ Responded

Client(c) == ClientStep(c) /\ UNCHANGED <<parserVars, jillVars>>

Next == Server \/ \E c \in Clients : Client(c)

Spec == Init /\ [][Next]_vars

-----------------------------------------------------------------------------
(***************************************************************************)
(* Safety.                                                                 *)
(***************************************************************************)

(* The thread never asks recv() for zero bytes: the 0 it would return is   *)
(* what the loop takes for the end of the stream (jill.cc:645-684).        *)
RecvHasRoom == pc = "recv" => bufferPosition < bufferSize

(* The NUL that processHeader or handlerWrapper writes after a part of the *)
(* request falls on a byte the parser has already read, inside the buffer: *)
(* it never overwrites input that is still to be parsed, however the       *)
(* request was cut into recv() calls (jill.cc:83-84, 181, 191).            *)
Ended(f) == field # f \/ (f = "name" /\ HeaderPending)
TerminatorsSafe ==
  \A f \in Field : off[f] >= 0 /\ Ended(f) => off[f] + len[f] < p /\ p <= bufferSize
=============================================================================
