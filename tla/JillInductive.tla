---------------------------- MODULE JillInductive ----------------------------
(***************************************************************************)
(* The inductive invariants of Jill.  TypeOK, RecvHasRoom and              *)
(* TerminatorsSafe are not inductive: that a NUL lands behind the parser's *)
(* cursor depends on how the extents the callbacks have noted relate to    *)
(* the parser's mark, and on where each loop of JILL_run stands.           *)
(***************************************************************************)
EXTENDS JillServer

Serving == pc \in {"room", "recv", "exec", "app", "send"}

(* The buffer, the loop of JILL_run and what has been received. *)
LoopInv ==
  /\ Serving => cur \in Clients
  /\ bufferPosition <= bufferSize /\ pe <= bufferSize /\ bufferSize > 0
  /\ pc \in {"room", "recv"} => /\ step = "idle" /\ p <= bufferPosition
                                /\ bufferPosition <= sent[cur]
  /\ pc \in {"exec", "app", "send"} => /\ pe = bufferPosition + recved
                                       /\ pe <= sent[cur]
  /\ \A c \in Clients : sent[c] <= Len(request[c])

(* A byte of the buffer that came from a client is a cell of its stream. *)
MemInv ==
  \A i \in DOMAIN mem : mem[i] \notin {Nul, Junk} =>
    mem[i][1] \in Clients /\ mem[i][2] \in DOMAIN request[mem[i][1]]

(* The extent noted for a part ends where the parser last passed it on:    *)
(* strictly behind the cursor once the part has ended, at the mark while   *)
(* the machine is inside it, and at the cursor when it was interrupted.    *)
Extent(f) ==
  off[f] >= 0 => /\ off[f] + len[f] <= p
                 /\ Ended(f) => off[f] + len[f] < p
                 /\ field = f /\ step = "exec" => off[f] + len[f] <= markAt
ExtentInv ==
  /\ \A f \in Field : Extent(f)
  /\ off["body"] >= 0 => off["body"] + len["body"] <= p
  /\ \A f \in Part : len[f] > 0 => off[f] >= 0

(* A value is never noted without the name before it. *)
NameInv ==
  cs \in {"sep", "value"} \/ field = "value" \/ HeaderPending => off["name"] >= 0

IInv == TypeOK /\ ParserInv /\ LoopInv /\ MemInv /\ RecvHasRoom /\ ExtentInv /\ NameInv
-----------------------------------------------------------------------------
(***************************************************************************)
(* What must hold besides for Jill to implement Jsgi.                      *)
(***************************************************************************)

(* The connection that is served is the one that is open, and those in the *)
(* queue are not yet.                                                      *)
ConnInv ==
  /\ \A c \in Clients : conn[c] = "open" => c = cur /\ pc \notin {"start", "accept"}
  /\ Serving => conn[cur] = "open"
  /\ \A i \in DOMAIN queue : conn[queue[i]] = "queued"
  /\ \A i, j \in DOMAIN queue : queue[i] = queue[j] => i = j

(* data->complete tells whether the application was called, and what was   *)
(* sent with what is still to be sent is what it answered.                 *)
AnswerInv ==
  /\ \A c \in Clients : calls[c] # <<>> => conn[c] \in {"open", "closed"}
  /\ \A c \in Clients : calls[c] = <<>> => out[c] = <<>>
  /\ Serving => (complete <=> calls[cur] # <<>>)
  /\ pc \in {"app", "send"} => calls[cur] # <<>>
  /\ pc = "app" => out[cur] = <<>>
  /\ pc = "send" => plan = <<>> \/ \E r \in Results : out[cur] \o plan = Plan(r)

(* What the parser has not read of the buffer is what the client sent at   *)
(* the same place, and it reads all that it is given, unless it fails.     *)
PositionInv ==
  /\ pc \in {"room", "recv"} => p = bufferPosition /\ ~http_parser_has_error
  /\ pc \in {"exec", "app", "send"} =>
       /\ \A i \in p .. pe - 1 : mem[i] = <<cur, i + 1>>
       /\ step = "idle" => p = pe \/ http_parser_has_error

(* The parser of a request whose headers, or whose body, are not over yet  *)
(* stands where the stream, read as a whole, says.                         *)
InHeaders(r) ==
  /\ \A i \in 1 .. p : r[i].k # "end"
  /\ content_length = Spelled(r)[p]
  /\ "EATING" \notin flags /\ "EAT_FOREVER" \notin flags
  /\ cs \notin ChunkState
  /\ step \in {"idle", "exec", "body_logic"}
  /\ step = "body_logic" => r[p + 1].k = "end" /\ content_length >= 0

InBody(r) ==
  /\ HeadEnd(r) \in 1 .. p
  /\ content_length = DeclaredLength(r) /\ content_length >= 0
  /\ p + chunk_size = HeadEnd(r) + content_length
  /\ "CHUNKED" \notin flags /\ "EAT_FOREVER" \notin flags
  /\ cs = "start"
  /\ step \in {"idle", "exec", "skip", "end_request"}
  /\ step \in {"idle", "exec"} => "EATING" \in flags
  /\ step = "end_request" => chunk_size = 0

(* What was read of the body is noted, and lies as it came in the buffer;  *)
(* the terminators of the head's parts will not fall into it.              *)
BodyRead(r) ==
  /\ \A f \in Field : off[f] >= 0 => off[f] + len[f] < HeadEnd(r)
  /\ off["body"] = -1 => p = HeadEnd(r)
  /\ off["body"] # -1 => off["body"] = HeadEnd(r) /\ off["body"] + len["body"] = p
  /\ \A i \in HeadEnd(r) .. p - 1 : mem[i] = <<cur, i + 1>>

(* Until the application is called, the parser is in the client's first    *)
(* request; what it reads of a chunked one is another matter.              *)
FirstInv ==
  Serving /\ calls[cur] = <<>> =>
    /\ "CHUNKED" \in flags => \E i \in 1 .. p : request[cur][i].k = "chunked"
    /\ ~Chunked(request[cur]) =>
         \/ InHeaders(request[cur]) /\ off["body"] = -1
         \/ InBody(request[cur]) /\ BodyRead(request[cur])

RInv == ConnInv /\ AnswerInv /\ PositionInv /\ FirstInv
-----------------------------------------------------------------------------
(***************************************************************************)
(* What must hold besides for HeadAsSent: what client_data has noted of    *)
(* the head of a request depends on the cells passed on so far and not on  *)
(* how they were cut.                                                      *)
(***************************************************************************)

(* The cells of the head that were read, and those that were passed on. *)
HeadRead(r) == IF HeadEnd(r) \in 1 .. p THEN HeadEnd(r) - 1 ELSE p
HeadNoted(r) == IF field # None /\ step = "exec" THEN markAt ELSE HeadRead(r)

(* The state of the machine in the head, behind a cell of kind k. *)
After(k) ==
  CASE k \in {"path", "query", "name"} -> k
    [] k \in ValueKind                 -> "value"
    [] k = "method"                    -> "target"
    [] k = "star"                      -> "uri"
    [] k = "qmark"                     -> "query0"
    [] k = "colon"                     -> "sep"
    [] OTHER                           -> "hdr"
StateAfter(r, i) == IF i = 0 THEN "start" ELSE After(r[i].k)

(* The first n cells are the beginning of a request's head: path and query *)
(* come before the version, in this order.                                 *)
WalkTo(r, n) ==
  \A i \in 1 .. n :
    /\ <<StateAfter(r, i - 1), r[i].k, StateAfter(r, i)>> \in Edge
    /\ r[i].k \in {"path", "qmark"} => \A j \in 1 .. i - 1 : r[j].k \in {"method", "path"}
    /\ r[i].k = "query" => \A j \in 1 .. i - 1 : r[j].k \in {"method", "path", "qmark", "query"}
Walk(r) == WalkTo(r, HeadRead(r))

(* The machine is in the head, where the cells say, or behind it. *)
AmidHead(r) ==
  /\ \A i \in 1 .. p : r[i].k # "end"
  /\ cs = StateAfter(r, p)
  /\ "EATING" \notin flags /\ "EAT_FOREVER" \notin flags
  /\ step \in {"idle", "exec", "body_logic"}
  /\ step = "body_logic" => r[p + 1].k = "end" /\ content_length >= 0
  /\ field # None /\ step = "exec" => \A i \in markAt + 1 .. p : After(r[i].k) = field

BehindHead(r) ==
  /\ HeadEnd(r) \in 1 .. p /\ StateAfter(r, HeadEnd(r) - 1) = "hdr"
  /\ field = None /\ "EAT_FOREVER" \notin flags
  /\ cs \in {"start"} \cup ChunkState
  /\ step \in {"idle", "exec", "skip", "end_request"}
  /\ cs = "start" /\ step # "end_request" =>
       "CHUNKED" \notin flags /\ (step \in {"idle", "exec"} => "EATING" \in flags)

(* The terminators have spared every cell that is part of a text. *)
Intact(m, r, n) == \A i \in 1 .. n : After(r[i].k) \in Field => m[i - 1] = <<cur, i>>

(* Path and query: q cells have been passed on.  Only an empty query makes *)
(* an extent of no length, and the version comes right behind it.          *)
Extended(f, r, q) ==
  IF off[f] < 0 THEN \A i \in 1 .. q : r[i].k # f
  ELSE /\ off[f] + len[f] <= q
       /\ \A i \in 1 .. q : r[i].k = f <=> i \in off[f] + 1 .. off[f] + len[f]
       /\ len[f] = 0 => off[f] < q /\ r[off[f] + 1].k \in VersionKind

(* The header whose colon is at l: its name is between b and l, its value  *)
(* between l and e.                                                        *)
NameAt(r, b, l) == b \in 1 .. l - 2 /\ r[b].k # "name" /\ \A i \in b + 1 .. l - 1 : r[i].k = "name"
ValueAt(r, l, e) == l < e /\ \A i \in l + 1 .. e - 1 : r[i].k \in ValueKind
Colons(r, q) == {i \in 1 .. q : r[i].k = "colon"}
Row(o, n) == [i \in 1 .. n |-> <<cur, o + i>>]

(* env holds the headers in their order. *)
HeadersKept(hs, r, q) ==
  \A l \in Colons(r, q) :
    Cardinality(Colons(r, l)) <= Len(hs) =>
      \E b, e \in 1 .. q :
        /\ NameAt(r, b, l) /\ ValueAt(r, l, e) /\ r[e].k = "crlf"
        /\ hs[Cardinality(Colons(r, l))] = <<Row(b, l - 1 - b), Row(l, e - 1 - l)>>

(* No header so far; in a name; or in or behind the value of a header that *)
(* is not in env yet.                                                      *)
Request == {"method", "star", "path", "qmark", "query"} \cup VersionKind
NoHeader(r, q) ==
  /\ \A i \in 1 .. q : r[i].k \in Request
  /\ headers = <<>> /\ off["name"] = -1 /\ off["value"] = -1 /\ len["value"] = 0
InName(r, q) ==
  /\ Len(headers) = Cardinality(Colons(r, q))
  /\ NameAt(r, off["name"], q + 1) /\ len["name"] = q - off["name"]
  /\ off["value"] = -1 /\ len["value"] = 0
Waiting(r, q) ==
  \E l \in 1 .. q, e \in {q, q + 1} :
    /\ r[l].k = "colon"
    /\ Len(headers) + 1 = Cardinality(Colons(r, q))
    /\ NameAt(r, off["name"], l) /\ len["name"] = l - 1 - off["name"]
    /\ ValueAt(r, l, e) /\ (e = q => r[e].k = "crlf")
    /\ IF e = l + 1 THEN q = l /\ off["value"] = -1 /\ len["value"] = 0
       ELSE off["value"] = l /\ len["value"] = e - 1 - l

(* A request none of whose headers has an empty value. *)
EachValued(r) == \A l \in InHead(r, {"colon"}) : ValuePlaces(r, l) # {}

Noted(r, q) ==
  /\ Extended("path", r, q) /\ Extended("query", r, q)
  /\ HeadersKept(headers, r, q)
  /\ NoHeader(r, q) \/ InName(r, q) \/ Waiting(r, q)

HeadAt(r) ==
  /\ AmidHead(r) \/ BehindHead(r)
  /\ Walk(r)
  /\ HeadEnd(r) # 0 /\ EachValued(r) =>
       Intact(mem, r, HeadRead(r)) /\ Noted(r, HeadNoted(r))

HeadInv ==
  Serving => /\ "ERROR" \in flags => step = "idle"
             /\ calls[cur] = <<>> /\ ~http_parser_has_error => HeadAt(request[cur])
=============================================================================
