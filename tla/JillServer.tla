----------------------------- MODULE JillServer -----------------------------
(***************************************************************************)
(* Jill with what is asked of it: the requests it hands to the application *)
(* are those the clients sent, it implements the promises of Jsgi, and it  *)
(* gets round to every client.                                             *)
(***************************************************************************)
EXTENDS Jill, Message

(* The cells a text is made of. *)
CellsOf(text) == {text[i] : i \in DOMAIN text}
Sent(c, S) == {<<c, i>> : i \in S}
InOrder(text) == \A i, j \in DOMAIN text : i < j => text[i][2] < text[j][2]

(* text is what client c sent at the places S, in the order it was sent. *)
Is(text, c, S) == CellsOf(text) = Sent(c, S) /\ InOrder(text) /\ Len(text) = Cardinality(S)

IsHeader(x, c, h) == Is(x[1], c, h[1]) /\ Is(x[2], c, h[2])

(* The application sees the path, the query and the headers as the client  *)
(* sent them, wherever the boundaries between two recv() calls fell and    *)
(* whatever earlier connections left in the buffer: of the headers of one  *)
(* name the last, of every other name its header, and nothing else         *)
(* (jill.cc:73-119, 438-503).                                              *)
HeadAsSent ==
  \A c \in Clients : \A i \in DOMAIN calls[c] :
    LET a == calls[c][i]
        r == request[c]
    IN  /\ Is(a.path, c, InHead(r, {"path"}))
        /\ Is(a.query, c, InHead(r, {"query"}))
        /\ \A h \in HeaderPlaces(r) : \E x \in a.headers : IsHeader(x, c, h)
        /\ \A x \in a.headers : \E h \in HeaderPlaces(r) : IsHeader(x, c, h)

(* The application is called with the entire request body: "Buffers entire *)
(* request body before dispatching" (jill.cc:9).                           *)
EntireBody ==
  \A c \in Clients : \A i \in DOMAIN calls[c] :
    Is(calls[c][i].body, c, BodyPlaces(request[c]))

(* A request whose body is as long as its headers declare. *)
BodyDeclared(r) == MessageEnd(r) # 0 => BodyPlaces(r) = HeadEnd(r) + 1 .. MessageEnd(r)

(* Jill implements Jsgi: one connection at a time, one call of the         *)
(* application for a whole request, the response in order and after it.    *)
WholeResponse(r) == Plan([r EXCEPT !.whole = TRUE])

Promise == INSTANCE Jsgi WITH
  Replies <- {WholeResponse(r) : r \in Results},
  called <- {c \in Clients : calls[c] # <<>>},
  reply <- out,
  conn <- [c \in Clients |-> IF conn[c] \in {"open", "closed"} THEN conn[c] ELSE "waiting"]

ImplementsJsgi == Promise!Spec

-----------------------------------------------------------------------------
(***************************************************************************)
(* Fairness.  The server thread runs whenever it can, and the application  *)
(* returns.  Neither recv() (jill.cc:661) nor send() (157, 317-329, 343)   *)
(* has a timeout, so what ends their wait is assumed of the client: it     *)
(* sends what it has to send, one that will never send a whole request     *)
(* hangs up in the end, and one that gets an answer reads it.              *)
(***************************************************************************)
GivesUp(c) == MessageEnd(request[c]) = 0 /\ sent[c] = Len(request[c]) /\ HangUp(c)

Fairness ==
  /\ WF_vars(Server)
  /\ \A c \in Clients : /\ WF_vars(SendCell(c) /\ UNCHANGED <<parserVars, jillVars>>)
                        /\ WF_vars(GivesUp(c) /\ UNCHANGED <<parserVars, jillVars>>)
                        /\ WF_vars(TakeAnswer(c) /\ UNCHANGED <<parserVars, jillVars>>)

FairSpec == Spec /\ Fairness

(* Every client that got into the queue is served and its connection       *)
(* closed, unless JILL_run has thrown: also when the client served before  *)
(* it was slow to send or to read, or left in between.                     *)
EveryClientServed ==
  \A c \in Clients : conn[c] = "queued" ~> (conn[c] = "closed" \/ pc = "thrown")
=============================================================================
