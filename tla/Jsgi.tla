-------------------------------- MODULE Jsgi --------------------------------
(***************************************************************************)
(* What a JSGI server promises its clients and its application, whatever   *)
(* the parser, the buffer and the network do in between: one connection    *)
(* at a time; the application is called at most once for a connection, and *)
(* only when the whole request has been sent; nothing is sent before that  *)
(* call, and what is sent is a response in the order status line, headers, *)
(* blank line, body, cut off nowhere but at its end; and a connection that *)
(* is closed stays closed.                                                 *)
(***************************************************************************)
EXTENDS Message

CONSTANTS Clients, Requests, Replies

VARIABLES
  request,         \* what each client has to send
  sent,            \* how much of it has been sent
  conn,            \* "waiting", "open" or "closed"
  called,          \* connections whose request reached the application
  reply            \* what has been sent on each connection

vars == <<request, sent, conn, called, reply>>

Init ==
  /\ request \in [Clients -> Requests]
  /\ sent = [c \in Clients |-> 0]
  /\ conn = [c \in Clients |-> "waiting"]
  /\ called = {}
  /\ reply = [c \in Clients |-> <<>>]

SendCell(c) ==
  /\ conn[c] # "closed" /\ sent[c] < Len(request[c])
  /\ sent' = [sent EXCEPT ![c] = @ + 1]
  /\ UNCHANGED <<request, conn, called, reply>>

Open(c) ==
  /\ conn[c] = "waiting"
  /\ \A d \in Clients : conn[d] # "open"
  /\ conn' = [conn EXCEPT ![c] = "open"]
  /\ UNCHANGED <<request, sent, called, reply>>

CallApp(c) ==
  /\ conn[c] = "open" /\ c \notin called
  /\ MessageEnd(request[c]) # 0 /\ MessageEnd(request[c]) <= sent[c]
  /\ called' = called \cup {c}
  /\ UNCHANGED <<request, sent, conn, reply>>

Answer(c) ==
  /\ conn[c] = "open" /\ c \in called
  /\ \E r \in Replies :
       /\ Len(reply[c]) < Len(r)
       /\ reply' = [reply EXCEPT ![c] = SubSeq(r, 1, Len(@) + 1)]
       /\ SubSeq(r, 1, Len(reply[c])) = reply[c]
  /\ UNCHANGED <<request, sent, conn, called>>

Close(c) ==
  /\ conn[c] = "open"
  /\ conn' = [conn EXCEPT ![c] = "closed"]
  /\ UNCHANGED <<request, sent, called, reply>>

Next == \E c \in Clients : SendCell(c) \/ Open(c) \/ CallApp(c) \/ Answer(c) \/ Close(c)

Spec == Init /\ [][Next]_vars
=============================================================================
