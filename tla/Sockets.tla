------------------------------- MODULE Sockets -------------------------------
(***************************************************************************)
(* The other side of Jill's socket calls: clients that connect, send the   *)
(* cells of one stream each, read the answer when they like and hang up,   *)
(* and the kernel's queue of connections that wait for accept().  None of  *)
(* it is in the repository: it is what jill.cc may assume of the calls it  *)
(* makes.                                                                  *)
(***************************************************************************)
EXTENDS Integers, Sequences, HttpParser

CONSTANTS
  Clients,         \* each makes one connection
  Requests,        \* the streams of cells a client may send
  Backlog          \* what listen() was given

ASSUME SocketsAssumption ==
  /\ Requests \subseteq Seq(Cell)
  /\ Backlog \in Nat \ {0}

VARIABLES
  listening,       \* the server's socket is open and listens
  request,         \* what each client has to send
  queue,           \* connections accept() has not returned yet
  conn,            \* "new", "queued", "open" (accepted), "closed" by Jill,
                   \* or "refused"
  sent,            \* how much of its stream a client has sent
  peer,            \* "up", "fin" (hung up) or "rst" (reset)
  full             \* connections whose client has not read what was sent:
                   \* the kernel takes nothing more for it

socketVars == <<listening, request, queue, conn, sent, peer, full>>

Connection == {"new", "queued", "open", "closed", "refused"}

SocketsTypeOK ==
  /\ listening \in BOOLEAN
  /\ request \in [Clients -> Requests]
  /\ queue \in Seq(Clients)
  /\ conn \in [Clients -> Connection]
  /\ sent \in [Clients -> Nat]
  /\ peer \in [Clients -> {"up", "fin", "rst"}]
  /\ full \in SUBSET Clients

SocketsInit ==
  /\ listening = FALSE
  /\ request \in [Clients -> Requests]
  /\ queue = <<>>
  /\ conn = [c \in Clients |-> "new"]
  /\ sent = [c \in Clients |-> 0]
  /\ peer = [c \in Clients |-> "up"]
  /\ full = {}

Connect(c) ==
  /\ listening /\ conn[c] = "new"
  /\ IF Len(queue) < Backlog
       THEN queue' = Append(queue, c) /\ conn' = [conn EXCEPT ![c] = "queued"]
       ELSE queue' = queue /\ conn' = [conn EXCEPT ![c] = "refused"]
  /\ UNCHANGED <<listening, request, sent, peer, full>>

Connected(c) == conn[c] \in {"queued", "open"} /\ peer[c] = "up"

SendCell(c) ==
  /\ Connected(c)
  /\ sent[c] < Len(request[c])
  /\ sent' = [sent EXCEPT ![c] = @ + 1]
  /\ UNCHANGED <<listening, request, queue, conn, peer, full>>

HangUp(c) ==
  /\ Connected(c)
  /\ \E how \in {"fin", "rst"} : peer' = [peer EXCEPT ![c] = how]
  /\ UNCHANGED <<listening, request, queue, conn, sent, full>>

(* The client reads what has come for it. *)
TakeAnswer(c) ==
  /\ c \in full
  /\ full' = full \ {c}
  /\ UNCHANGED <<listening, request, queue, conn, sent, peer>>

ClientStep(c) == Connect(c) \/ SendCell(c) \/ HangUp(c) \/ TakeAnswer(c)

(* accept() returns the connection that has waited longest. *)
AcceptConnection ==
  /\ queue # <<>>
  /\ queue' = Tail(queue)
  /\ conn' = [conn EXCEPT ![Head(queue)] = "open"]
  /\ UNCHANGED <<listening, request, sent, peer, full>>

(* send() has handed the kernel a piece, which may be all it takes. *)
TakePiece(c) ==
  /\ full' \in {full, full \cup {c}}
  /\ UNCHANGED <<listening, request, queue, conn, sent, peer>>

CloseConnection(c) ==
  /\ conn' = [conn EXCEPT ![c] = "closed"]
  /\ full' = full \ {c}
  /\ UNCHANGED <<listening, request, queue, sent, peer>>

=============================================================================
