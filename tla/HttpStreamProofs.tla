-------------------------- MODULE HttpStreamProofs --------------------------
(***************************************************************************)
(* Proofs about HttpStream, for any streams, valid or not, and any way of  *)
(* cutting them: the parser stays within its data, what it announces comes *)
(* in the order messages have, and a stream that it does not refuse is     *)
(* passed on cell by cell, each once, in order and under its own name.     *)
(***************************************************************************)
EXTENDS HttpStream, HttpParserProofs, SequenceTheorems, FiniteSetTheorems

Notice == {"message_begin", "headers_complete", "message_complete"}
Heard == [on : Data \cup Notice, text : Seq(Nat)]

StreamTypeOK ==
  /\ stream \in Streams /\ ended \in BOOLEAN
  /\ heard \in Seq(Heard)

(* The last thing the callbacks said; before the first message, as behind  *)
(* a message.                                                              *)
Last == IF heard = <<>> THEN "message_complete" ELSE heard[Len(heard)].on

(* What was said last tells where in a message the machine is.  Only the   *)
(* end of a body that is eaten for ever leaves no trace in its state: it   *)
(* comes with the end of the stream.                                       *)
HeadStates == CState \ ({"start", "error"} \cup ChunkState)
InHeaders == Field \cup {"message_begin"}
InBody == {"headers_complete", "body"}
Eats == step \in {"skip", "end_request", "eat_forever"} \/ flags \cap {"EATING", "EAT_FOREVER"} # {}
Through == ended /\ step = "idle" /\ "EAT_FOREVER" \in flags

TurnInv ==
  /\ cs \in HeadStates /\ step # "body_logic" => Last \in InHeaders
  /\ step = "body_logic" => Last = "headers_complete"
  /\ cs \in ChunkState => Last \in InBody
  /\ cs = "start" /\ Eats /\ ~Through => Last \in InBody
  /\ cs = "start" /\ ~Eats => Last = "message_complete"
  /\ field # None => Last # "message_complete"
  /\ step = "eat_forever" /\ p = pe => ended
  /\ cs = "start" /\ Eats /\ step # "end_request" => "CHUNKED" \notin flags

(* All places in h are at most n. *)
Within(h, n) == \A i \in DOMAIN h : \A j \in DOMAIN h[i].text : h[i].text[j] <= n

(* The cells passed on, of those read: a field that is being read waits    *)
(* for the end of the call.                                                *)
Passed == IF field # None /\ step = "exec" THEN markAt ELSE p
KindAt(K, n) == {i \in 1 .. n : stream[i].k \in K}
(* The blank line is announced before the cursor leaves it. *)
Announced == IF step = "body_logic" THEN p + 1 ELSE p

(* As long as nothing was refused: what was passed on under the name of a  *)
(* field, what waits, and what was announced are the cells read so far but *)
(* for those that were passed on as a body, whatever these are.            *)
PassInv ==
  /\ "ERROR" \in flags => step = "idle"
  /\ ended => pe = Len(stream)
  /\ ~http_parser_has_error =>
       /\ InOrder(heard) /\ Within(heard, Passed)
       /\ step = "idle" => p = pe
       /\ step = "body_logic" => stream[p + 1].k = "end"
       /\ PassedAs("body") \subseteq 1 .. Passed
       /\ \A on \in Field : PassedAs(on) = KindAt(KindsOf(on), Passed) \ PassedAs("body")
       /\ KindAt({"body"}, p) \subseteq PassedAs("body")
       /\ \A i \in Passed + 1 .. p : stream[i].k \in KindsOf(field)
       /\ Count("message_begin") = Cardinality(KindAt({"method"}, p) \ PassedAs("body"))
       /\ Count("headers_complete") = Cardinality(KindAt({"end"}, Announced) \ PassedAs("body"))
       /\ Count("message_begin") = Count("message_complete")
                                   + (IF Last = "message_complete" THEN 0 ELSE 1)

StreamInv ==
  /\ ParserTypeOK /\ ParserInv /\ StreamTypeOK
  /\ StaysWithinData /\ TurnInv /\ MessagesInTurn

-----------------------------------------------------------------------------
(* The call continues the text that was heard last. *)
Continues(cb) == heard # <<>> /\ cb.on \in Data /\ heard[Len(heard)].on = cb.on

(* It only lengthens that text. *)
LEMMA HearMore ==
  ASSUME StreamTypeOK, NEW cb, cb.on \in Data \cup Notice, cb.at \in Nat, cb.length \in Nat,
         Continues(cb)
  PROVE  LET places == [i \in 1 .. cb.length |-> cb.at + i] IN
         /\ Hear(cb) \in Seq(Heard) /\ Len(Hear(cb)) = Len(heard)
         /\ \A i \in DOMAIN heard : Hear(cb)[i].on = heard[i].on
         /\ \A i \in 1 .. Len(heard) - 1 : Hear(cb)[i] = heard[i]
         /\ Hear(cb)[Len(heard)].text = heard[Len(heard)].text \o places
<1>. DEFINE places == [i \in 1 .. cb.length |-> cb.at + i]
            k == Len(heard)
            more == [heard[k] EXCEPT !.text = @ \o places]
<1>1. heard \in Seq(Heard) /\ k \in DOMAIN heard /\ k \in Nat /\ heard[k] \in Heard
  BY DEF StreamTypeOK, Continues
<1>2. places \in Seq(Nat)
  OBVIOUS
<1>3. heard[k].text \in Seq(Nat) /\ heard[k].on \in Data \cup Notice
  BY <1>1 DEF Heard
<1>. HIDE DEF places
<1>6. heard[k].text \o places \in Seq(Nat)
  BY <1>2, <1>3
<1>7. more \in Heard /\ more.on = heard[k].on /\ more.text = heard[k].text \o places
  BY <1>1, <1>3, <1>6 DEF Heard
<1>4. Hear(cb) = [heard EXCEPT ![k] = more]
  BY DEF Hear, Continues, Data, Notice, None, Field, places
<1>. HIDE DEF more, k
<1>5. /\ Hear(cb) \in Seq(Heard) /\ Len(Hear(cb)) = Len(heard)
      /\ \A i \in DOMAIN heard : Hear(cb)[i] = IF i = k THEN more ELSE heard[i]
  BY <1>1, <1>7, <1>4
<1>8. \A i \in 1 .. k - 1 : i \in DOMAIN heard /\ i # k
  BY <1>1
<1>. QED
  BY <1>1, <1>5, <1>7, <1>8 DEF k, places

(* Any other call is a new entry. *)
LEMMA HearNew ==
  ASSUME StreamTypeOK, NEW cb, cb.on \in Data \cup Notice, cb.at \in Nat, cb.length \in Nat,
         ~Continues(cb)
  PROVE  LET places == [i \in 1 .. cb.length |-> cb.at + i] IN
         /\ Hear(cb) \in Seq(Heard) /\ Len(Hear(cb)) = Len(heard) + 1
         /\ \A i \in DOMAIN heard : Hear(cb)[i] = heard[i]
         /\ Hear(cb)[Len(heard) + 1].on = cb.on
         /\ Hear(cb)[Len(heard) + 1].text = places
<1>. DEFINE places == [i \in 1 .. cb.length |-> cb.at + i]
            new == [on |-> cb.on, text |-> places]
<1>1. heard \in Seq(Heard)
  BY DEF StreamTypeOK
<1>2. places \in Seq(Nat)
  OBVIOUS
<1>3. new \in Heard /\ new.on = cb.on /\ new.text = places
  BY <1>2 DEF Heard
<1>4. Hear(cb) = Append(heard, new)
  BY DEF Hear, Continues, Data, Notice, None, Field
<1>. HIDE DEF new, places
<1>. QED
  BY <1>1, <1>3, <1>4 DEF places

(* A bound on two sequences is one on the two in a row. *)
LEMMA ConcatBound ==
  ASSUME NEW a \in Seq(Nat), NEW b \in Seq(Nat), NEW n \in Nat,
         \A j \in DOMAIN a : a[j] <= n, \A j \in DOMAIN b : b[j] <= n
  PROVE  \A j \in DOMAIN (a \o b) : (a \o b)[j] <= n
<1>. TAKE j \in DOMAIN (a \o b)
<1>1. j \in 1 .. Len(a) + Len(b)
  OBVIOUS
<1>2. CASE j <= Len(a)
  BY <1>1, <1>2
<1>3. CASE j > Len(a)
  <2>1. j - Len(a) \in DOMAIN b /\ (a \o b)[j] = b[j - Len(a)]
    BY <1>1, <1>3
  <2>. QED BY <2>1
<1>. QED BY <1>1, <1>2, <1>3

(* What was heard stays within what has been read. *)
LEMMA HearWithin ==
  ASSUME StreamTypeOK, NEW cb, cb.on \in Data \cup Notice, cb.at \in Nat, cb.length \in Nat,
         NEW m \in Nat, NEW n \in Nat, m <= n, cb.at + cb.length <= n, Within(heard, m)
  PROVE  Within(Hear(cb), n)
<1>. DEFINE places == [i \in 1 .. cb.length |-> cb.at + i]
            k == Len(heard)
<1>1. places \in Seq(Nat) /\ Len(places) = cb.length /\ \A j \in DOMAIN places : places[j] <= n
  OBVIOUS
<1>2. heard \in Seq(Heard) /\ k \in Nat /\ \A i \in DOMAIN heard : heard[i].text \in Seq(Nat)
  <2>1. heard \in Seq(Heard) /\ \A i \in DOMAIN heard : heard[i] \in Heard
    BY DEF StreamTypeOK
  <2>. QED BY <2>1 DEF Heard
<1>3. \A i \in DOMAIN heard : \A j \in DOMAIN heard[i].text : heard[i].text[j] <= n
  BY <1>2 DEF Within
<1>4. CASE Continues(cb)
  <2>1. /\ Hear(cb) \in Seq(Heard) /\ Len(Hear(cb)) = k
        /\ \A i \in 1 .. k - 1 : Hear(cb)[i] = heard[i]
        /\ Hear(cb)[k].text = heard[k].text \o places
    BY <1>4, HearMore
  <2>2. k \in DOMAIN heard
    BY <1>2, <1>4 DEF Continues
  <2>3. heard[k].text \in Seq(Nat) /\ \A j \in DOMAIN heard[k].text : heard[k].text[j] <= n
    BY <1>2, <1>3, <2>2
  <2>. HIDE DEF places
  <2>4. \A j \in DOMAIN (heard[k].text \o places) : (heard[k].text \o places)[j] <= n
    BY <1>1, <2>3, ConcatBound
  <2>5. \A i \in DOMAIN Hear(cb) : i \in 1 .. k - 1 \/ i = k
    BY <1>2, <2>1
  <2>. QED
    <3>. SUFFICES ASSUME NEW i \in DOMAIN Hear(cb), NEW j \in DOMAIN Hear(cb)[i].text
                  PROVE  Hear(cb)[i].text[j] <= n
      BY Zenon DEF Within
    <3>1. CASE i \in 1 .. k - 1
      <4>1. i \in DOMAIN heard
        BY <1>2, <3>1
      <4>2. Hear(cb)[i] = heard[i]
        BY <2>1, <3>1
      <4>. QED BY <1>3, <4>1, <4>2
    <3>2. CASE i = k
      <4>1. Hear(cb)[i].text = heard[k].text \o places
        BY <2>1, <3>2
      <4>. QED BY <2>4, <4>1, Zenon
    <3>. QED BY <2>5, <3>1, <3>2
<1>5. CASE ~Continues(cb)
  <2>1. /\ Hear(cb) \in Seq(Heard) /\ Len(Hear(cb)) = k + 1
        /\ \A i \in DOMAIN heard : Hear(cb)[i] = heard[i]
        /\ Hear(cb)[k + 1].text = places
    BY <1>5, HearNew
  <2>. HIDE DEF places
  <2>2. \A i \in DOMAIN Hear(cb) : i \in DOMAIN heard \/ i = k + 1
    BY <1>2, <2>1
  <2>. QED
    BY <1>1, <1>3, <2>1, <2>2 DEF Within
<1>. QED
  BY <1>4, <1>5

(* A call that fits what was heard last keeps the messages in turn. *)
LEMMA HearInTurn ==
  ASSUME StreamTypeOK, NEW cb, cb.on \in Data \cup Notice, cb.at \in Nat, cb.length \in Nat,
         MessagesInTurn, heard' = Hear(cb),
         cb.on = "message_begin" <=> Last = "message_complete",
         cb.on = "body" => Last \in InBody
  PROVE  heard' \in Seq(Heard) /\ Last' = cb.on /\ MessagesInTurn'
<1>. DEFINE k == Len(heard)
<1>1. heard \in Seq(Heard) /\ k \in Nat
  BY DEF StreamTypeOK
<1>2. CASE Continues(cb)
  <2>1. /\ Hear(cb) \in Seq(Heard) /\ Len(Hear(cb)) = k
        /\ \A i \in DOMAIN heard : Hear(cb)[i].on = heard[i].on
    BY <1>2, HearMore
  <2>2. heard' # <<>> /\ DOMAIN heard' = DOMAIN heard /\ k \in DOMAIN heard
    BY <1>1, <1>2, <2>1 DEF Continues
  <2>3. Last' = cb.on
    BY <1>2, <2>1, <2>2 DEF Last, Continues
  <2>4. \A i \in DOMAIN heard : heard'[i].on = heard[i].on /\ (i = 1 \/ i - 1 \in DOMAIN heard)
    BY <1>1, <2>1
  <2>5. MessagesInTurn'
    <3>. SUFFICES ASSUME NEW i \in DOMAIN heard'
                  PROVE  /\ heard'[i].on = "message_begin" <=> i = 1 \/ heard'[i - 1].on = "message_complete"
                         /\ heard'[i].on = "body" => heard'[i - 1].on = "headers_complete"
      BY Zenon DEF MessagesInTurn
    <3>1. /\ heard[i].on = "message_begin" <=> i = 1 \/ heard[i - 1].on = "message_complete"
          /\ heard[i].on = "body" => heard[i - 1].on = "headers_complete"
      BY <2>2 DEF MessagesInTurn
    <3>2. CASE i = 1
      <4>1. heard[i].on # "body"
        BY <1>1, <2>2, <3>1, <3>2
      <4>. QED BY <2>2, <2>4, <3>1, <3>2, <4>1
    <3>3. CASE i # 1
      BY <2>2, <2>4, <3>1, <3>3
    <3>. QED BY <3>2, <3>3
  <2>. QED BY <2>1, <2>3, <2>5
<1>3. CASE ~Continues(cb)
  <2>1. /\ Hear(cb) \in Seq(Heard) /\ Len(Hear(cb)) = k + 1
        /\ \A i \in DOMAIN heard : Hear(cb)[i] = heard[i]
        /\ Hear(cb)[k + 1].on = cb.on
    BY <1>3, HearNew
  <2>2. heard' # <<>> /\ Last' = cb.on
    BY <1>1, <2>1 DEF Last
  <2>3. \A i \in DOMAIN heard' : i \in DOMAIN heard \/ i = k + 1
    BY <1>1, <2>1
  <2>4. MessagesInTurn'
    <3>. SUFFICES ASSUME NEW i \in DOMAIN heard'
                  PROVE  /\ heard'[i].on = "message_begin" <=> i = 1 \/ heard'[i - 1].on = "message_complete"
                         /\ heard'[i].on = "body" => heard'[i - 1].on = "headers_complete"
      BY Zenon DEF MessagesInTurn
    <3>1. CASE i \in DOMAIN heard /\ i # 1
      <4>1. i - 1 \in DOMAIN heard
        BY <1>1, <3>1
      <4>. QED BY <2>1, <3>1, <4>1 DEF MessagesInTurn
    <3>2. CASE i \in DOMAIN heard /\ i = 1
      <4>1. heard[1].on = "message_begin"
        BY <3>2 DEF MessagesInTurn
      <4>. QED BY <2>1, <3>2, <4>1
    <3>3. CASE i = k + 1 /\ k = 0
      <4>1. Last = "message_complete"
        BY <1>1, <3>3 DEF Last
      <4>. QED BY <2>1, <3>3, <4>1 DEF InBody
    <3>4. CASE i = k + 1 /\ k # 0
      <4>1. heard # <<>> /\ k \in DOMAIN heard /\ Last = heard[k].on /\ heard'[k] = heard[k]
        BY <1>1, <2>1, <3>4 DEF Last
      <4>2. i - 1 = k /\ i # 1
        BY <1>1, <3>4
      <4>. QED BY <1>3, <2>1, <3>4, <4>1, <4>2 DEF InBody, Continues, Data
    <3>. QED BY <2>3, <3>1, <3>2, <3>3, <3>4
  <2>. QED BY <2>1, <2>2, <2>4
<1>. QED BY <1>2, <1>3

-----------------------------------------------------------------------------
(***************************************************************************)
(* What each step of the parser says, and where it leaves the machine.     *)
(***************************************************************************)
(* A call about a field is in its place; a notification says where the     *)
(* machine has got to.                                                     *)
Fits(on) ==
  /\ on \in Data \cup Notice \cup {None}
  /\ on = "message_begin" <=> (on # None /\ Last = "message_complete")
  /\ on = "body" => Last \in InBody

Said(on) == IF on = None THEN Last ELSE on

(* The step leads to a state in which last may be what was heard last.     *)
LeadsTo(last) ==
  /\ cs' \in HeadStates /\ step' # "body_logic" => last \in InHeaders
  /\ step' = "body_logic" => last = "headers_complete"
  /\ cs' \in ChunkState => last \in InBody
  /\ cs' = "start" /\ Eats' /\ ~Through' => last \in InBody
  /\ cs' = "start" /\ ~Eats' => last = "message_complete"
  /\ field' # None => last # "message_complete"
  /\ step' = "eat_forever" /\ p' = pe' => ended'
  /\ cs' = "start" /\ Eats' /\ step' # "end_request" => "CHUNKED" \notin flags'

(* While a field is read, the headers are; and so they are where the       *)
(* machine has a transition of the grammar but for the chunks and the      *)
(* start.                                                                  *)
LEMMA FieldInHeaders ==
  ASSUME ParserTypeOK, ParserInv, TurnInv, field # None
  PROVE  /\ Last # "message_complete" /\ field \in Field /\ cs # "start"
         /\ step \in {"exec", "idle"}
BY DEF ParserTypeOK, ParserInv, MarkInv, PhaseInv, EatInv, TurnInv, Field, Step

(* Which transitions lead from which part of a message to which.           *)
LEMMA EdgeParts ==
  ASSUME NEW e \in Edge
  PROVE  /\ e[3] \in HeadStates => e[1] \in HeadStates \cup {"start"}
         /\ e[3] \in HeadStates \cup ChunkState
         /\ e[1] = "start" <=> e[2] = "method"
         /\ e[1] = "hdr" => e[2] # "end"
BY DEF Edge, HeadStates, CState, Field, ChunkState, ValueKind, VersionKind

LEMMA SaysAdvance ==
  ASSUME ParserTypeOK, ParserInv, TurnInv, NEW c \in Cell, Advance(c), UNCHANGED ended
  PROVE  Fits(Callback(c).on) /\ LeadsTo(Said(Callback(c).on))
<1>. USE DEF Call, Notify, NoCall, None
<1>. DEFINE on == Callback(c).on
<1>1. PICK e \in Edge : e[1] = cs /\ e[2] = c.k /\ cs' = e[3] /\ field' = FieldOf(e[3])
  BY DEF Advance
<1>2. Reading /\ Accepts(c) /\ step' = "exec" /\ step = "exec" /\ on = ReadingCall(c).on
  BY <1>1 DEF Advance, Accepts, Reading, Callback
<1>3. ~Eats /\ cs # "error"
  BY <1>2, NotEating DEF Reading, Eats
<1>4. CASE cs \in ChunkState
  <2>1. field = None /\ on = None
    BY <1>1, <1>2, <1>4, NoField
       DEF ParserInv, ChunkState, Field, ReadingCall, Closes, EmptyField
  <2>2. cs' \in ChunkState
    BY <1>1, <1>4, EdgeParts DEF HeadStates, ChunkState
  <2>3. Last \in InBody /\ field' = None
    BY <1>1, <1>4, <2>2 DEF TurnInv, FieldOf, Field, ChunkState
  <2>. QED
    BY <1>2, <2>1, <2>2, <2>3 DEF Fits, Said, LeadsTo, InBody, HeadStates, ChunkState
<1>5. CASE cs = "start"
  <2>1. field = None /\ Last = "message_complete"
    BY <1>3, <1>5, NoField DEF ParserInv, Field, TurnInv
  <2>2. on = "message_begin"
    BY <1>1, <1>2, <1>5, <2>1, EdgeParts DEF ReadingCall, Closes, EmptyField
  <2>3. cs' \in HeadStates
    BY <1>1, <1>5, EdgeFacts, EdgeParts DEF ChunkState
  <2>. QED
    BY <1>2, <2>1, <2>2, <2>3
       DEF Fits, Said, LeadsTo, InHeaders, HeadStates, ChunkState, Notice
<1>6. CASE cs \in HeadStates
  <2>1. Last \in InHeaders
    BY <1>2, <1>6 DEF TurnInv
  <2>2. on \in Field \cup {None}
    <3>1. CASE Closes(c)
      <4>1. field \in Field /\ ReadingCall(c) = FieldCall /\ ~FieldTooLong
        BY <1>2, <3>1 DEF Closes, ReadingCall, ParserTypeOK, Advance
      <4>. QED BY <1>2, <4>1 DEF FieldCall, Field
    <3>2. CASE ~Closes(c)
      BY <1>1, <1>2, <1>6, <3>2, EdgeParts DEF ReadingCall, EmptyField, Field, HeadStates
    <3>. QED BY <3>1, <3>2
  <2>3. cs' \in HeadStates
    BY <1>1, <1>6, EdgeFacts, EdgeParts DEF HeadStates
  <2>4. Said(on) \in InHeaders /\ Fits(on)
    BY <2>1, <2>2 DEF Said, InHeaders, Fits, Data, Field
  <2>. QED
    BY <1>2, <2>3, <2>4 DEF LeadsTo, InHeaders, HeadStates, Field
<1>. QED
  BY <1>3, <1>4, <1>5, <1>6 DEF ParserTypeOK, HeadStates

(* A field that is cut off or refused is passed on, or nothing is.         *)
LEMMA SaysField ==
  ASSUME ParserTypeOK, ParserInv, TurnInv, NEW c \in Cell, UNCHANGED <<ended, cs, p, pe, field>>,
         RefuseField(c) \/ RefuseDigit(c) \/ Leave \/ (RefuseURI(c) /\ ~Reading)
  PROVE  Fits(Callback(c).on) /\ LeadsTo(Said(Callback(c).on))
<1>. USE DEF Call, Notify, NoCall, None
<1>. DEFINE on == Callback(c).on
<1>1. step = "exec" /\ step' = "idle" /\ flags' \in {flags, flags \cup {"ERROR"}}
  BY DEF RefuseField, RefuseURI, RefuseDigit, Leave, Reading, lengthVars
<1>2. on \in {None, field} /\ on \notin {"message_begin", "body"}
  <2>1. Reading => Accepts(c) /\ (Closes(c) \/ c.k = "digit")
    BY DEF RefuseField, RefuseURI, RefuseDigit, Leave
  <2>2. Reading /\ ~Closes(c) => ReadingCall(c) = NoCall
    BY <2>1 DEF ReadingCall, EmptyField, VersionKind
  <2>3. on \in {None, field}
    BY <1>1, <2>1, <2>2 DEF Callback, ReadingCall, FieldCall
  <2>. QED BY <2>3 DEF ParserTypeOK, Field
<1>3. CASE field = None
  <2>1. Said(on) = Last /\ Fits(on)
    BY <1>2, <1>3 DEF Said, Fits
  <2>2. cs = "start" => (Eats' <=> Eats) /\ ~Through
    BY <1>1 DEF Eats, Through
  <2>3. cs = "start" /\ ~Through' => ~Through
    BY <1>1 DEF Through
  <2>. QED BY <1>1, <2>1, <2>2 DEF LeadsTo, TurnInv
<1>4. CASE field # None
  <2>1. Last # "message_complete" /\ field \in Field /\ cs # "start"
    BY <1>4, FieldInHeaders
  <2>2. cs \in HeadStates \/ cs = "error"
    BY <1>4, <2>1 DEF ParserInv, MarkInv, ParserTypeOK, HeadStates, CState, ChunkState, Field
  <2>3. Last \in InHeaders \/ cs = "error"
    BY <1>1, <2>2 DEF TurnInv
  <2>4. on \in Field \cup {None}
    BY <1>2, <2>1
  <2>5. Fits(on) /\ Said(on) # "message_complete"
    BY <1>2, <2>1, <2>4 DEF Said, Fits, Data, Field
  <2>6. cs \in HeadStates => Said(on) \in InHeaders
    BY <2>3, <2>4 DEF Said, InHeaders, HeadStates
  <2>7. cs \notin ChunkState
    BY <2>2 DEF ChunkState, HeadStates
  <2>. QED BY <1>1, <2>1, <2>5, <2>6, <2>7 DEF LeadsTo
<1>. QED BY <1>3, <1>4

(* A URI that is refused at its end has been passed on, as the grammar's    *)
(* transition passes it on.                                                *)
LEMMA SaysURI ==
  ASSUME ParserTypeOK, ParserInv, TurnInv, NEW c \in Cell, RefuseURI(c), Reading
  PROVE  Fits(Callback(c).on) /\ LeadsTo(Said(Callback(c).on))
<1>. USE DEF Call, Notify, NoCall, None
<1>. DEFINE on == Callback(c).on
<1>1. cs \in UriState /\ c.k \in VersionKind /\ cs' = "hdr" /\ field' = None /\ step' = "idle"
  BY DEF RefuseURI, EndsURI
<1>2. cs \in HeadStates /\ step = "exec" /\ cs # "start" /\ c.k # "end"
  BY <1>1 DEF UriState, Field, VersionKind, HeadStates, CState, ChunkState, Reading
<1>3. Last \in InHeaders
  BY <1>2 DEF TurnInv
<1>4. on \in Field \cup {None}
  <2>1. on = ReadingCall(c).on
    BY DEF Callback
  <2>2. FieldCall.on \in Field \cup {None}
    BY DEF FieldCall, ParserTypeOK
  <2>. QED BY <1>2, <2>1, <2>2 DEF ReadingCall, EmptyField, Field
<1>5. Said(on) \in InHeaders /\ Fits(on)
  BY <1>3, <1>4 DEF Said, InHeaders, Fits, Data, Field
<1>. QED
  BY <1>1, <1>5 DEF LeadsTo, InHeaders, HeadStates, ChunkState, Field

(* The steps between the headers of one message and its end.               *)
LEMMA SaysBody ==
  ASSUME ParserTypeOK, ParserInv, TurnInv, NEW c \in Cell, UNCHANGED ended,
         \/ HeadersComplete(c) \/ BodyLogic \/ ChunkData \/ SkipBody \/ LastChunk(c)
  PROVE  Fits(Callback(c).on) /\ LeadsTo(Said(Callback(c).on))
<1>. USE DEF Call, Notify, NoCall, None
<1>. DEFINE on == Callback(c).on
<1>1. field = None /\ field' = None
  BY NoField DEF HeadersComplete, BodyLogic, ChunkData, SkipBody, LastChunk, markVars,
                 ParserInv, PhaseInv, Field
<1>2. CASE HeadersComplete(c)
  <2>1. on = "headers_complete" /\ Last \in InHeaders
    BY <1>1, <1>2 DEF HeadersComplete, Callback, ReadingCall, Closes, EmptyField, TurnInv,
                      HeadStates, CState, ChunkState, Reading
  <2>. QED
    BY <1>1, <1>2, <2>1 DEF HeadersComplete, Fits, Said, LeadsTo, InHeaders, Notice, ChunkState, Field
<1>3. CASE BodyLogic
  <2>1. on = None /\ Last = "headers_complete"
    BY <1>3 DEF BodyLogic, Callback, Reading, TurnInv
  <2>2. cs' \in {"chunk", "start"} /\ step' \in {"exec", "skip"} /\ (cs' = "start" => step' = "skip")
    BY <1>3 DEF BodyLogic
  <2>3. cs' = "start" => "CHUNKED" \notin flags'
    BY <1>3 DEF BodyLogic
  <2>. QED
    BY <1>1, <2>1, <2>2, <2>3 DEF Fits, Said, LeadsTo, InBody, HeadStates, ChunkState, Eats
<1>4. CASE ChunkData
  <2>1. on = None /\ Last \in InBody
    BY <1>1, <1>4 DEF ChunkData, Callback, ReadingCall, Closes, EmptyField, TurnInv, ChunkState, Reading
  <2>. QED
    BY <1>1, <1>4, <2>1 DEF ChunkData, Fits, Said, LeadsTo, InBody, HeadStates, ChunkState
<1>5. CASE SkipBody
  <2>1. on \in {None, "body"}
    BY <1>5 DEF SkipBody, Callback, Reading, BodyCall
  <2>2. cs \in {"start", "chunk_end"} /\ cs' = cs /\ step = "skip" /\ step' \in {"exec", "end_request"}
    BY <1>5 DEF SkipBody, ParserInv, PhaseInv
  <2>3. Last \in InBody
    BY <2>2 DEF TurnInv, Eats, Through, ChunkState
  <2>4. cs = "start" => "CHUNKED" \notin flags
    BY <2>2 DEF TurnInv, Eats
  <2>5. cs = "start" => Eats' /\ "CHUNKED" \notin flags'
    BY <1>5, <2>2, <2>4 DEF SkipBody, Eats
  <2>. QED
    BY <1>1, <2>1, <2>2, <2>3, <2>5
       DEF Fits, Said, LeadsTo, InBody, HeadStates, ChunkState, Data
<1>6. CASE LastChunk(c)
  <2>1. on = None /\ Last \in InBody
    BY <1>1, <1>6 DEF LastChunk, Callback, ReadingCall, Closes, EmptyField, TurnInv, ChunkState, Reading
  <2>. QED
    BY <1>1, <1>6, <2>1 DEF LastChunk, Fits, Said, LeadsTo, InBody, HeadStates, ChunkState, Eats
<1>. QED BY <1>2, <1>3, <1>4, <1>5, <1>6

(* The end of a message, and what the grammar refuses.                     *)
LEMMA SaysEnd ==
  ASSUME ParserTypeOK, ParserInv, TurnInv, NEW c \in Cell, UNCHANGED ended,
         EatForever \/ EndRequest \/ Reject(c)
  PROVE  Fits(Callback(c).on) /\ LeadsTo(Said(Callback(c).on))
<1>. USE DEF Call, Notify, NoCall, None
<1>. DEFINE on == Callback(c).on
<1>1. CASE EatForever
  <2>1. cs = "start" /\ field = None /\ "EAT_FOREVER" \in flags /\ Last \in InBody /\ (p = pe => ended)
    BY <1>1, NoField DEF EatForever, ParserInv, PhaseInv, EatInv, TurnInv, Eats, Through, Field
  <2>2. on = IF p = pe THEN "message_complete" ELSE "body"
    BY <1>1 DEF EatForever, Callback, Reading, BodyCall, Remaining, ParserTypeOK, ParserInv, MarkInv
  <2>3. Eats' /\ (Through' <=> ended) /\ step' = "idle" /\ cs' = cs /\ field' = None
    BY <1>1, <2>1 DEF EatForever, Eats, Through, lengthVars, markVars
  <2>4. "CHUNKED" \notin flags'
    BY <1>1, <2>1 DEF EatForever, lengthVars, TurnInv, Eats
  <2>. QED
    BY <2>1, <2>2, <2>3, <2>4 DEF Fits, Said, LeadsTo, InBody, HeadStates, ChunkState, Data, Notice
<1>2. CASE EndRequest
  <2>1. cs = "start" /\ Last \in InBody
    BY <1>2 DEF EndRequest, ParserInv, PhaseInv, TurnInv, Eats, Through
  <2>2. on = "message_complete"
    BY <1>2 DEF EndRequest, Callback, Reading
  <2>3. ~Eats' /\ step' = "exec" /\ cs' = cs /\ field' = None
    BY <1>2 DEF EndRequest, Eats
  <2>. QED
    BY <2>1, <2>2, <2>3 DEF Fits, Said, LeadsTo, InBody, HeadStates, ChunkState, Notice
<1>3. CASE Reject(c)
  <2>1. ~Accepts(c) /\ Reading
    BY <1>3 DEF Reject
  <2>2. \A s : <<cs, c.k, s>> \notin Edge
    BY <2>1 DEF Accepts
  <2>3. on = None
    <3>1. ~(cs = "start" /\ c.k = "method") /\ ~(cs = "hdr" /\ c.k = "end")
      BY <2>1, <2>2 DEF Edge, Accepts
    <3>2. EmptyField(cs, c.k) = None
      <4>1. <<"sep", "crlf", "hdr">> \in Edge /\ \A k \in VersionKind : <<"query0", k, "hdr">> \in Edge
        BY DEF Edge
      <4>. QED BY <2>2, <4>1 DEF EmptyField
    <3>. QED BY <2>1, <3>1, <3>2 DEF Callback, ReadingCall
  <2>4. cs' = "error" /\ field' = field /\ step' = "exec"
    BY <1>3 DEF Reject, Reading, markVars
  <2>. QED
    BY <2>3, <2>4 DEF Fits, Said, LeadsTo, HeadStates, ChunkState, TurnInv
<1>. QED BY <1>1, <1>2, <1>3

(* Every step of a running call says what fits, and is followed by what    *)
(* fits.                                                                   *)
LEMMA Says ==
  ASSUME ParserTypeOK, ParserInv, TurnInv, NEW c \in Cell, ParserStep(c), UNCHANGED ended
  PROVE  Fits(Callback(c).on) /\ LeadsTo(Said(Callback(c).on))
<1>1. RefuseField(c) \/ RefuseDigit(c) \/ Leave \/ (RefuseURI(c) /\ ~Reading)
        => UNCHANGED <<cs, p, pe, field>>
  BY DEF RefuseField, RefuseURI, RefuseDigit, Leave, markVars
<1>. QED
  BY <1>1, SaysAdvance, SaysURI, SaysField, SaysBody, SaysEnd DEF ParserStep

(* A call for a field or a body is about what has been read.               *)
LEMMA CallWithin ==
  ASSUME ParserTypeOK, ParserInv, NEW c \in Cell, ParserStep(c), Callback(c).on # None
  PROVE  /\ Callback(c).at \in Nat /\ Callback(c).length \in Nat
         /\ Callback(c).at + Callback(c).length <= p'
<1>1. CASE Callback(c).on \in Field
  BY <1>1, FieldCallStep, CursorStep, ParserStepType DEF ParserTypeOK
<1>2. CASE Callback(c).on = "body"
  BY <1>2, BodyCallStep DEF ParserTypeOK
<1>3. CASE Callback(c).on \notin Field \cup {"body"}
  <2>1. Callback(c).at = 0 /\ Callback(c).length = 0
    BY <1>3 DEF Callback, ReadingCall, FieldCall, BodyCall, EmptyField, Call, Notify, NoCall,
                ParserTypeOK, Field, None
  <2>. QED BY <2>1, ParserStepType DEF ParserTypeOK
<1>. QED BY <1>1, <1>2, <1>3

-----------------------------------------------------------------------------
(***************************************************************************)
(* The specification.                                                      *)
(***************************************************************************)
LEMMA InitStreamInv == Init => StreamInv
<1>. SUFFICES ASSUME Init PROVE StreamInv
  OBVIOUS
<1>1. ParserTypeOK /\ ParserInv
  BY ParserInitInv DEF Init
<1>2. StreamTypeOK
  <2>1. heard = <<>>
    BY DEF Init
  <2>2. heard \in Seq(Heard)
    BY <2>1, EmptySeq
  <2>. QED BY <2>2 DEF Init, StreamTypeOK
<1>3. stream \in Seq(Cell)
  BY <1>2, StreamsAssumption DEF StreamTypeOK
<1>4. StaysWithinData /\ TurnInv /\ MessagesInTurn
  BY <1>3 DEF Init, ParserInit, StaysWithinData, TurnInv, MessagesInTurn, Last, Eats, Through,
              HeadStates, ChunkState
<1>. QED BY <1>1, <1>2, <1>4 DEF StreamInv

LEMMA FeedStep ==
  ASSUME StreamInv, Feed
  PROVE  StreamInv'
<1>1. PICK n \in 0 .. Len(stream) - pe : /\ n = 0 => pe = Len(stream)
                                         /\ ended' = (n = 0)
                                         /\ http_parser_execute(pe, n)
  BY DEF Feed
<1>2. stream \in Seq(Cell) /\ pe \in Nat /\ n \in Nat /\ pe + n <= Len(stream)
  BY StreamsAssumption DEF StreamInv, StreamTypeOK, ParserTypeOK
<1>3. ParserTypeOK' /\ ParserInv'
  BY <1>1, <1>2, ExecuteInv DEF StreamInv
<1>4. StreamTypeOK' /\ UNCHANGED <<stream, heard>>
  BY <1>1 DEF StreamInv, StreamTypeOK, Feed
<1>5. p' = pe /\ pe' = pe + n /\ step = "idle" /\ ~ended /\ UNCHANGED <<cs, field, flags>>
      /\ step' \in {"exec", "skip", "eat_forever"} /\ (step' = "exec" => Eats' = Eats)
  BY <1>1 DEF Feed, http_parser_execute, lengthVars, Eats
<1>6. StaysWithinData'
  <2>1. \A i \in DOMAIN heard : \A j \in DOMAIN heard[i].text : heard[i].text[j] \in Nat
    <3>1. \A i \in DOMAIN heard : heard[i] \in Heard
      BY DEF StreamInv, StreamTypeOK
    <3>. QED BY <3>1 DEF Heard
  <2>2. \A i \in DOMAIN heard : \A j \in DOMAIN heard[i].text : heard[i].text[j] <= p'
    BY <1>5, <2>1 DEF StreamInv, StaysWithinData, ParserTypeOK
  <2>3. field' # None => markAt' <= p'
    BY <1>3 DEF ParserInv, MarkInv
  <2>. QED BY <1>2, <1>4, <1>5, <2>2, <2>3 DEF StaysWithinData
<1>7. TurnInv'
  <2>1. Last' = Last
    BY <1>4 DEF Last
  <2>2. ~Through /\ ~Through'
    BY <1>5 DEF Through
  <2>3. step' # "exec" => cs \in {"start", "chunk_end"}
    BY <1>3, <1>5 DEF ParserInv, PhaseInv, EatInv
  <2>4. cs = "start" /\ step' # "exec" => Eats
    BY <1>1, <1>5 DEF http_parser_execute, Eats
  <2>5. step' = "eat_forever" /\ p' = pe' => ended'
    <3>1. p' = pe' => n = 0
      BY <1>2, <1>5
    <3>. QED BY <1>1, <3>1
  <2>6. cs = "start" /\ Eats' => "CHUNKED" \notin flags
    <3>1. Eats' => Eats
      BY <1>1, <1>5 DEF http_parser_execute, Eats
    <3>. QED BY <1>5, <3>1 DEF StreamInv, TurnInv
  <2>. QED BY <1>5, <2>1, <2>2, <2>3, <2>4, <2>5, <2>6
           DEF StreamInv, TurnInv, Eats, ChunkState, HeadStates
<1>8. MessagesInTurn'
  BY <1>4 DEF StreamInv, MessagesInTurn
<1>. QED BY <1>3, <1>4, <1>6, <1>7, <1>8 DEF StreamInv

(* What a step of the parser says is what was heard last. *)
LEMMA ParseSays ==
  ASSUME StreamInv, Parse
  PROVE  LET cb == Callback(Here) IN
         /\ Here \in Cell /\ (Here = stream[p + 1] \/ p >= pe) /\ ParserStep(Here)
         /\ heard' = Hear(cb) /\ UNCHANGED <<stream, ended>>
         /\ Fits(cb.on) /\ Last' = Said(cb.on)
<1>. DEFINE cb == Callback(Here)
<1>0. stream \in Seq(Cell) /\ p \in Nat /\ pe \in Nat /\ pe <= Len(stream)
  BY StreamsAssumption DEF StreamInv, StreamTypeOK, ParserTypeOK, StaysWithinData
<1>1. Here \in Cell /\ (Here = stream[p + 1] \/ p >= pe)
  <2>1. p < pe => p + 1 \in DOMAIN stream
    BY <1>0
  <2>2. [k |-> "junk", n |-> 0] \in Cell
    BY DEF Cell, Kind
  <2>. QED BY <1>0, <2>1, <2>2 DEF Here
<1>2. ParserStep(Here) /\ heard' = Hear(cb) /\ UNCHANGED <<stream, ended>>
  BY DEF Parse
<1>3. Fits(cb.on)
  BY <1>1, <1>2, Says DEF StreamInv
<1>4. Last' = Said(cb.on)
  <2>1. CASE cb.on = None
    BY <1>2, <2>1 DEF Hear, Said, Last
  <2>2. CASE cb.on # None
    <3>1. cb.at \in Nat /\ cb.length \in Nat /\ cb.on \in Data \cup Notice
      BY <1>1, <1>2, <1>3, <2>2, CallWithin DEF StreamInv, Fits
    <3>2. Last' = cb.on
      BY <1>2, <1>3, <2>2, <3>1, HearInTurn DEF StreamInv, Fits
    <3>. QED BY <2>2, <3>2 DEF Said
  <2>. QED BY <2>1, <2>2
<1>. QED BY <1>1, <1>2, <1>3, <1>4

LEMMA ParseStep ==
  ASSUME StreamInv, Parse
  PROVE  StreamInv'
<1>. DEFINE cb == Callback(Here)
<1>0. stream \in Seq(Cell) /\ heard \in Seq(Heard) /\ p \in Nat /\ pe \in Nat /\ pe <= Len(stream)
  BY StreamsAssumption DEF StreamInv, StreamTypeOK, ParserTypeOK, StaysWithinData
<1>1. Here \in Cell
  BY ParseSays
<1>2. ParserStep(Here) /\ heard' = Hear(cb) /\ UNCHANGED <<stream, ended>>
  BY DEF Parse
<1>3. ParserTypeOK' /\ ParserInv'
  BY <1>1, <1>2, ParserStepType, ParserStepInv DEF StreamInv
<1>4. p <= p' /\ pe' = pe /\ p' \in Nat
  BY <1>1, <1>2, <1>3, CursorStep DEF StreamInv, ParserTypeOK
<1>5. Fits(cb.on) /\ LeadsTo(Said(cb.on))
  BY <1>1, <1>2, Says DEF StreamInv
<1>6. Within(heard, p)
  BY DEF StreamInv, StaysWithinData, Within
<1>7. heard' \in Seq(Heard) /\ Last' = Said(cb.on) /\ MessagesInTurn' /\ Within(heard', p')
  <2>1. CASE cb.on = None
    <3>1. heard' = heard /\ Said(cb.on) = Last /\ Last' = Last
      BY <1>2, <2>1 DEF Hear, Said, Last
    <3>2. \A i \in DOMAIN heard : \A j \in DOMAIN heard[i].text : heard[i].text[j] \in Nat
      <4>1. \A i \in DOMAIN heard : heard[i] \in Heard
        BY <1>0
      <4>. QED BY <4>1 DEF Heard
    <3>3. Within(heard, p')
      BY <1>0, <1>4, <1>6, <3>2 DEF Within
    <3>. QED BY <1>0, <3>1, <3>3 DEF StreamInv, MessagesInTurn
  <2>2. CASE cb.on # None
    <3>1. /\ cb.at \in Nat /\ cb.length \in Nat /\ cb.at + cb.length <= p'
          /\ cb.on \in Data \cup Notice
      BY <1>1, <1>2, <1>5, <2>2, CallWithin DEF StreamInv, Fits
    <3>2. heard' \in Seq(Heard) /\ Last' = cb.on /\ MessagesInTurn'
      BY <1>2, <1>5, <2>2, <3>1, HearInTurn DEF StreamInv, Fits
    <3>3. Within(heard', p')
      BY <1>0, <1>2, <1>4, <1>6, <3>1, HearWithin DEF StreamInv
    <3>. QED BY <2>2, <3>2, <3>3 DEF Said
  <2>. QED BY <2>1, <2>2
<1>8. StreamTypeOK'
  BY <1>2, <1>7 DEF StreamInv, StreamTypeOK
<1>9. StaysWithinData'
  <2>1. p' <= pe' /\ (field' # None => markAt' <= p')
    BY <1>3 DEF ParserInv, MarkInv
  <2>. QED BY <1>0, <1>2, <1>4, <1>7, <2>1 DEF StaysWithinData, Within
<1>10. TurnInv'
  BY <1>5, <1>7 DEF LeadsTo, TurnInv
<1>. QED BY <1>3, <1>7, <1>8, <1>9, <1>10 DEF StreamInv

LEMMA StreamStutter ==
  ASSUME StreamInv, UNCHANGED vars
  PROVE  StreamInv'
BY DEF StreamInv, vars, parserVars, streamVars, ParserTypeOK, ParserInv, MarkInv, PhaseInv, EatInv,
       Remaining, StreamTypeOK, StaysWithinData, TurnInv, Last, Eats, Through, MessagesInTurn

(* Between any two steps of the parser, whatever it is given and however   *)
(* it is cut, what was heard last agrees with the state of the machine.    *)
THEOREM StreamConsistent == Spec => []StreamInv
<1>1. StreamInv /\ [Next]_vars => StreamInv'
  BY FeedStep, ParseStep, StreamStutter DEF Next
<1>. QED
  BY <1>1, InitStreamInv, PTL DEF Spec

(* The state of http_parser keeps its types, though any bytes may come.    *)
THEOREM ParserTypesCorrect == Spec => []ParserTypeOK
<1>1. StreamInv => ParserTypeOK
  BY DEF StreamInv
<1>. QED
  BY <1>1, StreamConsistent, PTL

(* The parser does not read past the data of a call, and reports nothing   *)
(* it has not read, whatever it is given (http_parser.rl:492).             *)
THEOREM ParserStaysWithinData == Spec => []StaysWithinData
<1>1. StreamInv => StaysWithinData
  BY DEF StreamInv
<1>. QED
  BY <1>1, StreamConsistent, PTL

(* Messages are announced one after the other, also in a stream that is no *)
(* valid HTTP, and a body only behind the headers it belongs to.           *)
THEOREM AnnouncedInTurn == Spec => []MessagesInTurn
<1>1. StreamInv => MessagesInTurn
  BY DEF StreamInv
<1>. QED
  BY <1>1, StreamConsistent, PTL

-----------------------------------------------------------------------------
(***************************************************************************)
(* What was passed on, when one more call is heard.                        *)
(***************************************************************************)
(* Place n is in the text of an entry of h under the name on. *)
Told(h, on, n) == \E i \in DOMAIN h : h[i].on = on /\ \E j \in DOMAIN h[i].text : h[i].text[j] = n

(* What PassedAs says. *)
LEMMA PassedTold == \A on, n : n \in PassedAs(on) <=> Told(heard, on, n)
BY DEF PassedAs, Told

(* The texts of two sequences in a row. *)
LEMMA ConcatTexts ==
  ASSUME NEW a \in Seq(Nat), NEW b \in Seq(Nat)
  PROVE  /\ DOMAIN (a \o b) = 1 .. Len(a) + Len(b)
         /\ \A j \in 1 .. Len(a) : (a \o b)[j] = a[j]
         /\ \A j \in Len(a) + 1 .. Len(a) + Len(b) : j - Len(a) \in DOMAIN b /\ (a \o b)[j] = b[j - Len(a)]
         /\ \A j \in DOMAIN b : j + Len(a) \in DOMAIN (a \o b) /\ (a \o b)[j + Len(a)] = b[j]
OBVIOUS

(* A new call adds its places, under its name, to what was passed on. *)
LEMMA HearTold ==
  ASSUME StreamTypeOK, NEW cb, cb.on \in Data \cup Notice, cb.at \in Nat, cb.length \in Nat,
         NEW on, NEW n
  PROVE  Told(Hear(cb), on, n) <=>
           Told(heard, on, n) \/ (on = cb.on /\ n \in cb.at + 1 .. cb.at + cb.length)
<1>. DEFINE places == [i \in 1 .. cb.length |-> cb.at + i]
            k == Len(heard)
<1>1. heard \in Seq(Heard) /\ k \in Nat /\ \A i \in DOMAIN heard : heard[i].text \in Seq(Nat)
  <2>1. heard \in Seq(Heard) /\ \A i \in DOMAIN heard : heard[i] \in Heard
    BY DEF StreamTypeOK
  <2>. QED BY <2>1 DEF Heard
<1>2. places \in Seq(Nat) /\ Len(places) = cb.length
  OBVIOUS
<1>3. (\E j \in DOMAIN places : places[j] = n) <=> n \in cb.at + 1 .. cb.at + cb.length
  <2>1. ASSUME NEW j \in DOMAIN places, places[j] = n PROVE n \in cb.at + 1 .. cb.at + cb.length
    BY <2>1
  <2>2. ASSUME n \in cb.at + 1 .. cb.at + cb.length PROVE \E j \in DOMAIN places : places[j] = n
    <3>1. n - cb.at \in DOMAIN places /\ places[n - cb.at] = n
      BY <2>2
    <3>. QED BY <3>1
  <2>. QED BY <2>1, <2>2
<1>4. CASE Continues(cb)
  <2>1. /\ Hear(cb) \in Seq(Heard) /\ Len(Hear(cb)) = k
        /\ \A i \in 1 .. k - 1 : Hear(cb)[i] = heard[i]
        /\ Hear(cb)[k].on = cb.on
        /\ Hear(cb)[k].text = heard[k].text \o places
    <3>1. k \in DOMAIN heard
      BY <1>1, <1>4 DEF Continues
    <3>. QED BY <1>4, <3>1, HearMore DEF Continues
  <2>2. k \in DOMAIN heard /\ DOMAIN Hear(cb) = DOMAIN heard /\ DOMAIN heard = 1 .. k
    BY <1>1, <1>4, <2>1 DEF Continues
  <2>. HIDE DEF places
  <2>3. (\E j \in DOMAIN Hear(cb)[k].text : Hear(cb)[k].text[j] = n) <=>
          \/ \E j \in DOMAIN heard[k].text : heard[k].text[j] = n
          \/ \E j \in DOMAIN places : places[j] = n
    <3>1. PICK a, b, c : a = heard[k].text /\ b = places /\ c = Hear(cb)[k].text
      OBVIOUS
    <3>2. a \in Seq(Nat) /\ b \in Seq(Nat) /\ c = a \o b
      BY <1>1, <1>2, <2>1, <2>2, <3>1
    <3>3. (\E j \in DOMAIN c : c[j] = n) <=> (\E j \in DOMAIN a : a[j] = n) \/ (\E j \in DOMAIN b : b[j] = n)
      <4>1. /\ DOMAIN c = 1 .. Len(a) + Len(b) /\ DOMAIN a = 1 .. Len(a)
            /\ Len(a) \in Nat /\ Len(b) \in Nat
            /\ \A j \in 1 .. Len(a) : c[j] = a[j]
            /\ \A j \in Len(a) + 1 .. Len(a) + Len(b) : j - Len(a) \in DOMAIN b /\ c[j] = b[j - Len(a)]
            /\ \A j \in DOMAIN b : j + Len(a) \in DOMAIN c /\ c[j + Len(a)] = b[j]
        BY SMTT(40), <3>2, ConcatTexts
      <4>2. ASSUME NEW j \in DOMAIN c, c[j] = n
            PROVE  (\E i \in DOMAIN a : a[i] = n) \/ (\E i \in DOMAIN b : b[i] = n)
        BY <4>1, <4>2
      <4>3. ASSUME NEW j \in DOMAIN a, a[j] = n PROVE \E i \in DOMAIN c : c[i] = n
        BY <4>1, <4>3
      <4>4. ASSUME NEW j \in DOMAIN b, b[j] = n PROVE \E i \in DOMAIN c : c[i] = n
        BY <4>1, <4>4
      <4>. QED BY <4>2, <4>3, <4>4
    <3>. QED BY <3>1, <3>3
  <2>4. /\ \A i \in DOMAIN heard : i = k \/ i \in 1 .. k - 1
        /\ \A i \in 1 .. k - 1 : i \in DOMAIN heard
    BY <1>1, <2>2
  <2>5. Told(Hear(cb), on, n) <=>
          \/ \E i \in 1 .. k - 1 : heard[i].on = on /\ \E j \in DOMAIN heard[i].text : heard[i].text[j] = n
          \/ cb.on = on /\ \E j \in DOMAIN Hear(cb)[k].text : Hear(cb)[k].text[j] = n
    BY <2>1, <2>2, <2>4, Zenon DEF Told
  <2>6. Told(heard, on, n) <=>
          \/ \E i \in 1 .. k - 1 : heard[i].on = on /\ \E j \in DOMAIN heard[i].text : heard[i].text[j] = n
          \/ cb.on = on /\ \E j \in DOMAIN heard[k].text : heard[k].text[j] = n
    BY <1>4, <2>2, <2>4, Zenon DEF Told, Continues
  <2>. QED BY <1>3, <2>3, <2>5, <2>6
<1>5. CASE ~Continues(cb)
  <2>1. /\ Hear(cb) \in Seq(Heard) /\ Len(Hear(cb)) = k + 1
        /\ \A i \in DOMAIN heard : Hear(cb)[i] = heard[i]
        /\ Hear(cb)[k + 1].on = cb.on
        /\ Hear(cb)[k + 1].text = places
    BY <1>5, HearNew
  <2>. HIDE DEF places
  <2>2. \A i : i \in DOMAIN Hear(cb) <=> i \in DOMAIN heard \/ i = k + 1
    BY <1>1, <2>1
  <2>. QED BY ZenonT(40), <1>3, <2>1, <2>2 DEF Told
<1>. QED BY <1>4, <1>5

(* Every place that is passed on is behind those passed on before. *)
LEMMA HearInOrder ==
  ASSUME StreamTypeOK, NEW cb, cb.on \in Data \cup Notice, cb.at \in Nat, cb.length \in Nat,
         NEW m \in Nat, Within(heard, m), cb.length = 0 \/ m <= cb.at, InOrder(heard)
  PROVE  InOrder(Hear(cb))
<1>. DEFINE places == [i \in 1 .. cb.length |-> cb.at + i]
            k == Len(heard)
            Old(i, a) == /\ i \in DOMAIN heard /\ a \in DOMAIN heard[i].text
                         /\ Hear(cb)[i].text[a] = heard[i].text[a]
            New(i, a, K, L) == /\ i = K /\ a \in Nat /\ a > L /\ m <= cb.at
                               /\ Hear(cb)[i].text[a] = cb.at + (a - L)
<1>1. heard \in Seq(Heard) /\ k \in Nat /\ \A i \in DOMAIN heard : heard[i].text \in Seq(Nat)
  <2>1. heard \in Seq(Heard) /\ \A i \in DOMAIN heard : heard[i] \in Heard
    BY DEF StreamTypeOK
  <2>. QED BY <2>1 DEF Heard
<1>2. places \in Seq(Nat) /\ Len(places) = cb.length /\ \A j \in DOMAIN places : places[j] = cb.at + j
  OBVIOUS
<1>3. \E K \in Nat, L \in Nat :
        /\ DOMAIN Hear(cb) = 1 .. K
        /\ \A i \in DOMAIN Hear(cb) : \A a \in DOMAIN Hear(cb)[i].text : Old(i, a) \/ New(i, a, K, L)
        /\ \A i, a : Old(i, a) /\ i = K => a <= L
  <2>1. CASE Continues(cb)
    <3>1. /\ Hear(cb) \in Seq(Heard) /\ Len(Hear(cb)) = k
          /\ \A i \in 1 .. k - 1 : Hear(cb)[i] = heard[i]
          /\ Hear(cb)[k].text = heard[k].text \o places
      BY <2>1, HearMore
    <3>2. k \in DOMAIN heard /\ DOMAIN Hear(cb) = 1 .. k /\ DOMAIN heard = 1 .. k
      BY <1>1, <2>1, <3>1 DEF Continues
    <3>. HIDE DEF places
    <3>3. PICK L \in Nat : L = Len(heard[k].text)
      BY <1>1, <3>2
    <3>4. /\ DOMAIN Hear(cb)[k].text = 1 .. L + cb.length /\ DOMAIN heard[k].text = 1 .. L
          /\ \A j \in 1 .. L : Hear(cb)[k].text[j] = heard[k].text[j]
          /\ \A j \in L + 1 .. L + cb.length :
               Hear(cb)[k].text[j] = cb.at + (j - L)
      <4>1. PICK a, b, c : a = heard[k].text /\ b = places /\ c = Hear(cb)[k].text
        OBVIOUS
      <4>2. /\ a \in Seq(Nat) /\ b \in Seq(Nat) /\ c = a \o b /\ L = Len(a) /\ Len(b) = cb.length
            /\ \A j \in DOMAIN b : b[j] = cb.at + j
        BY <1>1, <1>2, <3>1, <3>2, <3>3, <4>1
      <4>3. /\ DOMAIN c = 1 .. L + cb.length /\ DOMAIN a = 1 .. L
            /\ \A j \in 1 .. L : c[j] = a[j]
            /\ \A j \in L + 1 .. L + cb.length : c[j] = cb.at + (j - L)
        BY <4>2, ConcatTexts
      <4>. QED BY <4>1, <4>3
    <3>5. ASSUME NEW i \in DOMAIN Hear(cb), NEW a \in DOMAIN Hear(cb)[i].text
          PROVE  Old(i, a) \/ New(i, a, k, L)
      <4>1. CASE i = k
        <5>1. a \in 1 .. L + cb.length
          BY <3>4, <3>5, <4>1
        <5>2. CASE a <= L
          BY <3>2, <3>4, <4>1, <5>1, <5>2
        <5>3. CASE a > L
          <6>1. a \in L + 1 .. L + cb.length /\ m <= cb.at /\ a \in Nat
            BY <5>1, <5>3
          <6>. QED BY <3>4, <4>1, <5>3, <6>1
        <5>. QED BY <5>1, <5>2, <5>3
      <4>2. CASE i # k
        <5>1. i \in 1 .. k - 1 /\ i \in DOMAIN heard
          BY <1>1, <3>2, <4>2
        <5>. QED BY <3>1, <5>1
      <4>. QED BY <4>1, <4>2
    <3>6. \A i, a : Old(i, a) /\ i = k => a <= L
      BY <3>4
    <3>. QED BY <1>1, <3>2, <3>5, <3>6
  <2>2. CASE ~Continues(cb)
    <3>1. /\ Hear(cb) \in Seq(Heard) /\ Len(Hear(cb)) = k + 1
          /\ \A i \in DOMAIN heard : Hear(cb)[i] = heard[i]
          /\ Hear(cb)[k + 1].text = places
      BY <2>2, HearNew
    <3>2. DOMAIN Hear(cb) = 1 .. k + 1 /\ DOMAIN heard = 1 .. k /\ k + 1 \in Nat
      BY <1>1, <3>1
    <3>3. ASSUME NEW i \in DOMAIN Hear(cb), NEW a \in DOMAIN Hear(cb)[i].text
          PROVE  Old(i, a) \/ New(i, a, k + 1, 0)
      <4>1. CASE i = k + 1
        <5>1. a \in DOMAIN places /\ Hear(cb)[i].text[a] = places[a]
          BY <3>1, <3>3, <4>1
        <5>2. a \in 1 .. cb.length
          BY <1>2, <5>1
        <5>. QED BY <1>2, <4>1, <5>1, <5>2
      <4>2. CASE i # k + 1
        <5>1. i \in DOMAIN heard
          BY <1>1, <3>2, <4>2
        <5>. QED BY <3>1, <5>1
      <4>. QED BY <4>1, <4>2
    <3>4. \A i, a : Old(i, a) /\ i = k + 1 => a <= 0
      BY <1>1, <3>2
    <3>. QED BY <3>2, <3>3, <3>4
  <2>. QED BY SMTT(40), <2>1, <2>2
<1>4. PICK K \in Nat, L \in Nat :
        /\ DOMAIN Hear(cb) = 1 .. K
        /\ \A i \in DOMAIN Hear(cb) : \A a \in DOMAIN Hear(cb)[i].text : Old(i, a) \/ New(i, a, K, L)
        /\ \A i, a : Old(i, a) /\ i = K => a <= L
  BY <1>3
<1>5. \A i, a : Old(i, a) => a \in Nat /\ Hear(cb)[i].text[a] \in Nat /\ Hear(cb)[i].text[a] <= m
  <2>. SUFFICES ASSUME NEW i, NEW a, Old(i, a)
                PROVE  a \in Nat /\ Hear(cb)[i].text[a] \in Nat /\ Hear(cb)[i].text[a] <= m
    OBVIOUS
  <2>1. heard[i].text \in Seq(Nat)
    BY <1>1
  <2>. QED BY <2>1 DEF Within
<1>6. ASSUME NEW i \in DOMAIN Hear(cb), NEW j \in DOMAIN Hear(cb),
             NEW a \in DOMAIN Hear(cb)[i].text, NEW b \in DOMAIN Hear(cb)[j].text,
             i < j \/ (i = j /\ a < b)
      PROVE  Hear(cb)[i].text[a] < Hear(cb)[j].text[b]
  <2>1. i \in 1 .. K /\ j \in 1 .. K
    BY <1>4
  <2>2. CASE Old(j, b)
    <3>1. ~New(i, a, K, L)
      <4>1. ASSUME New(i, a, K, L) PROVE FALSE
        <5>1. i = K /\ a \in Nat /\ a > L
          BY <4>1
        <5>2. j = K /\ a < b /\ b <= L /\ b \in Nat
          BY <1>4, <1>5, <1>6, <2>1, <2>2, <5>1
        <5>. QED BY <5>1, <5>2
      <4>. QED BY <4>1
    <3>2. Old(i, a)
      BY <1>4, <3>1
    <3>. QED BY <1>6, <2>2, <3>2 DEF InOrder
  <2>3. CASE New(j, b, K, L)
    <3>1. CASE Old(i, a)
      <4>1. Hear(cb)[i].text[a] \in Nat /\ Hear(cb)[i].text[a] <= m
        BY <1>5, <3>1
      <4>. QED BY <2>3, <4>1
    <3>2. CASE New(i, a, K, L)
      <4>1. a < b /\ a \in Nat /\ b \in Nat
        BY <1>6, <2>1, <2>3, <3>2
      <4>. QED BY <2>3, <3>2, <4>1
    <3>. QED BY <1>4, <3>1, <3>2
  <2>. QED BY <1>4, <2>2, <2>3
<1>. QED BY <1>6, Zenon DEF InOrder

(* Every notification is counted. *)
LEMMA HearCount ==
  ASSUME StreamTypeOK, NEW cb, cb.on \in Data \cup Notice, cb.at \in Nat, cb.length \in Nat,
         NEW on \in Notice, heard' = Hear(cb)
  PROVE  Count(on) \in Nat /\ Count(on)' = Count(on) + (IF on = cb.on THEN 1 ELSE 0)
<1>. DEFINE k == Len(heard)
            S == {i \in DOMAIN heard : heard[i].on = on}
            T == {i \in DOMAIN Hear(cb) : Hear(cb)[i].on = on}
<1>1. heard \in Seq(Heard) /\ k \in Nat /\ DOMAIN heard = 1 .. k
  BY DEF StreamTypeOK
<1>2. IsFiniteSet(S) /\ Cardinality(S) \in Nat /\ k + 1 \notin S
  <2>1. IsFiniteSet(1 .. k)
    BY <1>1, FS_Interval
  <2>2. IsFiniteSet(S)
    BY <1>1, <2>1, FS_Subset
  <2>. QED BY <1>1, <2>2, FS_CardinalityType
<1>3. Count(on) = Cardinality(S) /\ Count(on)' = Cardinality(T)
  BY DEF Count
<1>. HIDE DEF S, T
<1>4. CASE Continues(cb)
  <2>1. /\ Hear(cb) \in Seq(Heard) /\ Len(Hear(cb)) = k
        /\ \A i \in DOMAIN heard : Hear(cb)[i].on = heard[i].on
    BY <1>4, HearMore
  <2>2. T = S
    BY <1>1, <2>1 DEF S, T
  <2>3. on # cb.on
    BY <1>4 DEF Continues, Data, Field, Notice
  <2>. QED BY <1>2, <1>3, <2>2, <2>3
<1>5. CASE ~Continues(cb)
  <2>1. /\ Hear(cb) \in Seq(Heard) /\ Len(Hear(cb)) = k + 1
        /\ \A i \in DOMAIN heard : Hear(cb)[i] = heard[i]
        /\ Hear(cb)[k + 1].on = cb.on
    BY <1>5, HearNew
  <2>2. \A i : i \in DOMAIN Hear(cb) <=> i \in DOMAIN heard \/ i = k + 1
    BY <1>1, <2>1
  <2>3. CASE on = cb.on
    <3>1. T = S \cup {k + 1}
      BY <2>1, <2>2, <2>3 DEF S, T
    <3>2. Cardinality(S \cup {k + 1}) = Cardinality(S) + 1
      BY <1>2, FS_AddElement
    <3>. QED BY <1>2, <1>3, <2>3, <3>1, <3>2
  <2>4. CASE on # cb.on
    <3>1. T = S
      BY <1>1, <2>1, <2>2, <2>4 DEF S, T
    <3>. QED BY <1>2, <1>3, <2>4, <3>1
  <2>. QED BY <2>3, <2>4
<1>. QED BY <1>4, <1>5

-----------------------------------------------------------------------------
(***************************************************************************)
(* What a step of the parser does to the cells it has read.                *)
(***************************************************************************)
(* A step that refuses nothing: what it passes on follows what was passed  *)
(* on before it, and is all that waits, or the whole of what it skips.     *)
PassesOn(cb) ==
  /\ Passed \in 0 .. p /\ cb.length \in Nat
  /\ cb.at = IF cb.on \in Data THEN Passed ELSE 0
  /\ cb.on = "body" => Passed = p /\ p' = p + cb.length /\ Passed' = p'
  /\ cb.on # "body" =>
       /\ p' \in {p, p + 1}
       /\ cb.length # 0 => cb.on = field /\ field \in Field
       /\ \/ Passed + cb.length = p /\ Passed' = p'
          \/ /\ cb.length = 0 /\ Passed' = Passed /\ p' = p + 1
             /\ field' \in Field /\ field \in {None, field'}

(* What becomes of cell c, when the machine reads it: it waits in the      *)
(* field of its kind, or is of no data, and begins or ends a head.         *)
DataKind == UNION {KindsOf(on) : on \in Data}
ReadsCell(c, cb) ==
  /\ p < pe
  /\ IF Passed' = p' THEN c.k \notin DataKind ELSE c.k \in KindsOf(field')
  /\ c.k = "method" <=> cb.on = "message_begin"
  /\ c.k = "end" <=> step = "body_logic"

StepReads(c, cb) ==
  /\ PassesOn(cb)
  /\ cb.on # "body" /\ p' = p + 1 => ReadsCell(c, cb)
  /\ cb.on = "message_begin" => p' = p + 1
  /\ IF cb.on = "headers_complete"
       THEN /\ step' = "body_logic" /\ p' = p /\ p < pe /\ c.k = "end"
            /\ step # "body_logic" /\ cs = "hdr"
       ELSE step' # "body_logic"
  /\ step = "body_logic" => p' = p + 1 /\ cb.on # "body"
  /\ step' = "idle" => p' = pe
  /\ "ERROR" \notin flags'

(* The kinds of the cells of the edges into, in and out of a field.        *)
LEMMA EdgeKinds ==
  ASSUME NEW e \in Edge
  PROVE  /\ e[3] \in Field => e[2] \in KindsOf(e[3])
         /\ e[3] \notin Field => e[2] \notin DataKind
         /\ e[1] \in Field => e[3] = e[1] \/ e[3] \notin Field
         /\ e[1] = "sep" /\ e[2] = "crlf" => e[3] \notin Field
         /\ e[1] = "query0" /\ e[2] \in VersionKind => e[3] \notin Field
         /\ e[2] = "method" <=> e[1] = "start"
         /\ e[2] # "end" /\ e = <<e[1], e[2], e[3]>>
BY DEF Edge, Field, KindsOf, DataKind, Data, ValueKind, VersionKind

LEMMA AdvanceReads ==
  ASSUME ParserTypeOK, ParserInv, NEW c \in Cell, Advance(c), "ERROR" \notin flags
  PROVE  StepReads(c, Callback(c))
<1>. USE DEF Call, Notify, NoCall, None
<1>. DEFINE cb == Callback(c)
<1>1. PICK e \in Edge :
        /\ e[1] = cs /\ e[2] = c.k /\ cs' = e[3] /\ field' = FieldOf(e[3])
        /\ IF FieldOf(e[3]) = field
             THEN UNCHANGED <<markAt, markSize>>
             ELSE markAt' = (IF FieldOf(e[3]) = None THEN 0 ELSE p) /\ markSize' = 0
  BY DEF Advance
<1>2. /\ Reading /\ Accepts(c) /\ step' = "exec" /\ step = "exec" /\ cb = ReadingCall(c)
      /\ p' = p + 1 /\ p < pe /\ p \in Nat /\ markAt \in Nat /\ "ERROR" \notin flags'
      /\ Closes(c) => ~FieldTooLong
  BY <1>1 DEF Advance, Accepts, Reading, Callback, ParserTypeOK, Learn, Flag
<1>3. /\ c.k \in KindsOf(e[3]) \/ e[3] \notin Field
      /\ e[3] \notin Field => c.k \notin DataKind
      /\ c.k # "end" /\ (c.k = "method" <=> cs = "start")
      /\ cs \in Field => e[3] = cs \/ e[3] \notin Field
      /\ e[3] \in Field => EmptyField(cs, c.k) = None
      /\ <<cs, c.k, e[3]>> \in Edge
  BY <1>1, EdgeKinds DEF EmptyField
<1>4. CASE field # None
  <2>1. field \in Field /\ cs = field /\ markAt <= p /\ Passed = markAt
    BY <1>2, <1>4 DEF ParserTypeOK, ParserInv, MarkInv, Passed, Reading
  <2>2. cs # "start" /\ cs # "hdr" /\ EmptyField(cs, c.k) = None
    BY <2>1 DEF Field, EmptyField
  <2>3. CASE Closes(c)
    <3>1. cb = Call(field, markAt, p - markAt)
      BY <1>2, <1>4, <2>3 DEF ReadingCall, FieldCall
    <3>2. e[3] \notin Field
      BY <1>1, <1>3, <2>1, <2>3 DEF Closes
    <3>3. field' = None /\ Passed' = p'
      BY <1>1, <3>2 DEF FieldOf, Passed
    <3>. QED BY <1>2, <1>3, <2>1, <2>2, <3>1, <3>2, <3>3
             DEF StepReads, PassesOn, ReadsCell, Data, Field
  <2>4. CASE ~Closes(c)
    <3>1. cb = NoCall
      BY <1>2, <2>2, <2>4 DEF ReadingCall
    <3>2. e[3] = cs
      <4>1. <<cs, c.k, cs>> \in Edge
        BY <1>4, <2>4 DEF Closes
      <4>2. c.k \in KindsOf(cs) /\ c.k \in DataKind
        BY <2>1, <4>1, EdgeKinds DEF DataKind, Data
      <4>. QED BY <1>3, <2>1, <4>2
    <3>3. field' = field /\ markAt' = markAt /\ Passed' = markAt
      BY <1>1, <1>2, <2>1, <3>2 DEF FieldOf, Passed, Field
    <3>. QED BY <1>2, <1>3, <2>1, <2>2, <3>1, <3>2, <3>3
             DEF StepReads, PassesOn, ReadsCell, Data, Field
  <2>. QED BY <2>3, <2>4
<1>5. CASE field = None
  <2>1. cs \notin Field /\ Passed = p /\ ~Closes(c)
    BY <1>2, <1>5 DEF ParserInv, MarkInv, Passed, Reading, Field, Closes
  <2>2. cb = IF EmptyField(cs, c.k) # None THEN Call(EmptyField(cs, c.k), p, 0)
             ELSE IF cs = "start" THEN Notify("message_begin") ELSE NoCall
    BY <1>2, <1>3, <2>1 DEF ReadingCall
  <2>3. /\ cb.length = 0 /\ cb.on \in Field \cup {"message_begin", None}
        /\ cb.at = IF cb.on \in Field THEN p ELSE 0
        /\ cb.on = "message_begin" <=> c.k = "method"
    BY <1>3, <2>2 DEF EmptyField, Field
  <2>4. CASE e[3] \in Field
    <3>1. field' = e[3] /\ markAt' = p /\ Passed' = p
      BY <1>1, <1>2, <1>5, <2>4 DEF FieldOf, Passed, Field
    <3>. QED BY <1>2, <1>3, <1>5, <2>1, <2>3, <2>4, <3>1
             DEF StepReads, PassesOn, ReadsCell, Data, Field
  <2>5. CASE e[3] \notin Field
    <3>1. field' = None /\ Passed' = p'
      BY <1>1, <2>5 DEF FieldOf, Passed
    <3>. QED BY <1>2, <1>3, <1>5, <2>1, <2>3, <2>5, <3>1
             DEF StepReads, PassesOn, ReadsCell, Data, Field
  <2>. QED BY <2>4, <2>5
<1>. QED BY <1>4, <1>5

(* Every step of a running call that refuses nothing.                      *)
LEMMA StepReadsOn ==
  ASSUME ParserTypeOK, ParserInv, NEW c \in Cell, ParserStep(c), "ERROR" \notin flags,
         ~http_parser_has_error', step = "body_logic" => c.k = "end"
  PROVE  StepReads(c, Callback(c))
<1>. USE DEF Call, Notify, NoCall, None
<1>. DEFINE cb == Callback(c)
<1>0. p \in Nat /\ pe \in Nat /\ p <= pe /\ chunk_size \in Nat
  BY DEF ParserTypeOK, ParserInv, MarkInv
<1>1. CASE RefuseField(c) \/ RefuseURI(c) \/ RefuseDigit(c) \/ Reject(c)
  BY <1>1 DEF RefuseField, RefuseURI, RefuseDigit, Reject, http_parser_has_error
<1>2. CASE Advance(c)
  BY <1>2, AdvanceReads
<1>3. CASE EatForever
  <2>1. /\ field = None /\ field' = None /\ Passed = p /\ Passed' = p' /\ p' = pe /\ step' = "idle"
        /\ step = "eat_forever"
    BY <1>3, NoField DEF EatForever, ParserInv, PhaseInv, EatInv, Passed, markVars, Field
  <2>2. cb = IF p = pe THEN Notify("message_complete") ELSE Call("body", p, pe - p)
    BY <1>0, <1>3 DEF EatForever, Callback, Reading, BodyCall, Remaining
  <2>3. "ERROR" \notin flags'
    BY <1>3 DEF EatForever, lengthVars
  <2>4. CASE p = pe
    BY <1>0, <2>1, <2>2, <2>3, <2>4 DEF StepReads, PassesOn, ReadsCell, Data, Field
  <2>5. CASE p # pe
    BY <1>0, <2>1, <2>2, <2>3, <2>5 DEF StepReads, PassesOn, ReadsCell, Data, Field
  <2>. QED BY <2>4, <2>5
<1>4. CASE HeadersComplete(c) \/ BodyLogic \/ ChunkData \/ LastChunk(c)
  <2>1. cs \notin Field \cup {"error"}
    BY <1>4 DEF HeadersComplete, BodyLogic, ChunkData, LastChunk, ParserInv, PhaseInv, Field
  <2>2. field = None /\ field' = None /\ Passed = p /\ Passed' = p' /\ ~Closes(c)
    BY <1>4, <2>1, NoField
       DEF HeadersComplete, BodyLogic, ChunkData, LastChunk, ParserInv, Passed, markVars, Closes
  <2>3. CASE HeadersComplete(c)
    <3>1. cb = Notify("headers_complete") /\ p < pe
      BY <2>2, <2>3 DEF HeadersComplete, Callback, ReadingCall, EmptyField, Reading
    <3>2. /\ "ERROR" \notin flags' /\ p' = p /\ step' = "body_logic" /\ c.k = "end"
          /\ step = "exec" /\ cs = "hdr"
      BY <2>3 DEF HeadersComplete, lengthVars, Reading
    <3>. QED BY <1>0, <2>2, <3>1, <3>2 DEF StepReads, PassesOn, ReadsCell, Data, Field
  <2>4. CASE BodyLogic
    <3>1. cb = NoCall /\ p < pe
      BY <2>4 DEF BodyLogic, Callback, Reading, ParserInv, PhaseInv
    <3>2. "ERROR" \notin flags' /\ p' = p + 1 /\ step' \in {"exec", "skip"} /\ step = "body_logic"
      BY <2>4 DEF BodyLogic, lengthVars
    <3>3. c.k = "end" /\ "end" \notin DataKind
      BY <3>2 DEF DataKind, Data, Field, KindsOf, ValueKind
    <3>. QED BY <1>0, <2>2, <3>1, <3>2, <3>3 DEF StepReads, PassesOn, ReadsCell, Data, Field
  <2>5. CASE ChunkData
    <3>1. cb = NoCall
      BY <2>2, <2>5 DEF ChunkData, Callback, ReadingCall, EmptyField, Reading
    <3>2. "ERROR" \notin flags' /\ p' = p /\ step' = "skip" /\ step = "exec"
      BY <2>5 DEF ChunkData, lengthVars, Reading
    <3>. QED BY <1>0, <2>2, <3>1, <3>2 DEF StepReads, PassesOn, ReadsCell, Data, Field
  <2>6. CASE LastChunk(c)
    <3>1. cb = NoCall /\ p < pe
      BY <2>2, <2>6 DEF LastChunk, Callback, ReadingCall, EmptyField, Reading
    <3>2. "ERROR" \notin flags' /\ p' = p + 1 /\ step' = "end_request" /\ step = "exec" /\ c.k = "last"
      BY <2>6 DEF LastChunk, lengthVars, Reading
    <3>3. "last" \notin DataKind
      BY DEF DataKind, Data, Field, KindsOf, ValueKind
    <3>. QED BY <1>0, <2>2, <3>1, <3>2, <3>3 DEF StepReads, PassesOn, ReadsCell, Data, Field
  <2>. QED BY <1>4, <2>3, <2>4, <2>5, <2>6
<1>5. CASE SkipBody
  <2>1. field = None /\ field' = None /\ Passed = p /\ Passed' = p' /\ step = "skip"
    BY <1>5, NoField DEF SkipBody, ParserInv, PhaseInv, Passed, markVars, Field
  <2>2. Skipped \in Nat /\ p' = p + Skipped /\ cb = BodyCall(Skipped)
    BY <1>0, <1>5 DEF SkipBody, Callback, Reading, Skipped, Remaining
  <2>3. "ERROR" \notin flags' /\ step' \in {"exec", "end_request"}
    BY <1>5 DEF SkipBody
  <2>4. CASE Skipped = 0
    BY <1>0, <2>1, <2>2, <2>3, <2>4 DEF StepReads, PassesOn, ReadsCell, Data, Field, BodyCall
  <2>5. CASE Skipped # 0
    BY <1>0, <2>1, <2>2, <2>3, <2>5 DEF StepReads, PassesOn, ReadsCell, Data, Field, BodyCall
  <2>. QED BY <2>4, <2>5
<1>6. CASE EndRequest
  <2>1. /\ field = None /\ field' = None /\ Passed = p /\ Passed' = p' /\ p' = p
        /\ step = "end_request" /\ step' = "exec"
    BY <1>6, NoField DEF EndRequest, ParserInv, PhaseInv, Passed, Field
  <2>2. cb = Notify("message_complete") /\ "ERROR" \notin flags'
    BY <1>6 DEF EndRequest, Callback, Reading
  <2>. QED BY <1>0, <2>1, <2>2 DEF StepReads, PassesOn, ReadsCell, Data, Field
<1>7. CASE Leave
  <2>1. /\ p' = p /\ step = "exec" /\ step' = "idle" /\ "ERROR" \notin flags' /\ Passed' = p
        /\ ~FieldTooLong /\ ~Reading /\ p = pe
    BY <1>0, <1>7 DEF Leave, lengthVars, Passed, Reading, http_parser_has_error
  <2>2. cb = FieldCall
    BY <2>1 DEF Callback
  <2>3. CASE field = None
    <3>1. cb = NoCall /\ Passed = p
      BY <2>2, <2>3 DEF FieldCall, Passed
    <3>. QED BY <1>0, <2>1, <3>1 DEF StepReads, PassesOn, ReadsCell, Data, Field
  <2>4. CASE field # None
    <3>1. field \in Field /\ markAt \in 0 .. p /\ Passed = markAt
      BY <2>1, <2>4 DEF ParserTypeOK, ParserInv, MarkInv, Passed
    <3>2. cb = Call(field, markAt, p - markAt)
      BY <2>1, <2>2, <2>4 DEF FieldCall
    <3>. QED BY <1>0, <2>1, <3>1, <3>2 DEF StepReads, PassesOn, ReadsCell, Data, Field
  <2>. QED BY <2>3, <2>4
<1>. QED BY <1>1, <1>2, <1>3, <1>4, <1>5, <1>6, <1>7 DEF ParserStep

-----------------------------------------------------------------------------
(***************************************************************************)
(* PassInv.                                                                *)
(***************************************************************************)
(* One more cell is read, or some that are passed on as a body.            *)
LEMMA KindMore ==
  ASSUME NEW K, NEW a \in Nat, NEW B \in SUBSET (1 .. a)
  PROVE  /\ Cardinality(KindAt(K, a) \ B) \in Nat
         /\ Cardinality(KindAt(K, a + 1) \ B)
              = Cardinality(KindAt(K, a) \ B) + (IF stream[a + 1].k \in K THEN 1 ELSE 0)
<1>. DEFINE S == KindAt(K, a) \ B
            T == KindAt(K, a + 1) \ B
<1>1. IsFiniteSet(S) /\ Cardinality(S) \in Nat /\ a + 1 \notin S
  <2>1. IsFiniteSet(1 .. a) /\ S \in SUBSET (1 .. a)
    BY FS_Interval DEF KindAt
  <2>. QED BY <2>1, FS_Subset, FS_CardinalityType
<1>2. stream[a + 1].k \notin K => T = S
  BY DEF KindAt
<1>3. ASSUME stream[a + 1].k \in K PROVE T = S \cup {a + 1}
  BY <1>3 DEF KindAt
<1>. HIDE DEF S, T
<1>4. Cardinality(S \cup {a + 1}) = Cardinality(S) + 1
  BY <1>1, FS_AddElement
<1>5. Cardinality(T) = Cardinality(S) + (IF stream[a + 1].k \in K THEN 1 ELSE 0)
  <2>1. CASE stream[a + 1].k \in K
    BY <1>3, <1>4, <2>1
  <2>2. CASE stream[a + 1].k \notin K
    <3>1. T = S /\ Cardinality(S) \in Nat
      BY <1>1, <1>2, <2>2
    <3>. QED BY <2>2, <3>1
  <2>. QED BY <2>1, <2>2
<1>. QED BY <1>1, <1>5 DEF S, T

(* How the places passed on grow. *)
LEMMA PassedMore ==
  ASSUME StreamTypeOK, NEW cb, cb.on \in Data \cup Notice \cup {None}, cb.at \in Nat,
         cb.length \in Nat, heard' = Hear(cb), NEW on \in Data, NEW n
  PROVE  n \in PassedAs(on)' <=>
           n \in PassedAs(on) \/ (on = cb.on /\ n \in cb.at + 1 .. cb.at + cb.length)
<1>1. n \in PassedAs(on) <=> Told(heard, on, n)
  BY PassedTold
<1>2. n \in PassedAs(on)' <=> Told(heard', on, n)
  BY DEF PassedAs, Told
<1>3. CASE cb.on = None
  <2>1. heard' = heard /\ on # cb.on
    BY <1>3 DEF Hear, None, Data, Field
  <2>. QED BY <1>1, <1>2, <2>1
<1>4. CASE cb.on # None
  BY <1>1, <1>2, <1>4, HearTold
<1>. QED BY <1>3, <1>4

(* The places passed on and those that wait, after a step. *)
LEMMA PassedStep ==
  ASSUME StreamTypeOK, NEW c, c = stream[p + 1] \/ p >= pe, NEW cb,
         StepReads(c, cb), cb.on \in Data \cup Notice \cup {None}, heard' = Hear(cb),
         UNCHANGED stream, p \in Nat, pe \in Nat, field \in Field \cup {None},
         PassedAs("body") \subseteq 1 .. Passed,
         \A on \in Field : PassedAs(on) = KindAt(KindsOf(on), Passed) \ PassedAs("body"),
         KindAt({"body"}, p) \subseteq PassedAs("body"),
         \A i \in Passed + 1 .. p : stream[i].k \in KindsOf(field)
  PROVE  /\ (PassedAs("body") \subseteq 1 .. Passed)'
         /\ \A on \in Field : (PassedAs(on) = KindAt(KindsOf(on), Passed) \ PassedAs("body"))'
         /\ (KindAt({"body"}, p) \subseteq PassedAs("body"))'
         /\ (\A i \in Passed + 1 .. p : stream[i].k \in KindsOf(field))'
<1>1. PICK n \in Nat, m \in Nat : n = Passed /\ m = Passed'
  BY DEF StepReads, PassesOn
<1>2. /\ n <= p /\ n + cb.length <= m /\ m <= p' /\ p' \in Nat /\ cb.length \in Nat /\ cb.at \in Nat
      /\ cb.at = IF cb.on \in Data THEN n ELSE 0
  BY <1>1 DEF StepReads, PassesOn
<1>3. /\ \A on \in Field : KindsOf(on) \subseteq DataKind /\ "body" \notin KindsOf(on)
      /\ "body" \in DataKind /\ "body" \in Data /\ Field \subseteq Data /\ "body" \notin Field
      /\ \A f, g \in Field : f # g => KindsOf(f) \cap KindsOf(g) = {}
  BY DEF KindsOf, DataKind, Data, Field, ValueKind
<1>4. ASSUME NEW on \in Data, NEW i
      PROVE  i \in PassedAs(on)' <=>
               i \in PassedAs(on) \/ (on = cb.on /\ i \in n + 1 .. n + cb.length)
  BY <1>2, PassedMore
<1>. DEFINE B == PassedAs("body")
<1>5. CASE cb.on = "body"
  <2>1. n = p /\ p' = p + cb.length /\ m = p'
    BY <1>1, <1>5 DEF StepReads, PassesOn
  <2>2. \A i : i \in B' <=> i \in B \/ i \in p + 1 .. p'
    BY <1>3, <1>4, <1>5, <2>1
  <2>0. B \subseteq 1 .. p /\ KindAt({"body"}, p) \subseteq B
    BY <1>1, <2>1
  <2>. HIDE DEF B
  <2>3. B' \subseteq 1 .. m
    <3>1. ASSUME NEW i \in B' PROVE i \in 1 .. m
      <4>1. i \in 1 .. p \/ i \in p + 1 .. p'
        BY <2>0, <2>2
      <4>. QED BY <1>2, <2>1, <4>1
    <3>. QED BY <3>1
  <2>4. ASSUME NEW on \in Field PROVE PassedAs(on)' = KindAt(KindsOf(on), m)' \ B'
    <3>1. \A i : i \in PassedAs(on)' <=> i \in PassedAs(on)
      BY <1>3, <1>4, <1>5
    <3>2. \A i : i \in KindAt(KindsOf(on), n) \ B <=> i \in KindAt(KindsOf(on), m)' \ B'
      <4>1. \A i : i \in 1 .. m <=> i \in 1 .. n \/ i \in p + 1 .. p'
        BY <1>2, <2>1
      <4>2. \A i \in p + 1 .. p' : i \notin 1 .. n
        BY <2>1
      <4>. QED BY <2>2, <4>1, <4>2 DEF KindAt
    <3>3. PassedAs(on) = KindAt(KindsOf(on), n) \ B
      BY <1>1 DEF B
    <3>. QED BY <3>1, <3>2, <3>3
  <2>5. KindAt({"body"}, p)' \subseteq B'
    <3>1. \A i \in 1 .. p' : i \in 1 .. p \/ i \in p + 1 .. p'
      BY <1>2
    <3>. QED BY <2>0, <2>2, <3>1 DEF KindAt
  <2>. QED BY <1>1, <2>1, <2>3, <2>4, <2>5 DEF B
<1>6. CASE cb.on # "body"
  <2>1. /\ p' \in {p, p + 1}
        /\ cb.length # 0 => cb.on = field /\ field \in Field
        /\ \/ n + cb.length = p /\ m = p'
           \/ /\ cb.length = 0 /\ m = n /\ p' = p + 1
              /\ field' \in Field /\ field \in {None, field'}
    BY <1>1, <1>6 DEF StepReads, PassesOn
  <2>2. ASSUME p' = p + 1
        PROVE  IF m = p' THEN stream[p + 1].k \notin DataKind ELSE stream[p + 1].k \in KindsOf(field')
    <3>1. ReadsCell(c, cb)
      BY <1>6, <2>2 DEF StepReads
    <3>2. c = stream[p + 1]
      BY <3>1 DEF ReadsCell
    <3>. QED BY <1>1, <3>1, <3>2 DEF ReadsCell
  <2>3. B' = B
    <3>1. \A i : i \in B' <=> i \in B
      BY <1>3, <1>4, <1>6
    <3>. QED BY <3>1
  <2>4. B' \subseteq 1 .. m
    <3>1. B \subseteq 1 .. n /\ n <= m
      BY <1>1, <1>2
    <3>. QED BY <2>3, <3>1
  <2>5. ASSUME NEW on \in Field PROVE PassedAs(on)' = KindAt(KindsOf(on), m)' \ B'
    <3>. DEFINE K == KindsOf(on)
    <3>1. PassedAs(on) = KindAt(K, n) \ B
      BY <1>1
    <3>2. \A i : i \in PassedAs(on)' <=> i \in PassedAs(on) \/ (on = cb.on /\ i \in n + 1 .. n + cb.length)
      BY <1>3, <1>4
    <3>3. \A i \in n + 1 .. n + cb.length : stream[i].k \in K <=> on = cb.on
      <4>1. CASE cb.length = 0
        BY <4>1
      <4>2. CASE cb.length # 0
        <5>1. cb.on = field /\ field \in Field /\ n + cb.length = p
          BY <2>1, <4>2
        <5>2. \A i \in n + 1 .. p : stream[i].k \in KindsOf(field)
          BY <1>1
        <5>. QED BY <1>3, <5>1, <5>2
      <4>. QED BY <4>1, <4>2
    <3>4. \A i \in n + cb.length + 1 .. m : stream[i].k \notin K
      <4>1. ASSUME NEW i \in n + cb.length + 1 .. m PROVE stream[i].k \notin K
        <5>1. i = p + 1 /\ p' = p + 1 /\ m = p'
          BY <2>1, <4>1
        <5>. QED BY <1>3, <2>2, <5>1
      <4>. QED BY <4>1
    <3>5. B \subseteq 1 .. n
      BY <1>1
    <3>. HIDE DEF K, B
    <3>6. \A i : i \in KindAt(K, m)' \ B' <=> i \in PassedAs(on)'
      <4>1. \A i : i \in KindAt(K, m)' <=> i \in 1 .. m /\ stream[i].k \in K
        BY DEF KindAt
      <4>2. \A i : i \in KindAt(K, n) <=> i \in 1 .. n /\ stream[i].k \in K
        BY DEF KindAt
      <4>3. n + cb.length <= m
        BY <1>2
      <4>4. ASSUME NEW i \in 1 .. m
            PROVE  i \in KindAt(K, m)' \ B' <=> i \in PassedAs(on)'
        <5>1. CASE i \in 1 .. n
          BY <2>3, <3>1, <3>2, <4>1, <4>2, <5>1
        <5>2. CASE i \in n + 1 .. n + cb.length
          BY <2>3, <3>1, <3>2, <3>3, <3>5, <4>1, <4>2, <5>2
        <5>3. CASE i \in n + cb.length + 1 .. m
          BY <1>2, <2>3, <3>1, <3>2, <3>4, <3>5, <4>1, <4>2, <5>3
        <5>. QED BY <1>2, <5>1, <5>2, <5>3
      <4>5. \A i : i \in PassedAs(on)' => i \in 1 .. m
        BY <1>2, <3>1, <3>2, <4>2, <4>3
      <4>. QED BY <4>1, <4>4, <4>5
    <3>. QED BY <3>6 DEF K
  <2>6. KindAt({"body"}, p)' \subseteq B'
    <3>1. CASE p' = p
      BY <2>3, <3>1 DEF KindAt
    <3>2. CASE p' = p + 1
      <4>1. stream[p + 1].k # "body"
        BY <1>3, <2>1, <2>2, <3>2
      <4>. QED BY <2>3, <3>2, <4>1 DEF KindAt
    <3>. QED BY <2>1, <3>1, <3>2
  <2>7. \A i \in m + 1 .. p' : stream[i].k \in KindsOf(field')
    <3>1. CASE m = p'
      <4>1. m + 1 .. m = {}
        OBVIOUS
      <4>. QED BY <3>1, <4>1
    <3>2. CASE m # p'
      <4>1. m = n /\ p' = p + 1 /\ field \in {None, field'} /\ stream[p + 1].k \in KindsOf(field')
        BY <2>1, <2>2, <3>2
      <4>2. field = None => n = p
        BY <1>1 DEF Passed
      <4>3. \A i \in n + 1 .. p : stream[i].k \in KindsOf(field')
        BY <1>1, <4>1, <4>2
      <4>. QED BY <4>1, <4>3
    <3>. QED BY <3>1, <3>2
  <2>. QED BY <1>1, <2>4, <2>5, <2>6, <2>7
<1>. QED BY <1>5, <1>6

(* What was announced, after a step. *)
LEMMA CountStep ==
  ASSUME StreamTypeOK, NEW c, c = stream[p + 1] \/ p >= pe, NEW cb,
         StepReads(c, cb), Fits(cb.on), Last' = Said(cb.on), heard' = Hear(cb), UNCHANGED stream,
         cb.on \in Data \cup Notice \cup {None}, cb.on = "headers_complete" => Last # cb.on,
         p \in Nat, pe \in Nat, PassedAs("body") \subseteq 1 .. Passed,
         step = "body_logic" => stream[p + 1].k = "end" /\ p < pe,
         Count("message_begin") = Cardinality(KindAt({"method"}, p) \ PassedAs("body")),
         Count("headers_complete") = Cardinality(KindAt({"end"}, Announced) \ PassedAs("body")),
         Count("message_begin") = Count("message_complete")
                                  + (IF Last = "message_complete" THEN 0 ELSE 1)
  PROVE  /\ (Count("message_begin") = Cardinality(KindAt({"method"}, p) \ PassedAs("body")))'
         /\ (Count("headers_complete") = Cardinality(KindAt({"end"}, Announced) \ PassedAs("body")))'
         /\ (Count("message_begin") = Count("message_complete")
                                      + (IF Last = "message_complete" THEN 0 ELSE 1))'
<1>. DEFINE B == PassedAs("body")
            one(on) == IF cb.on = on THEN 1 ELSE 0
<1>1. /\ Passed \in 0 .. p /\ cb.length \in Nat /\ cb.at \in Nat
      /\ cb.at = IF cb.on \in Data THEN Passed ELSE 0
      /\ cb.on # "body" => p' \in {p, p + 1} /\ (cb.length # 0 => cb.on \in Field)
      /\ cb.on = "body" => Passed = p /\ p' = p + cb.length
  BY DEF StepReads, PassesOn
<1>2. B \in SUBSET (1 .. p)
  BY <1>1
<1>3. ASSUME NEW on \in Notice PROVE Count(on) \in Nat /\ Count(on)' = Count(on) + one(on)
  <2>1. CASE cb.on = None
    <3>1. heard' = heard /\ one(on) = 0
      BY <2>1 DEF Hear, None, Notice
    <3>2. Count(on)' = Count(on)
      BY <3>1 DEF Count
    <3>3. Count(on) \in Nat
      <4>1. IsFiniteSet(1 .. Len(heard)) /\ DOMAIN heard = 1 .. Len(heard)
        <5>1. Len(heard) \in Nat /\ DOMAIN heard = 1 .. Len(heard)
          BY DEF StreamTypeOK
        <5>. QED BY <5>1, FS_Interval
      <4>2. {i \in DOMAIN heard : heard[i].on = on} \in SUBSET (1 .. Len(heard))
        BY <4>1
      <4>. QED BY <4>1, <4>2, FS_Subset, FS_CardinalityType DEF Count
    <3>. QED BY <3>1, <3>2, <3>3
  <2>2. CASE cb.on # None
    BY <1>1, <2>2, HearCount
  <2>. QED BY <2>1, <2>2
<1>4. /\ "message_begin" \in Notice /\ "headers_complete" \in Notice /\ "message_complete" \in Notice
      /\ "body" \in Data /\ \A on \in Notice : on \notin Data /\ on # None
  BY DEF Notice, Data, Field, None
<1>5. /\ cb.on # "body" /\ p' = p + 1 =>
           /\ p < pe
           /\ stream[p + 1].k = "method" <=> cb.on = "message_begin"
           /\ stream[p + 1].k = "end" <=> step = "body_logic"
      /\ cb.on = "message_begin" => p' = p + 1
      /\ IF cb.on = "headers_complete"
           THEN step' = "body_logic" /\ p' = p /\ stream[p + 1].k = "end" /\ step # "body_logic"
           ELSE step' # "body_logic"
      /\ step = "body_logic" => p' = p + 1 /\ cb.on # "body"
  BY DEF StepReads, ReadsCell
<1>6. \A i : i \in B' <=> i \in B \/ ("body" = cb.on /\ i \in cb.at + 1 .. cb.at + cb.length)
  BY <1>1, <1>4, PassedMore
<1>. DEFINE M == Cardinality(KindAt({"method"}, p) \ B)
            H == Cardinality(KindAt({"end"}, Announced) \ B)
<1>10. Count("message_begin") = M /\ Count("headers_complete") = H
  OBVIOUS
<1>. HIDE DEF B
<1>11. Cardinality(KindAt({"method"}, p) \ B) \in Nat /\ Cardinality(KindAt({"end"}, p) \ B) \in Nat
  BY <1>2, KindMore
<1>12. ASSUME NEW K
       PROVE  Cardinality(KindAt(K, p + 1) \ B)
                = Cardinality(KindAt(K, p) \ B) + (IF stream[p + 1].k \in K THEN 1 ELSE 0)
  BY ONLY p \in Nat, <1>2, KindMore
<1>7. (Count("message_begin") = Count("message_complete")
                                + (IF Last = "message_complete" THEN 0 ELSE 1))'
  <2>1. cb.on = "message_complete" => Last # "message_complete"
    BY <1>4 DEF Fits
  <2>2. cb.on \notin {None, "message_begin"} => Last # "message_complete"
    BY DEF Fits
  <2>3. cb.on = "message_begin" => Last = "message_complete"
    BY DEF Fits, None
  <2>. QED BY <1>3, <1>4, <2>1, <2>2, <2>3 DEF Said
<1>8. CASE cb.on = "body"
  <2>1. /\ \A i : i \in B' <=> i \in B \/ i \in p + 1 .. p'
        /\ p' \in Nat /\ p <= p' /\ Announced' = p' /\ step # "body_logic" /\ Announced = p
    <3>1. step # "body_logic"
      BY <1>5, <1>8
    <3>. QED BY <1>1, <1>4, <1>5, <1>6, <1>8 DEF Announced
  <2>2. /\ \A i : i \in 1 .. p' <=> i \in 1 .. p \/ i \in p + 1 .. p'
        /\ \A i \in p + 1 .. p' : i \notin 1 .. p
    BY <2>1
  <2>3. (KindAt({"method"}, p) \ B)' = KindAt({"method"}, p) \ B
    BY <2>1, <2>2 DEF KindAt
  <2>4. (KindAt({"end"}, Announced) \ B)' = KindAt({"end"}, Announced) \ B
    BY <2>1, <2>2 DEF KindAt
  <2>5. M' = M /\ H' = H
    BY <2>3, <2>4
  <2>. HIDE DEF M, H
  <2>6. M \in Nat /\ H \in Nat
    BY <1>3, <1>4, <1>10
  <2>7. (Count("message_begin") = M)' /\ (Count("headers_complete") = H)'
    BY <1>3, <1>4, <1>8, <1>10, <2>5, <2>6
  <2>. QED BY <1>7, <2>7 DEF B, M, H
<1>9. CASE cb.on # "body"
  <2>1. B' = B
    BY <1>6, <1>9
  <2>2. M' = M + one("message_begin")
    <3>1. CASE p' = p
      <4>1. (KindAt({"method"}, p) \ B)' = KindAt({"method"}, p) \ B /\ one("message_begin") = 0
        BY <1>5, <2>1, <3>1 DEF KindAt
      <4>2. M' = M /\ M \in Nat
        BY <1>11, <4>1
      <4>. HIDE DEF M
      <4>. QED BY <4>1, <4>2
    <3>2. CASE p' = p + 1
      <4>1. (KindAt({"method"}, p) \ B)' = KindAt({"method"}, p + 1) \ B
        BY <2>1, <3>2 DEF KindAt
      <4>2. CASE stream[p + 1].k = "method"
        <5>1. stream[p + 1].k \in {"method"} /\ one("message_begin") = 1
          BY <1>5, <1>9, <3>2, <4>2
        <5>2. Cardinality(KindAt({"method"}, p + 1) \ B) = Cardinality(KindAt({"method"}, p) \ B) + 1
          BY <1>12, <5>1
        <5>. QED BY <4>1, <5>1, <5>2
      <4>3. CASE stream[p + 1].k # "method"
        <5>1. stream[p + 1].k \notin {"method"} /\ one("message_begin") = 0
          BY <1>5, <1>9, <3>2, <4>3
        <5>2. Cardinality(KindAt({"method"}, p + 1) \ B) = Cardinality(KindAt({"method"}, p) \ B) + 0
          BY <1>12, <5>1
        <5>. QED BY <4>1, <5>1, <5>2
      <4>. QED BY <4>2, <4>3
    <3>. QED BY <1>1, <1>9, <3>1, <3>2
  <2>3. H' = H + one("headers_complete")
    <3>1. CASE cb.on = "headers_complete"
      <4>1. Announced = p /\ Announced' = p + 1 /\ stream[p + 1].k \in {"end"}
        BY <1>5, <3>1 DEF Announced
      <4>2. /\ (KindAt({"end"}, Announced) \ B)' = KindAt({"end"}, p + 1) \ B
            /\ KindAt({"end"}, Announced) \ B = KindAt({"end"}, p) \ B
        BY <2>1, <4>1 DEF KindAt
      <4>3. Cardinality(KindAt({"end"}, p + 1) \ B) = Cardinality(KindAt({"end"}, p) \ B) + 1
        BY <1>12, <4>1
      <4>. QED BY <3>1, <4>2, <4>3
    <3>2. CASE cb.on # "headers_complete"
      <4>1. (KindAt({"end"}, Announced) \ B)' = KindAt({"end"}, p') \ B
        <5>1. Announced' = p'
          BY <1>5, <3>2 DEF Announced
        <5>. QED BY <2>1, <5>1 DEF KindAt
      <4>2. Cardinality(KindAt({"end"}, p') \ B) = Cardinality(KindAt({"end"}, Announced) \ B) + 0
        <5>1. CASE step = "body_logic" \/ p' = p
          <6>1. p' = Announced
            BY <1>5, <5>1 DEF Announced
          <6>. QED BY <1>10, <1>3, <1>4, <6>1
        <5>2. CASE step # "body_logic" /\ p' # p
          <6>1. p' = p + 1 /\ Announced = p /\ stream[p + 1].k \notin {"end"}
            BY <1>1, <1>5, <1>9, <5>2 DEF Announced
          <6>2. Cardinality(KindAt({"end"}, p + 1) \ B) = Cardinality(KindAt({"end"}, p) \ B) + 0
            BY <1>12, <6>1
          <6>. QED BY <6>1, <6>2
        <5>. QED BY <5>1, <5>2
      <4>. QED BY <3>2, <4>1, <4>2
    <3>. QED BY <3>1, <3>2
  <2>. HIDE DEF M, H
  <2>4. (Count("message_begin") = M)' /\ (Count("headers_complete") = H)'
    BY <1>3, <1>4, <1>10, <2>2, <2>3
  <2>. QED BY <1>7, <2>4 DEF B, M, H
<1>. QED BY <1>8, <1>9

(* What is heard stays in order, and within what has been passed on.       *)
LEMMA HearNext ==
  ASSUME StreamTypeOK, NEW c, NEW cb, StepReads(c, cb), cb.on \in Data \cup Notice \cup {None},
         heard' = Hear(cb), p \in Nat, InOrder(heard), Within(heard, Passed)
  PROVE  InOrder(heard') /\ Within(heard', Passed') /\ Passed' \in Nat
<1>1. PICK n \in Nat, m \in Nat : n = Passed /\ m = Passed'
  BY DEF StepReads, PassesOn
<1>2. /\ n <= m /\ cb.length \in Nat /\ cb.at \in Nat /\ n + cb.length <= m
      /\ cb.on \in Data => cb.at = n
      /\ cb.on \notin Data => cb.at = 0 /\ cb.length = 0
  BY <1>1 DEF StepReads, PassesOn, Data
<1>3. CASE cb.on = None
  <2>1. heard' = heard
    BY <1>3 DEF Hear
  <2>2. \A i \in DOMAIN heard : \A j \in DOMAIN heard[i].text : heard[i].text[j] \in Nat
    <3>1. \A i \in DOMAIN heard : heard[i] \in Heard
      BY DEF StreamTypeOK
    <3>. QED BY <3>1 DEF Heard
  <2>3. Within(heard, m)
    BY <1>1, <1>2, <2>2 DEF Within
  <2>. QED BY <1>1, <2>1, <2>3
<1>4. CASE cb.on # None
  <2>1. cb.on \in Data \cup Notice /\ cb.at + cb.length <= m /\ (cb.length = 0 \/ n <= cb.at)
    BY <1>2, <1>4
  <2>2. InOrder(Hear(cb))
    BY <1>1, <1>2, <2>1, HearInOrder
  <2>3. Within(Hear(cb), m)
    BY <1>1, <1>2, <2>1, HearWithin
  <2>. QED BY <1>1, <2>2, <2>3
<1>. QED BY <1>3, <1>4

LEMMA PassStep ==
  ASSUME StreamInv, PassInv, Parse
  PROVE  PassInv'
<1>. DEFINE cb == Callback(Here)
<1>1. /\ Here \in Cell /\ (Here = stream[p + 1] \/ p >= pe) /\ ParserStep(Here)
      /\ heard' = Hear(cb) /\ UNCHANGED <<stream, ended>>
      /\ Fits(cb.on) /\ Last' = Said(cb.on)
  BY ParseSays
<1>2. /\ ParserTypeOK /\ ParserInv /\ StreamTypeOK /\ TurnInv
      /\ p \in Nat /\ pe \in Nat /\ field \in Field \cup {None} /\ pe' = pe
  BY <1>1, CursorStep DEF StreamInv, ParserTypeOK
<1>3. step # "idle"
  BY <1>1 DEF ParserStep, EatForever, RefuseField, RefuseURI, RefuseDigit, Advance, Reject,
              HeadersComplete,
              BodyLogic, ChunkData, SkipBody, LastChunk, EndRequest, Leave, Reading
<1>4. /\ "ERROR" \notin flags
      /\ "ERROR" \in flags' => step' = "idle"
      /\ ~http_parser_has_error' => ~http_parser_has_error
  BY <1>1, <1>2, <1>3, ErrorStays DEF PassInv
<1>5. (ended => pe = Len(stream))'
  BY <1>1, <1>2 DEF PassInv
<1>. SUFFICES ASSUME ~http_parser_has_error'
              PROVE  /\ InOrder(heard') /\ Within(heard', Passed')
                     /\ step' = "idle" => p' = pe'
                     /\ step' = "body_logic" => stream'[p' + 1].k = "end"
                     /\ (PassedAs("body") \subseteq 1 .. Passed)'
                     /\ \A on \in Field :
                          (PassedAs(on) = KindAt(KindsOf(on), Passed) \ PassedAs("body"))'
                     /\ (KindAt({"body"}, p) \subseteq PassedAs("body"))'
                     /\ (\A i \in Passed + 1 .. p : stream[i].k \in KindsOf(field))'
                     /\ (Count("message_begin") = Cardinality(KindAt({"method"}, p)
                                                              \ PassedAs("body")))'
                     /\ (Count("headers_complete") = Cardinality(KindAt({"end"}, Announced)
                                                                 \ PassedAs("body")))'
                     /\ (Count("message_begin") = Count("message_complete")
                                   + (IF Last = "message_complete" THEN 0 ELSE 1))'
  BY <1>4, <1>5 DEF PassInv
<1>6. /\ InOrder(heard) /\ Within(heard, Passed)
      /\ PassedAs("body") \subseteq 1 .. Passed
      /\ \A on \in Field : PassedAs(on) = KindAt(KindsOf(on), Passed) \ PassedAs("body")
      /\ KindAt({"body"}, p) \subseteq PassedAs("body")
      /\ \A i \in Passed + 1 .. p : stream[i].k \in KindsOf(field)
      /\ Count("message_begin") = Cardinality(KindAt({"method"}, p) \ PassedAs("body"))
      /\ Count("headers_complete") = Cardinality(KindAt({"end"}, Announced) \ PassedAs("body"))
      /\ Count("message_begin") = Count("message_complete")
                                  + (IF Last = "message_complete" THEN 0 ELSE 1)
  BY <1>4 DEF PassInv
<1>7. step = "body_logic" => stream[p + 1].k = "end" /\ p < pe
  BY <1>2, <1>4 DEF PassInv, ParserInv, PhaseInv
<1>8. StepReads(Here, cb)
  BY <1>1, <1>2, <1>4, <1>7, StepReadsOn
<1>9. cb.on = "headers_complete" => Last # cb.on
  BY <1>2, <1>8 DEF StepReads, TurnInv, HeadStates, CState, ChunkState, InHeaders, Field
<1>10. cb.on \in Data \cup Notice \cup {None}
  BY <1>1 DEF Fits
<1>11. InOrder(heard') /\ Within(heard', Passed')
  BY <1>1, <1>2, <1>6, <1>8, <1>10, HearNext
<1>12. step' = "idle" => p' = pe'
  BY <1>2, <1>8 DEF StepReads
<1>13. step' = "body_logic" => stream'[p' + 1].k = "end"
  BY <1>1, <1>2, <1>8 DEF StepReads
<1>14. /\ (PassedAs("body") \subseteq 1 .. Passed)'
       /\ \A on \in Field : (PassedAs(on) = KindAt(KindsOf(on), Passed) \ PassedAs("body"))'
       /\ (KindAt({"body"}, p) \subseteq PassedAs("body"))'
       /\ (\A i \in Passed + 1 .. p : stream[i].k \in KindsOf(field))'
  BY <1>1, <1>2, <1>6, <1>8, <1>10, PassedStep
<1>15. /\ (Count("message_begin") = Cardinality(KindAt({"method"}, p) \ PassedAs("body")))'
       /\ (Count("headers_complete") = Cardinality(KindAt({"end"}, Announced) \ PassedAs("body")))'
       /\ (Count("message_begin") = Count("message_complete")
                                      + (IF Last = "message_complete" THEN 0 ELSE 1))'
  <2>1. PassedAs("body") \subseteq 1 .. Passed
    BY <1>6
  <2>. QED BY <1>1, <1>2, <1>6, <1>7, <1>8, <1>9, <1>10, CountStep
<1>. QED BY <1>11, <1>12, <1>13, <1>14, <1>15

LEMMA InitPassInv == Init => PassInv
<1>. SUFFICES ASSUME Init PROVE PassInv
  OBVIOUS
<1>1. /\ heard = <<>> /\ p = 0 /\ pe = 0 /\ step = "idle" /\ field = None /\ flags = {} /\ ~ended
  BY DEF Init, ParserInit
<1>2. /\ Passed = 0 /\ Announced = 0 /\ Last = "message_complete"
      /\ InOrder(heard) /\ Within(heard, 0)
  BY <1>1 DEF Passed, Announced, Last, InOrder, Within
<1>3. ASSUME NEW on PROVE PassedAs(on) = {} /\ Count(on) = 0
  <2>1. {i \in DOMAIN heard : heard[i].on = on} = {}
    BY <1>1
  <2>. QED BY <2>1, FS_EmptySet DEF PassedAs, Count
<1>4. ASSUME NEW K PROVE KindAt(K, 0) = {} /\ Cardinality(KindAt(K, 0) \ {}) = 0
  <2>1. KindAt(K, 0) = {}
    BY DEF KindAt
  <2>2. KindAt(K, 0) \ {} = {}
    BY <2>1
  <2>. QED BY <2>1, <2>2, FS_EmptySet
<1>5. PassedAs("body") \subseteq 1 .. 0 /\ KindAt({"body"}, 0) \subseteq PassedAs("body")
  BY <1>3, <1>4
<1>6. \A on \in Field : PassedAs(on) = KindAt(KindsOf(on), 0) \ PassedAs("body")
  BY <1>3, <1>4
<1>7. \A i \in 1 .. 0 : stream[i].k \in KindsOf(field)
  OBVIOUS
<1>8. /\ Count("message_begin") = Cardinality(KindAt({"method"}, 0) \ PassedAs("body"))
      /\ Count("headers_complete") = Cardinality(KindAt({"end"}, 0) \ PassedAs("body"))
      /\ Count("message_begin") = Count("message_complete") + 0
  BY <1>3, <1>4
<1>. QED BY <1>1, <1>2, <1>5, <1>6, <1>7, <1>8 DEF PassInv

(* A new call reads on from where the last one ended. *)
LEMMA FeedPass ==
  ASSUME StreamInv, PassInv, Feed
  PROVE  PassInv'
<1>1. PICK n \in 0 .. Len(stream) - pe : /\ n = 0 => pe = Len(stream)
                                         /\ ended' = (n = 0)
                                         /\ http_parser_execute(pe, n)
  BY DEF Feed
<1>2. /\ UNCHANGED <<stream, heard, cs, field, flags>> /\ ~http_parser_has_error
      /\ step = "idle" /\ step' \in {"exec", "skip", "eat_forever"}
      /\ p' = pe /\ pe' = pe + n
  BY <1>1 DEF Feed, http_parser_execute, lengthVars
<1>3. /\ p = pe /\ "ERROR" \notin flags' /\ ~http_parser_has_error'
      /\ Announced = p /\ Announced' = p /\ Passed = p
  BY <1>2 DEF PassInv, http_parser_has_error, Announced, Passed
<1>4. (ended => pe = Len(stream))'
  <2>1. pe \in Nat
    BY DEF StreamInv, ParserTypeOK
  <2>2. ended' => n = 0
    BY <1>1
  <2>3. n = 0 => pe + n = pe
    BY <2>1
  <2>. QED BY <1>1, <1>2, <2>2, <2>3
<1>5. Passed' = p
  <2>1. field # None /\ step' = "exec" => markAt' = pe
    <3>1. step' = "exec" => "EAT_FOREVER" \notin flags
      BY <1>1 DEF http_parser_execute
    <3>. QED BY <1>1, <3>1 DEF http_parser_execute
  <2>. QED BY <1>2, <1>3, <2>1 DEF Passed
<1>6. \A i \in p + 1 .. p : FALSE
  BY DEF StreamInv, ParserTypeOK
<1>7. /\ \A on : PassedAs(on)' = PassedAs(on) /\ Count(on)' = Count(on)
      /\ Last' = Last
  BY <1>2 DEF PassedAs, Count, Last
<1>8. /\ InOrder(heard) /\ Within(heard, p)
      /\ PassedAs("body") \subseteq 1 .. p
      /\ \A on \in Field : PassedAs(on) = KindAt(KindsOf(on), p) \ PassedAs("body")
      /\ KindAt({"body"}, p) \subseteq PassedAs("body")
      /\ Count("message_begin") = Cardinality(KindAt({"method"}, p) \ PassedAs("body"))
      /\ Count("headers_complete") = Cardinality(KindAt({"end"}, p) \ PassedAs("body"))
      /\ Count("message_begin") = Count("message_complete")
                                  + (IF Last = "message_complete" THEN 0 ELSE 1)
  BY <1>2, <1>3 DEF PassInv
<1>9. /\ InOrder(heard)' /\ Within(heard, Passed)'
      /\ (\A i \in Passed + 1 .. p : stream[i].k \in KindsOf(field))'
  BY <1>2, <1>3, <1>5, <1>6, <1>8
<1>10. /\ (PassedAs("body") \subseteq 1 .. Passed)'
       /\ (KindAt({"body"}, p) \subseteq PassedAs("body"))'
  BY <1>2, <1>3, <1>5, <1>8 DEF PassedAs, KindAt
<1>11. ASSUME NEW on \in Field
       PROVE  (PassedAs(on) = KindAt(KindsOf(on), Passed) \ PassedAs("body"))'
  <2>1. PassedAs(on) = KindAt(KindsOf(on), p) \ PassedAs("body")
    BY <1>8
  <2>. QED BY <1>2, <1>5, <2>1 DEF PassedAs, KindAt
<1>12. /\ (Count("message_begin") = Cardinality(KindAt({"method"}, p) \ PassedAs("body")))'
       /\ (Count("headers_complete") = Cardinality(KindAt({"end"}, Announced) \ PassedAs("body")))'
       /\ (Count("message_begin") = Count("message_complete")
                                    + (IF Last = "message_complete" THEN 0 ELSE 1))'
  BY <1>2, <1>3, <1>8 DEF PassedAs, Count, Last, KindAt
<1>. QED BY <1>2, <1>3, <1>4, <1>9, <1>10, <1>11, <1>12 DEF PassInv

LEMMA PassStutter ==
  ASSUME PassInv, UNCHANGED vars
  PROVE  PassInv'
<1>. DEFINE BodyPassed == PassedAs("body") \subseteq 1 .. Passed
                          /\ KindAt({"body"}, p) \subseteq PassedAs("body")
            FieldPassed == \A on \in Field :
                             PassedAs(on) = KindAt(KindsOf(on), Passed) \ PassedAs("body")
            Counted ==
              /\ Count("message_begin") = Cardinality(KindAt({"method"}, p) \ PassedAs("body"))
              /\ Count("headers_complete") = Cardinality(KindAt({"end"}, Announced)
                                                         \ PassedAs("body"))
              /\ Count("message_begin") = Count("message_complete")
                                          + (IF Last = "message_complete" THEN 0 ELSE 1)
<1>1. /\ UNCHANGED <<stream, heard, ended, flags, step, p, pe, cs, field, markAt>>
      /\ Passed' = Passed /\ Announced' = Announced /\ Last' = Last
  BY DEF vars, parserVars, streamVars, Passed, Announced, Last
<1>2. BodyPassed' = BodyPassed /\ FieldPassed' = FieldPassed /\ Counted' = Counted
  BY <1>1 DEF PassedAs, KindAt, Count
<1>3. http_parser_has_error' = http_parser_has_error
  BY <1>1 DEF http_parser_has_error
<1>. QED BY <1>1, <1>2, <1>3 DEF PassInv

(* Whatever it is given and however it is cut, as long as the parser       *)
(* refuses nothing no cell of a field is lost, told twice or told under    *)
(* another name, and each message is announced.                            *)
THEOREM PassConsistent == Spec => [](StreamInv /\ PassInv)
<1>1. Init => StreamInv /\ PassInv
  BY InitStreamInv, InitPassInv
<1>2. StreamInv /\ PassInv /\ [Next]_vars => (StreamInv /\ PassInv)'
  BY FeedStep, ParseStep, StreamStutter, FeedPass, PassStep, PassStutter DEF Next
<1>. QED
  BY <1>1, <1>2, PTL DEF Spec

(* What the callbacks have made of the stream: bodies aside, each cell     *)
(* passed on once, in order and under its own name, and every message      *)
(* announced, with the end of its headers; the end of a message is missing *)
(* for the last one alone.  Every cell of the kind of a body was passed on *)
(* as one; others may have been, where a length covers them.               *)
EachCellTold ==
  /\ InOrder(heard)
  /\ Places(stream, {"body"}) \subseteq PassedAs("body")
  /\ \A on \in Field : PassedAs(on) = Places(stream, KindsOf(on)) \ PassedAs("body")
  /\ Count("message_begin") = Cardinality(Places(stream, {"method"}) \ PassedAs("body"))
  /\ Count("headers_complete") = Cardinality(Places(stream, {"end"}) \ PassedAs("body"))
  /\ Count("message_begin") = Count("message_complete")
                              + (IF Last = "message_complete" THEN 0 ELSE 1)

LEMMA ReadThrough ==
  ASSUME StreamInv, PassInv, Read
  PROVE  EachCellTold
<1>1. /\ Passed = Len(stream) /\ Announced = Len(stream) /\ p = Len(stream)
      /\ stream \in Seq(Cell)
  BY StreamsAssumption DEF Read, PassInv, Passed, Announced, StreamInv, StreamTypeOK
<1>2. ASSUME NEW K PROVE KindAt(K, Len(stream)) = Places(stream, K)
  BY <1>1 DEF KindAt, Places
<1>. QED BY <1>1, <1>2 DEF EachCellTold, Read, PassInv

(* The end of any stream that was not refused leaves no cell untold, for   *)
(* any cut ("can be interrupted at anytime", README.md:6 of the parser).   *)
THEOREM NoCellLost == Spec => [](Read => EachCellTold)
<1>1. StreamInv /\ PassInv => (Read => EachCellTold)
  BY ReadThrough
<1>. QED
  BY <1>1, PassConsistent, PTL

(* The lengths announced in the stream cover the bodies in it and nothing  *)
(* else, and its last message is whole.                                    *)
Framed == PassedAs("body") \subseteq Places(stream, {"body"}) /\ Last = "message_complete"

(* Of such a stream everything is told as it stands in it.                 *)
THEOREM InterruptedWithoutLoss == Spec => [](Framed => InterruptedAnywhere)
<1>1. ASSUME StreamInv, PassInv, Framed PROVE InterruptedAnywhere
  <2>. SUFFICES ASSUME Read PROVE EachCellTold => InterruptedAnywhere
    BY <1>1, ReadThrough DEF InterruptedAnywhere
  <2>. SUFFICES ASSUME EachCellTold PROVE InterruptedAnywhere
    OBVIOUS
  <2>1. PassedAs("body") = Places(stream, {"body"})
    BY <1>1 DEF EachCellTold, Framed
  <2>2. \A K : "body" \notin K => Places(stream, K) \ Places(stream, {"body"}) = Places(stream, K)
    BY DEF Places
  <2>3. \A on \in Field : "body" \notin KindsOf(on)
    BY DEF Field, KindsOf, ValueKind
  <2>4. \A on \in Field : PassedAs(on) = Places(stream, KindsOf(on))
    BY <2>1, <2>2, <2>3 DEF EachCellTold
  <2>5. KindsOf("body") = {"body"}
    BY DEF KindsOf
  <2>6. /\ Places(stream, {"method"}) \ PassedAs("body") = Places(stream, {"method"})
        /\ Places(stream, {"end"}) \ PassedAs("body") = Places(stream, {"end"})
    BY <2>1, <2>2
  <2>7. Count("message_complete") = Cardinality(Places(stream, {"method"}))
    <3>1. Count("message_complete") \in Nat
      <4>1. Len(heard) \in Nat /\ DOMAIN heard = 1 .. Len(heard) /\ IsFiniteSet(1 .. Len(heard))
        BY <1>1, FS_Interval DEF StreamInv, StreamTypeOK
      <4>2. {i \in DOMAIN heard : heard[i].on = "message_complete"} \in SUBSET (1 .. Len(heard))
        BY <4>1
      <4>. QED BY <4>1, <4>2, FS_Subset, FS_CardinalityType DEF Count
    <3>2. Count("message_begin") = Count("message_complete") + 0
      BY <1>1 DEF EachCellTold, Framed
    <3>3. Count("message_begin") = Cardinality(Places(stream, {"method"}))
      BY <2>6 DEF EachCellTold
    <3>. QED BY <3>1, <3>2, <3>3
  <2>. QED BY <2>1, <2>4, <2>5, <2>6, <2>7 DEF InterruptedAnywhere, EachCellTold, Data
<1>2. StreamInv /\ PassInv => (Framed => InterruptedAnywhere)
  BY <1>1
<1>. QED
  BY <1>2, PassConsistent, PTL
=============================================================================
