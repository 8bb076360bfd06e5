------------------------------- MODULE Message -------------------------------
(***************************************************************************)
(* What a stream of cells says, read as a whole and without a parser: the  *)
(* parts of its first request as sets of places in the stream.  This is    *)
(* the reference the parser and the server are compared with.              *)
(***************************************************************************)
EXTENDS HttpParser, Sequences, FiniteSets

Least(S) == CHOOSE i \in S : \A j \in S : i <= j
Greatest(S) == CHOOSE i \in S : \A j \in S : j <= i
Places(r, K) == {i \in DOMAIN r : r[i].k \in K}

(* The first request's blank line; 0 when the headers never end. *)
HeadEnd(r) == IF Places(r, {"end"}) = {} THEN 0 ELSE Least(Places(r, {"end"}))
InHead(r, K) == {i \in Places(r, K) : i <= HeadEnd(r)}

(* The body cells that follow, up to a second request. *)
BodyPlaces(r) == {i \in Places(r, {"body"}) :
                    /\ i > HeadEnd(r)
                    /\ \A j \in Places(r, {"method"}) : j < HeadEnd(r) \/ i < j}

Chunked(r) == InHead(r, {"chunked"}) # {}

(* The number the digits before each place spell, -1 without one. *)
NextNumber(c, v) == IF c.k # "digit" THEN v ELSE IF v = -1 THEN c.n ELSE 10 * v + c.n
Spelled(r) ==
  LET number[i \in 0 .. Len(r)] == IF i = 0 THEN -1 ELSE NextNumber(r[i], number[i - 1])
  IN  number

(* The number its Content-Length header spells, -1 without one. *)
DeclaredLength(r) == Spelled(r)[HeadEnd(r)]

(* The place of the last cell of the first request; 0 when it is never     *)
(* whole, because the headers or the body are cut short.                   *)
MessageEnd(r) ==
  LET last == {i \in Places(r, {"last"}) : i > HeadEnd(r)}
  IN  CASE HeadEnd(r) = 0 -> 0
        [] HeadEnd(r) # 0 /\ Chunked(r) -> IF last = {} THEN 0 ELSE Least(last)
        [] HeadEnd(r) # 0 /\ ~Chunked(r) /\ DeclaredLength(r) < 0 -> HeadEnd(r)
        [] HeadEnd(r) # 0 /\ ~Chunked(r) /\ DeclaredLength(r) >= 0 ->
             IF HeadEnd(r) + DeclaredLength(r) \in DOMAIN r
               THEN HeadEnd(r) + DeclaredLength(r) ELSE 0

(* The places of the name and of the value of the header with that colon. *)
NamePlaces(r, colon) ==
  {i \in InHead(r, {"name"}) : i < colon /\ \A j \in i .. colon - 1 : r[j].k = "name"}
ValuePlaces(r, colon) ==
  {i \in InHead(r, ValueKind) :
     i > colon /\ \A j \in colon + 1 .. i : r[j].k \in ValueKind}

(* A name that comes again overrides the header before it. *)
NameOf(r, colon) == SubSeq(r, colon - Cardinality(NamePlaces(r, colon)), colon - 1)
Stands(r, colon) ==
  \A c \in InHead(r, {"colon"}) : colon < c => NameOf(r, c) # NameOf(r, colon)
HeaderPlaces(r) ==
  {<<NamePlaces(r, c), ValuePlaces(r, c)>> : c \in {c \in InHead(r, {"colon"}) : Stands(r, c)}}
=============================================================================
