----------------------------- MODULE JillProofs -----------------------------
(***************************************************************************)
(* IInv is an inductive invariant of Jill, for every set of clients and    *)
(* requests, every size of the buffer and every way the requests are cut   *)
(* into recv() calls; TypeOK, RecvHasRoom and TerminatorsSafe follow.      *)
(* With RInv, which says where in its client's stream the parser stands,   *)
(* Jill implements Jsgi, and hands the application the entire body.        *)
(***************************************************************************)
EXTENDS JillInductive, HttpParserProofs, FiniteSetTheorems, NaturalsInduction,
        WellFoundedInduction

-----------------------------------------------------------------------------
(***************************************************************************)
(* C strings.                                                              *)
(***************************************************************************)
Less == {pair \in Nat \X Nat : pair[1] < pair[2]}

(* A set of numbers has a least element. *)
LEMMA LeastNumber ==
  ASSUME NEW S \in SUBSET Nat, S # {}
  PROVE  \E s \in S : \A t \in S : s <= t
<1>1. IsWellFoundedOn(Less, Nat)
  BY NatLessThanWellFounded, Zenon DEF OpToRel, Less
<1>2. PICK s \in S : \A t \in S : <<t, s>> \notin Less
  BY <1>1, WFMin
<1>3. ASSUME NEW t \in S PROVE s <= t
  <2>1. s \in Nat /\ t \in Nat
    OBVIOUS
  <2>2. <<t, s>> \notin Less
    BY <1>2
  <2>3. ~(t < s)
    BY <2>1, <2>2, Zenon DEF Less
  <2>. QED BY <2>1, <2>3
<1>. QED BY <1>3

(* A C string that starts before a NUL of the buffer is a text. *)
LEMMA CStringText ==
  ASSUME NEW size \in Nat, NEW m \in [0 .. size - 1 -> Byte],
         NEW o \in Nat, NEW z \in 0 .. size - 1, o <= z, m[z] = Nul
  PROVE  CString(m, o) \in Text
<1>. DEFINE S == {e \in 0 .. size - 1 : e >= o /\ m[e] = Nul}
            First(e) == /\ e >= o /\ m[e] = Nul
                        /\ \A i \in o .. e - 1 : m[i] # Nul
            end == CHOOSE e \in DOMAIN m : First(e)
<1>1. DOMAIN m = 0 .. size - 1
  OBVIOUS
<1>2. \E e \in DOMAIN m : First(e)
  <2>1. S \in SUBSET Nat /\ z \in S
    OBVIOUS
  <2>2. PICK s \in S : \A t \in S : s <= t
    BY <2>1, LeastNumber
  <2>3. ASSUME NEW i \in o .. s - 1 PROVE m[i] # Nul
    <3>1. i \in 0 .. size - 1 /\ i >= o /\ i < s
      BY <2>2
    <3>2. i \notin S
      BY <2>2, <3>1
    <3>. QED BY <3>1, <3>2
  <2>. QED BY <1>1, <2>2, <2>3
<1>3. end \in DOMAIN m /\ First(end)
  BY <1>2
<1>. HIDE DEF end, First
<1>4. end \in 0 .. size - 1 /\ end >= o
  BY <1>1, <1>3 DEF First
<1>5. ASSUME NEW i \in 1 .. end - o PROVE m[o + i - 1] \in Byte
  BY <1>4
<1>6. [i \in 1 .. end - o |-> m[o + i - 1]] \in Seq(Byte)
  <2>1. end - o \in Nat
    BY <1>4
  <2>. QED BY <1>5, <2>1
<1>. QED BY <1>6 DEF CString, Text, end, First

(* Writing a NUL keeps the buffer a buffer, and every NUL in it. *)
LEMMA WriteNul ==
  ASSUME NEW size \in Nat, NEW m \in [0 .. size - 1 -> Byte], NEW o \in Nat
  PROVE  /\ [m EXCEPT ![o] = Nul] \in [0 .. size - 1 -> Byte]
         /\ o < size => [m EXCEPT ![o] = Nul][o] = Nul
         /\ \A z \in 0 .. size - 1 : m[z] = Nul => [m EXCEPT ![o] = Nul][z] = Nul
         /\ \A z \in 0 .. size - 1 : [m EXCEPT ![o] = Nul][z] \in {m[z], Nul}
<1>. DEFINE w == [m EXCEPT ![o] = Nul]
<1>1. Nul \in Byte
  BY DEF Byte
<1>2. \A z \in 0 .. size - 1 : w[z] = IF z = o THEN Nul ELSE m[z]
  OBVIOUS
<1>3. w \in [0 .. size - 1 -> Byte]
  BY <1>1
<1>4. o < size => o \in 0 .. size - 1
  OBVIOUS
<1>. HIDE DEF w
<1>5. /\ o < size => w[o] = Nul
      /\ \A z \in 0 .. size - 1 : m[z] = Nul => w[z] = Nul
      /\ \A z \in 0 .. size - 1 : w[z] \in {m[z], Nul}
  BY <1>2, <1>4
<1>. QED BY <1>3, <1>5 DEF w

-----------------------------------------------------------------------------
(***************************************************************************)
(* What a callback cuts out of the buffer.                                 *)
(***************************************************************************)
Buffer == [0 .. bufferSize - 1 -> Byte]
OnlyNuls(m) == \A z \in 0 .. bufferSize - 1 : m[z] \in {mem[z], Nul}

(* The NUL after a part that has ended falls into the buffer. *)
LEMMA EndInBuffer ==
  ASSUME TypeOK, ParserInv, LoopInv, ExtentInv, NEW f \in Field, off[f] >= 0, Ended(f)
  PROVE  /\ off[f] \in Nat /\ len[f] \in Nat
         /\ off[f] + len[f] \in 0 .. bufferSize - 1
<1>1. off[f] \in Nat /\ len[f] \in Nat
  BY DEF TypeOK, Part
<1>2. off[f] + len[f] < p /\ p <= pe /\ pe <= bufferSize
  BY DEF ExtentInv, Extent, ParserInv, MarkInv, LoopInv
<1>. QED BY <1>1, <1>2 DEF TypeOK, ParserTypeOK

(* processHeader, unless the machine is inside a header value, makes texts *)
(* of a name and a value and changes nothing but their NULs.               *)
LEMMA HeaderText ==
  ASSUME TypeOK, ParserInv, LoopInv, ExtentInv, NameInv, field # "value"
  PROVE  HeaderMem \in Buffer /\ OnlyNuls(HeaderMem) /\ HeadersNow \in Seq(Text \X Text)
<1>0. bufferSize \in Nat /\ mem \in Buffer /\ headers \in Seq(Text \X Text)
  BY DEF TypeOK, Buffer
<1>1. CASE ~HeaderPending
  BY <1>0, <1>1 DEF HeaderMem, HeadersNow, OnlyNuls
<1>2. CASE HeaderPending
  <2>. DEFINE n == off["name"]  nz == off["name"] + len["name"]
              v == off["value"] vz == off["value"] + len["value"]
              m1 == [mem EXCEPT ![nz] = Nul]
              m2 == [m1 EXCEPT ![vz] = Nul]
  <2>1. off["name"] >= 0 /\ off["value"] >= 0
    BY <1>2 DEF NameInv, HeaderPending, ExtentInv, Part, Field
  <2>2. /\ n \in Nat /\ nz \in 0 .. bufferSize - 1 /\ len["name"] \in Nat
        /\ v \in Nat /\ vz \in 0 .. bufferSize - 1 /\ len["value"] \in Nat
    BY <1>2, <2>1, EndInBuffer DEF Field, Ended
  <2>3. HeaderMem = m2
    BY <1>2 DEF HeaderMem, Terminate
  <2>4. n <= nz /\ v <= vz
    BY <2>2
  <2>5. nz \in Nat /\ vz \in Nat /\ nz < bufferSize /\ vz < bufferSize
    BY <1>0, <2>2
  <2>. HIDE DEF n, nz, v, vz, m1, m2
  <2>6. m1 \in Buffer /\ m1[nz] = Nul /\ OnlyNuls(m1)
    BY <1>0, <2>5, WriteNul DEF Buffer, m1, OnlyNuls
  <2>7. m2 \in Buffer /\ m2[nz] = Nul /\ m2[vz] = Nul
        /\ \A z \in 0 .. bufferSize - 1 : m2[z] \in {m1[z], Nul}
    BY <1>0, <2>2, <2>5, <2>6, WriteNul DEF Buffer, m2
  <2>8. OnlyNuls(m2)
    BY <2>6, <2>7 DEF OnlyNuls
  <2>9. CString(m2, n) \in Text /\ CString(m2, v) \in Text
    BY <1>0, <2>2, <2>4, <2>7, CStringText DEF Buffer
  <2>10. HeadersNow = Append(headers, <<CString(m2, n), CString(m2, v)>>)
    BY <1>2, <2>3 DEF HeadersNow, n, v
  <2>. QED BY <1>0, <2>3, <2>7, <2>8, <2>9, <2>10
<1>. QED BY <1>1, <1>2

(* What dispatch, between two fields, hands to the application. *)
LEMMA DispatchText ==
  ASSUME TypeOK, ParserInv, LoopInv, ExtentInv, NameInv, field = None
  PROVE  /\ QueryMem \in Buffer /\ OnlyNuls(QueryMem)
         /\ HeadersNow \in Seq(Text \X Text)
         /\ AppCall \in CallOfApp
<1>0. bufferSize \in Nat /\ mem \in Buffer
  BY DEF TypeOK, Buffer
<1>1. HeaderMem \in Buffer /\ OnlyNuls(HeaderMem) /\ HeadersNow \in Seq(Text \X Text)
  BY HeaderText DEF None
<1>2. ASSUME NEW f \in Field, off[f] >= 0, NEW m \in Buffer, OnlyNuls(m)
      PROVE  /\ Terminate(m, f) \in Buffer /\ OnlyNuls(Terminate(m, f))
             /\ CString(Terminate(m, f), off[f]) \in Text
  <2>1. off[f] \in Nat /\ len[f] \in Nat /\ off[f] + len[f] \in 0 .. bufferSize - 1
    BY <1>2, EndInBuffer DEF Ended, Field, None
  <2>. DEFINE z0 == off[f] + len[f]  w == [m EXCEPT ![z0] = Nul]
  <2>2. z0 \in Nat /\ z0 < bufferSize /\ off[f] <= z0 /\ z0 \in 0 .. bufferSize - 1
    BY <1>0, <2>1
  <2>3. Terminate(m, f) = w
    BY DEF Terminate
  <2>. HIDE DEF z0, w
  <2>4. w \in Buffer /\ w[z0] = Nul /\ \A z \in 0 .. bufferSize - 1 : w[z] \in {m[z], Nul}
    BY <1>0, <1>2, <2>2, WriteNul DEF Buffer, w
  <2>5. OnlyNuls(w)
    BY <1>2, <2>4 DEF OnlyNuls
  <2>6. CString(w, off[f]) \in Text
    BY <1>0, <2>1, <2>2, <2>4, CStringText DEF Buffer
  <2>. QED BY <2>3, <2>4, <2>5, <2>6
<1>3. "path" \in Field /\ "query" \in Field /\ "path" \in Part /\ "query" \in Part
      /\ "body" \in Part
  BY DEF Field, Part
<1>e. <<>> \in Text
  BY DEF Text
<1>4. PathMem \in Buffer /\ OnlyNuls(PathMem)
      /\ (~(off["path"] < 0) => CString(PathMem, off["path"]) \in Text)
  <2>1. CASE off["path"] < 0
    BY <1>1, <2>1 DEF PathMem
  <2>2. CASE ~(off["path"] < 0)
    <3>1. off["path"] >= 0
      BY <1>3, <2>2 DEF TypeOK
    <3>. QED BY <1>1, <1>2, <1>3, <2>2, <3>1 DEF PathMem
  <2>. QED BY <2>1, <2>2
<1>5. QueryMem \in Buffer /\ OnlyNuls(QueryMem)
      /\ (~(off["query"] < 0) => CString(QueryMem, off["query"]) \in Text)
  <2>1. CASE off["query"] < 0
    BY <1>4, <2>1 DEF QueryMem
  <2>2. CASE ~(off["query"] < 0)
    <3>1. off["query"] >= 0
      BY <1>3, <2>2 DEF TypeOK
    <3>. QED BY <1>2, <1>3, <1>4, <2>2, <3>1 DEF QueryMem
  <2>. QED BY <2>1, <2>2
<1>6. ~(off["body"] < 0) =>
        [i \in 1 .. len["body"] |-> QueryMem[off["body"] + i - 1]] \in Text
  <2>. SUFFICES ASSUME ~(off["body"] < 0)
                PROVE  [i \in 1 .. len["body"] |-> QueryMem[off["body"] + i - 1]] \in Text
    OBVIOUS
  <2>1. off["body"] \in Nat /\ len["body"] \in Nat
    BY <1>3 DEF TypeOK
  <2>2. off["body"] + len["body"] <= p /\ p <= pe /\ pe <= bufferSize
    BY <2>1 DEF ExtentInv, ParserInv, MarkInv, LoopInv
  <2>3. ASSUME NEW i \in 1 .. len["body"] PROVE QueryMem[off["body"] + i - 1] \in Byte
    <3>1. off["body"] + i - 1 \in 0 .. bufferSize - 1
      BY <2>1, <2>2 DEF TypeOK, ParserTypeOK
    <3>. QED BY <1>5, <3>1 DEF Buffer
  <2>. QED BY <2>1, <2>3 DEF Text
<1>7. Env(HeadersNow) \in SUBSET (Text \X Text)
  <2>1. \A i \in DOMAIN HeadersNow : HeadersNow[i] \in Text \X Text
    BY <1>1
  <2>. QED BY <2>1, Zenon DEF Env
<1>. QED BY <1>1, <1>4, <1>5, <1>6, <1>7, <1>e DEF AppCall, CallOfApp

-----------------------------------------------------------------------------
(***************************************************************************)
(* The extents of client_data across a step of the parser.                 *)
(***************************************************************************)

(* The parser reads a cell of some client's stream. *)
LEMMA HereIsCell ==
  ASSUME TypeOK, LoopInv, MemInv
  PROVE  Here \in Cell
<1>1. CASE p < pe /\ mem[p] \notin {Nul, Junk}
  <2>1. p \in 0 .. bufferSize - 1
    BY <1>1 DEF TypeOK, ParserTypeOK, LoopInv
  <2>2. mem[p][1] \in Clients /\ mem[p][2] \in DOMAIN request[mem[p][1]]
    BY <1>1, <2>1 DEF TypeOK, MemInv
  <2>3. request[mem[p][1]] \in Seq(Cell)
    BY <2>2, SocketsAssumption DEF TypeOK, SocketsTypeOK
  <2>4. request[mem[p][1]][mem[p][2]] \in Cell
    BY <2>2, <2>3
  <2>. QED BY <1>1, <2>4 DEF Here, CellOf
<1>2. CASE ~(p < pe /\ mem[p] \notin {Nul, Junk})
  <2>1. Cell0 \in Cell
    BY DEF Cell0, Cell, Kind
  <2>. QED BY <1>2, <2>1 DEF Here, CellOf
<1>. QED BY <1>1, <1>2

(* An extent that is left alone keeps its relation to the cursor. *)
LEMMA ExtentKept ==
  ASSUME TypeOK, ParserInv, NEW c \in Cell, ParserStep(c),
         NEW f \in Field, Extent(f), off'[f] = off[f], len'[f] = len[f],
         f = "name" /\ HeaderPending' => HeaderPending \/ field # "name"
  PROVE  Extent(f)'
<1>1. off[f] \in Nat \cup {-1} /\ len[f] \in Nat /\ f # None
  BY DEF TypeOK, Part, Field, None
<1>2. /\ p <= p' /\ (field' # field => p < p')
      /\ field' # field /\ field' # None => markAt' = p
      /\ field' = field /\ field # None => markAt' = markAt
      /\ step' = "exec" /\ field # None => step = "exec"
  BY CursorStep DEF TypeOK
<1>3. p \in Nat /\ p' \in Nat /\ markAt \in Nat /\ markAt' \in Nat
  BY ParserStepType DEF TypeOK, ParserTypeOK
<1>. SUFFICES ASSUME off[f] >= 0
              PROVE  /\ off[f] + len[f] <= p'
                     /\ Ended(f)' => off[f] + len[f] < p'
                     /\ field' = f /\ step' = "exec" => off[f] + len[f] <= markAt'
  BY DEF Extent
<1>4. off[f] + len[f] <= p /\ (Ended(f) => off[f] + len[f] < p)
      /\ (field = f /\ step = "exec" => off[f] + len[f] <= markAt)
  BY DEF Extent
<1>5. off[f] + len[f] \in Nat
  BY <1>1
<1>6. Ended(f)' => Ended(f) \/ field' # field
  BY DEF Ended
<1>. QED BY <1>1, <1>2, <1>3, <1>4, <1>5, <1>6

(* An extent that takes in what the parser passes on reaches the cursor. *)
LEMMA ExtentNoted ==
  ASSUME TypeOK, ParserInv, NEW c \in Cell, ParserStep(c),
         NEW f \in Field, Extent(f), Callback(c).on = f,
         NEW o \in Nat \cup {-1}, NEW l \in Nat,
         o >= 0 => o = off[f] /\ l = len[f],
         off'[f] = (IF o < 0 THEN Callback(c).at ELSE o),
         len'[f] = (IF o < 0 THEN Callback(c).length ELSE l + Callback(c).length),
         f = "name" => ~HeaderPending'
  PROVE  Extent(f)' /\ off'[f] \in Nat /\ len'[f] \in Nat
<1>. DEFINE at == Callback(c).at  n == Callback(c).length
<1>1. /\ step = "exec" /\ at \in Nat /\ n \in Nat /\ at + n = p
      /\ (field = f /\ at = markAt) \/ (field = None /\ at = p)
      /\ field' # f => p < p'
      /\ field = f /\ field' = f => step' = "idle"
  BY FieldCallStep DEF TypeOK
<1>2. /\ p <= p'
      /\ field' # field /\ field' # None => markAt' = p
  BY CursorStep DEF TypeOK
<1>3. p \in Nat /\ p' \in Nat /\ markAt \in Nat /\ markAt' \in Nat /\ f # None
  BY ParserStepType DEF TypeOK, ParserTypeOK, Field, None
<1>. HIDE DEF at, n
<1>4. off'[f] = (IF o < 0 THEN at ELSE o) /\ len'[f] = (IF o < 0 THEN n ELSE l + n)
  BY DEF at, n
<1>5. off'[f] \in Nat /\ len'[f] \in Nat
  BY <1>1, <1>4
<1>6. off'[f] + len'[f] <= p
  <2>1. CASE o < 0
    BY <1>1, <1>4, <2>1
  <2>2. CASE ~(o < 0)
    <3>1. o = off[f] /\ l = len[f] /\ o \in Nat
      BY <2>2
    <3>2. o + l <= p /\ (field = f => o + l <= markAt)
      BY <1>1, <3>1 DEF Extent
    <3>. QED BY <1>1, <1>3, <1>4, <2>2, <3>1, <3>2
  <2>. QED BY <2>1, <2>2
<1>7. Ended(f)' => field' # f
  BY DEF Ended
<1>8. field' = f /\ step' = "exec" => markAt' = p
  BY <1>1, <1>2, <1>3
<1>. QED BY <1>1, <1>2, <1>3, <1>5, <1>6, <1>7, <1>8 DEF Extent

-----------------------------------------------------------------------------
(***************************************************************************)
(* One lemma for each callback: what Jill has noted stays well formed.     *)
(***************************************************************************)
Handled ==
  /\ pc' \in {"exec", "app"}
  /\ mem' \in Buffer /\ OnlyNuls(mem')
  /\ off' \in [Part -> Nat \cup {-1}] /\ len' \in [Part -> Nat]
  /\ headers' \in Seq(Text \X Text)
  /\ complete' \in BOOLEAN
  /\ calls' \in [Clients -> Seq(CallOfApp)]
  /\ ExtentInv'
  /\ NameInv'

(* No callback, or one that only makes a new env. *)
LEMMA NothingNoted ==
  ASSUME IInv, NEW c \in Cell, ParserStep(c), pc = "exec",
         UNCHANGED <<pc, mem, off, len, complete, calls>>,
         headers' \in Seq(Text \X Text), Callback(c).on # "name"
  PROVE  Handled
<1>. USE DEF IInv
<1>1. \A f \in Field : Extent(f)'
  BY ExtentKept DEF HeaderPending, ExtentInv
<1>2. off["body"] >= 0 => off["body"] + len["body"] <= p'
  <2>1. p <= p' /\ p \in Nat /\ p' \in Nat
    BY CursorStep, ParserStepType DEF TypeOK, ParserTypeOK
  <2>2. off["body"] \in Nat \cup {-1} /\ len["body"] \in Nat
    BY DEF TypeOK, Part
  <2>. QED BY <2>1, <2>2 DEF ExtentInv
<1>3. ExtentInv'
  BY <1>1, <1>2 DEF ExtentInv
<1>4. NameInv'
  BY ValueStep DEF NameInv, HeaderPending, TypeOK
<1>. QED BY <1>3, <1>4 DEF Handled, TypeOK, OnlyNuls, Buffer

(* on_path, on_query_string and on_header_value *)
LEMMA FieldNoted ==
  ASSUME IInv, NEW c \in Cell, ParserStep(c), pc = "exec",
         NEW f \in {"path", "query", "value"}, Callback(c).on = f, on_data(Callback(c))
  PROVE  Handled
<1>. USE DEF IInv
<1>. DEFINE at == Callback(c).at  n == Callback(c).length
<1>0. f \in Field /\ f \in Part /\ f # "name" /\ "name" \in Part /\ "body" \in Part /\ f # "body"
      /\ Field \subseteq Part /\ "value" \in Part
  BY DEF Field, Part
<1>1. at \in Nat /\ n \in Nat /\ (f = "value" => field = "value" \/ cs = "sep")
  BY <1>0, FieldCallStep DEF TypeOK
<1>. HIDE DEF at, n
<1>2. /\ off' = IF off[f] < 0 THEN [off EXCEPT ![f] = at] ELSE off
      /\ len' = [len EXCEPT ![f] = IF off[f] < 0 THEN n ELSE len[f] + n]
      /\ UNCHANGED <<pc, mem, headers, complete, calls>>
  BY DEF on_data, Accumulate, at, n
<1>3. off \in [Part -> Nat \cup {-1}] /\ len \in [Part -> Nat]
  BY DEF TypeOK
<1>4. /\ off' \in [Part -> Nat \cup {-1}] /\ len' \in [Part -> Nat]
      /\ off'[f] = (IF off[f] < 0 THEN at ELSE off[f])
      /\ len'[f] = (IF off[f] < 0 THEN n ELSE len[f] + n)
      /\ \A g \in Part : g # f => off'[g] = off[g] /\ len'[g] = len[g]
  <2>1. off[f] \in Nat \cup {-1} /\ len[f] \in Nat
    BY <1>0, <1>3
  <2>. QED BY <1>0, <1>1, <1>2, <1>3, <2>1
<1>5. Extent(f)' /\ off'[f] \in Nat
  <2>1. off[f] \in Nat \cup {-1} /\ len[f] \in Nat /\ Extent(f)
    BY <1>0, <1>3 DEF ExtentInv
  <2>. QED BY <1>0, <1>4, <2>1, ExtentNoted DEF at, n
<1>6. ASSUME NEW g \in Field PROVE Extent(g)'
  <2>1. CASE g = f
    BY <1>5, <2>1
  <2>2. CASE g # f
    <3>1. HeaderPending' /\ ~HeaderPending => field # "name"
      <4>1. HeaderPending' /\ ~HeaderPending => f = "value"
        BY <1>0, <1>4 DEF HeaderPending
      <4>. QED BY <1>1, <4>1, NoField DEF ParserInv, TypeOK, Field, None
    <3>. QED BY <1>0, <1>4, <2>2, <3>1, ExtentKept DEF ExtentInv
  <2>. QED BY <2>1, <2>2
<1>7. off'["body"] >= 0 => off'["body"] + len'["body"] <= p'
  <2>1. p <= p' /\ p \in Nat /\ p' \in Nat
    BY CursorStep, ParserStepType DEF TypeOK, ParserTypeOK
  <2>2. off'["body"] = off["body"] /\ len'["body"] = len["body"]
        /\ off["body"] \in Nat \cup {-1} /\ len["body"] \in Nat
    BY <1>0, <1>3, <1>4
  <2>. QED BY <2>1, <2>2 DEF ExtentInv
<1>8. \A g \in Part : len'[g] > 0 => off'[g] >= 0
  <2>1. \A g \in Part : len[g] > 0 => off[g] >= 0
    BY DEF ExtentInv
  <2>. QED BY <1>4, <1>5, <2>1
<1>9. ExtentInv'
  BY <1>6, <1>7, <1>8 DEF ExtentInv
<1>10. NameInv'
  <2>1. off'["name"] = off["name"]
    BY <1>0, <1>4
  <2>2. cs' \in {"sep", "value"} \/ field' = "value" => cs \in {"sep", "value"} \/ field = "value"
    BY <1>0, ValueStep DEF TypeOK
  <2>3. HeaderPending' => HeaderPending \/ f = "value"
    BY <1>0, <1>4 DEF HeaderPending
  <2>. QED BY <1>1, <2>1, <2>2, <2>3 DEF NameInv
<1>11. mem' \in Buffer /\ OnlyNuls(mem')
  BY <1>2 DEF TypeOK, Buffer, OnlyNuls
<1>. QED BY <1>2, <1>4, <1>9, <1>10, <1>11 DEF Handled, TypeOK

(* on_body *)
LEMMA BodyNoted ==
  ASSUME IInv, NEW c \in Cell, ParserStep(c), pc = "exec",
         Callback(c).on = "body", on_data(Callback(c))
  PROVE  Handled
<1>. USE DEF IInv
<1>. DEFINE n == Callback(c).length
<1>0. "body" \in Part /\ "name" \in Part /\ "value" \in Part /\ Field \subseteq Part
      /\ "body" \notin Field
  BY DEF Field, Part
<1>1. Callback(c).at = p /\ n \in Nat /\ p + n <= p'
  BY BodyCallStep DEF TypeOK
<1>. HIDE DEF n
<1>2. /\ off' = IF off["body"] < 0 THEN [off EXCEPT !["body"] = p] ELSE off
      /\ len' = [len EXCEPT !["body"] = IF off["body"] < 0 THEN n ELSE len["body"] + n]
      /\ UNCHANGED <<pc, mem, headers, complete, calls>>
  BY <1>1 DEF on_data, Accumulate, n
<1>3. off \in [Part -> Nat \cup {-1}] /\ len \in [Part -> Nat]
      /\ p \in Nat /\ p' \in Nat
  BY ParserStepType DEF TypeOK, ParserTypeOK
<1>4. /\ off' \in [Part -> Nat \cup {-1}] /\ len' \in [Part -> Nat]
      /\ off'["body"] = (IF off["body"] < 0 THEN p ELSE off["body"])
      /\ len'["body"] = (IF off["body"] < 0 THEN n ELSE len["body"] + n)
      /\ \A g \in Part : g # "body" => off'[g] = off[g] /\ len'[g] = len[g]
  <2>1. off["body"] \in Nat \cup {-1} /\ len["body"] \in Nat
    BY <1>0, <1>3
  <2>. QED BY <1>0, <1>1, <1>2, <1>3, <2>1
<1>5. off'["body"] + len'["body"] <= p' /\ off'["body"] >= 0
  <2>1. off["body"] \in Nat \cup {-1} /\ len["body"] \in Nat
        /\ (off["body"] >= 0 => off["body"] + len["body"] <= p)
    BY <1>0, <1>3 DEF ExtentInv
  <2>. QED BY <1>1, <1>3, <1>4, <2>1
<1>6. ASSUME NEW g \in Field PROVE Extent(g)'
  <2>1. HeaderPending' = HeaderPending /\ off'[g] = off[g] /\ len'[g] = len[g]
    BY <1>0, <1>4 DEF HeaderPending
  <2>. QED BY <2>1, ExtentKept DEF ExtentInv
<1>7. \A g \in Part : len'[g] > 0 => off'[g] >= 0
  BY <1>4, <1>5 DEF ExtentInv
<1>8. ExtentInv'
  BY <1>5, <1>6, <1>7 DEF ExtentInv
<1>9. NameInv'
  <2>1. HeaderPending' = HeaderPending /\ off'["name"] = off["name"]
    BY <1>0, <1>4 DEF HeaderPending
  <2>. QED BY <2>1, ValueStep DEF NameInv, TypeOK
<1>10. mem' \in Buffer /\ OnlyNuls(mem')
  BY <1>2 DEF TypeOK, Buffer, OnlyNuls
<1>. QED BY <1>2, <1>4, <1>8, <1>9, <1>10 DEF Handled, TypeOK

(* The header that was pending is forgotten, and only it. *)
LEMMA Forgotten ==
  ASSUME TypeOK
  PROVE  /\ ForgottenOff \in [Part -> Nat \cup {-1}] /\ ForgottenLen \in [Part -> Nat]
         /\ \A g \in Part : \/ ForgottenOff[g] = off[g] /\ ForgottenLen[g] = len[g]
                            \/ ForgottenOff[g] = -1 /\ ForgottenLen[g] = 0
         /\ \A g \in Part \ {"name", "value"} :
              ForgottenOff[g] = off[g] /\ ForgottenLen[g] = len[g]
         /\ ForgottenLen["value"] = 0
<1>0. "name" \in Part /\ "value" \in Part
  BY DEF Field, Part
<1>1. off \in [Part -> Nat \cup {-1}] /\ len \in [Part -> Nat]
  BY DEF TypeOK
<1>. QED BY <1>0, <1>1 DEF ForgottenOff, ForgottenLen, HeaderPending

(* on_header_field *)
LEMMA NameNoted ==
  ASSUME IInv, NEW c \in Cell, ParserStep(c), pc = "exec",
         Callback(c).on = "name", on_header_field(Callback(c))
  PROVE  Handled
<1>. USE DEF IInv
<1>. DEFINE at == Callback(c).at  n == Callback(c).length
            o == ForgottenOff     l == ForgottenLen
<1>0. "name" \in Field /\ "body" \in Part /\ "name" \in Part /\ "value" \in Part
      /\ Field \subseteq Part
  BY DEF Field, Part
<1>1. at \in Nat /\ n \in Nat /\ field = "name"
  BY <1>0, FieldCallStep DEF TypeOK
<1>f. /\ o \in [Part -> Nat \cup {-1}] /\ l \in [Part -> Nat]
      /\ \A g \in Part : (o[g] = off[g] /\ l[g] = len[g]) \/ (o[g] = -1 /\ l[g] = 0)
      /\ o["body"] = off["body"] /\ l["body"] = len["body"]
      /\ l["value"] = 0
  BY <1>0, Forgotten DEF TypeOK
<1>. HIDE DEF at, n, o, l
<1>2. /\ off' = IF o["name"] < 0 THEN [o EXCEPT !["name"] = at] ELSE o
      /\ len' = [l EXCEPT !["name"] = IF o["name"] < 0 THEN n ELSE l["name"] + n]
      /\ headers' = HeadersNow /\ mem' = HeaderMem
      /\ UNCHANGED <<pc, complete, calls>>
  BY DEF on_header_field, Accumulate, at, n, o, l
<1>3. off \in [Part -> Nat \cup {-1}] /\ len \in [Part -> Nat]
  BY DEF TypeOK
<1>4. /\ off' \in [Part -> Nat \cup {-1}] /\ len' \in [Part -> Nat]
      /\ off'["name"] = (IF o["name"] < 0 THEN at ELSE o["name"])
      /\ len'["name"] = (IF o["name"] < 0 THEN n ELSE l["name"] + n)
      /\ \A g \in Part : g # "name" => off'[g] = o[g] /\ len'[g] = l[g]
  <2>1. o["name"] \in Nat \cup {-1} /\ l["name"] \in Nat
    BY <1>0, <1>f
  <2>. QED BY <1>0, <1>1, <1>f, <1>2, <2>1
<1>5. ~HeaderPending'
  BY <1>0, <1>f, <1>4 DEF HeaderPending
<1>6. Extent("name")' /\ off'["name"] \in Nat
  <2>1. o["name"] \in Nat \cup {-1} /\ l["name"] \in Nat /\ Extent("name")
        /\ (o["name"] >= 0 => o["name"] = off["name"] /\ l["name"] = len["name"])
    BY <1>0, <1>f DEF ExtentInv
  <2>. QED BY <1>0, <1>4, <1>5, <2>1, ExtentNoted DEF at, n
<1>7. ASSUME NEW g \in Field PROVE Extent(g)'
  <2>1. CASE g = "name"
    BY <1>6, <2>1
  <2>2. CASE g # "name" /\ o[g] = -1
    <3>1. off'[g] = -1
      BY <1>0, <1>4, <2>2
    <3>. QED BY <3>1 DEF Extent
  <2>3. CASE g # "name" /\ o[g] # -1
    <3>1. off'[g] = off[g] /\ len'[g] = len[g]
      BY <1>0, <1>f, <1>4, <2>3
    <3>. QED BY <2>3, <3>1, ExtentKept DEF ExtentInv
  <2>. QED BY <2>1, <2>2, <2>3
<1>8. off'["body"] >= 0 => off'["body"] + len'["body"] <= p'
  <2>1. p <= p' /\ p \in Nat /\ p' \in Nat
    BY CursorStep, ParserStepType DEF TypeOK, ParserTypeOK
  <2>2. off'["body"] = off["body"] /\ len'["body"] = len["body"]
        /\ off["body"] \in Nat \cup {-1} /\ len["body"] \in Nat
    BY <1>0, <1>f, <1>3, <1>4
  <2>. QED BY <2>1, <2>2 DEF ExtentInv
<1>9. \A g \in Part : len'[g] > 0 => off'[g] >= 0
  BY <1>f, <1>4, <1>6 DEF ExtentInv
<1>10. ExtentInv'
  BY <1>7, <1>8, <1>9 DEF ExtentInv
<1>11. NameInv'
  BY <1>6 DEF NameInv
<1>12. HeaderMem \in Buffer /\ OnlyNuls(HeaderMem) /\ HeadersNow \in Seq(Text \X Text)
  BY <1>1, HeaderText
<1>. QED BY <1>2, <1>4, <1>10, <1>11, <1>12 DEF Handled, TypeOK

(* dispatch, from on_headers_complete or on_message_complete *)
LEMMA Dispatched ==
  ASSUME IInv, NEW c \in Cell, ParserStep(c), pc = "exec", cur \in Clients,
         Callback(c).on \in {"headers_complete", "message_complete"}, ~complete, dispatch
  PROVE  Handled
<1>. USE DEF IInv
<1>0. "body" \in Part /\ "name" \in Part /\ "value" \in Part /\ Field \subseteq Part
  BY DEF Field, Part
<1>1. /\ complete' = TRUE /\ headers' = HeadersNow /\ mem' = QueryMem /\ pc' = "app"
      /\ off' = ForgottenOff /\ len' = ForgottenLen
      /\ calls' = [calls EXCEPT ![cur] = Append(@, AppCall)]
  BY DEF dispatch
<1>2. /\ field = None /\ field' = None
      /\ cs' \notin {"sep", "value"}
  BY CompleteStep DEF TypeOK
<1>3. /\ QueryMem \in Buffer /\ OnlyNuls(QueryMem)
      /\ HeadersNow \in Seq(Text \X Text) /\ AppCall \in CallOfApp
  BY <1>2, DispatchText
<1>4. calls' \in [Clients -> Seq(CallOfApp)]
  <2>1. calls[cur] \in Seq(CallOfApp)
    BY DEF TypeOK
  <2>2. Append(calls[cur], AppCall) \in Seq(CallOfApp)
    BY <1>3, <2>1
  <2>. QED BY <1>1, <2>2 DEF TypeOK
<1>5. /\ off' \in [Part -> Nat \cup {-1}] /\ len' \in [Part -> Nat]
      /\ \A g \in Part : \/ off'[g] = off[g] /\ len'[g] = len[g]
                         \/ off'[g] = -1 /\ len'[g] = 0
      /\ off'["body"] = off["body"] /\ len'["body"] = len["body"]
      /\ len'["value"] = 0
  BY <1>0, <1>1, Forgotten
<1>6. ASSUME NEW g \in Field PROVE Extent(g)'
  <2>1. CASE off'[g] = -1
    BY <2>1 DEF Extent
  <2>2. CASE off'[g] # -1
    <3>1. off'[g] = off[g] /\ len'[g] = len[g] /\ field # "name"
      BY <1>0, <1>2, <1>5, <2>2 DEF None
    <3>. QED BY <3>1, ExtentKept DEF ExtentInv
  <2>. QED BY <2>1, <2>2
<1>7. off'["body"] >= 0 => off'["body"] + len'["body"] <= p'
  <2>1. p <= p' /\ p \in Nat /\ p' \in Nat
    BY CursorStep, ParserStepType DEF TypeOK, ParserTypeOK
  <2>2. off["body"] \in Nat \cup {-1} /\ len["body"] \in Nat
    BY <1>0 DEF TypeOK
  <2>. QED BY <1>5, <2>1, <2>2 DEF ExtentInv
<1>8. ExtentInv'
  BY <1>5, <1>6, <1>7 DEF ExtentInv
<1>9. NameInv'
  BY <1>2, <1>5 DEF NameInv, HeaderPending, None
<1>. QED BY <1>1, <1>3, <1>4, <1>5, <1>8, <1>9 DEF Handled

-----------------------------------------------------------------------------
(***************************************************************************)
(* The actions of JILL_run.                                                *)
(***************************************************************************)
LEMMA ExecuteStep ==
  ASSUME IInv, Execute
  PROVE  IInv'
<1>. USE DEF IInv
<1>1. PICK c \in Cell : ParserStep(c) /\ Handle(Callback(c))
  BY HereIsCell DEF Execute
<1>2. /\ pc = "exec" /\ cur \in Clients
      /\ UNCHANGED <<listening, request, queue, conn, sent, peer, full, cur, bufferSize,
                     bufferPosition, recved, plan, out>>
  BY DEF Execute, socketVars, LoopInv, Serving
<1>3. Handled
  <2>. USE DEF dataVars
  <2>1. CASE Callback(c).on = None /\ UNCHANGED <<pc, dataVars, calls>>
    BY <1>1, <1>2, <2>1, NothingNoted DEF None, TypeOK
  <2>2. CASE Callback(c).on \in {"path", "query", "value"} /\ on_data(Callback(c))
    BY <1>1, <1>2, <2>2, FieldNoted
  <2>3. CASE Callback(c).on = "body" /\ on_data(Callback(c))
    BY <1>1, <1>2, <2>3, BodyNoted
  <2>4. CASE Callback(c).on = "name" /\ on_header_field(Callback(c))
    BY <1>1, <1>2, <2>4, NameNoted
  <2>5. CASE Callback(c).on = "message_begin" /\ on_message_begin
    <3>1. <<>> \in Seq(Text \X Text)
      OBVIOUS
    <3>. QED BY <1>1, <1>2, <2>5, <3>1, NothingNoted DEF on_message_begin
  <2>6. ASSUME Callback(c).on \in {"headers_complete", "message_complete"},
               dispatch \/ UNCHANGED <<pc, dataVars, calls>>
        PROVE  Handled
    <3>1. CASE UNCHANGED <<pc, dataVars, calls>>
      BY <1>1, <1>2, <2>6, <3>1, NothingNoted DEF TypeOK
    <3>2. CASE dispatch /\ ~complete
      BY <1>1, <1>2, <2>6, <3>2, Dispatched
    <3>. QED BY <2>6, <3>1, <3>2 DEF dispatch
  <2>. QED
    BY <1>1, <2>1, <2>2, <2>3, <2>4, <2>5, <2>6
       DEF Handle, on_headers_complete, on_message_complete
<1>4. ParserTypeOK' /\ ParserInv' /\ pe' = pe
  BY <1>1, ParserStepType, ParserStepInv, CursorStep DEF TypeOK
<1>5. TypeOK'
  BY <1>2, <1>3, <1>4 DEF TypeOK, SocketsTypeOK, Handled, Buffer, PC
<1>6. LoopInv'
  BY <1>2, <1>3, <1>4 DEF LoopInv, Serving, Handled
<1>7. MemInv'
  <2>1. DOMAIN mem' = DOMAIN mem /\ \A i \in DOMAIN mem : mem'[i] \in {mem[i], Nul}
    BY <1>3 DEF Handled, Buffer, OnlyNuls, TypeOK
  <2>. QED BY <1>2, <2>1 DEF MemInv
<1>8. RecvHasRoom'
  BY <1>3 DEF RecvHasRoom, Handled
<1>. QED BY <1>3, <1>4, <1>5, <1>6, <1>7, <1>8 DEF Handled

(* An action that touches neither the parser nor client_data. *)
LEMMA KeptStep ==
  ASSUME IInv, UNCHANGED <<parserVars, dataVars, bufferSize, request>>
  PROVE  /\ ParserTypeOK' /\ ParserInv' /\ ExtentInv' /\ NameInv' /\ MemInv'
         /\ mem' \in [0 .. bufferSize' - 1 -> Byte]
         /\ off' \in [Part -> Nat \cup {-1}] /\ len' \in [Part -> Nat]
         /\ headers' \in Seq(Text \X Text) /\ complete' \in BOOLEAN
<1>. USE DEF IInv, parserVars, dataVars
<1>1. ParserTypeOK'
  BY DEF TypeOK, ParserTypeOK
<1>2. ParserInv'
  BY DEF ParserInv, MarkInv, PhaseInv, EatInv, Remaining
<1>3. ExtentInv' /\ NameInv'
  BY DEF ExtentInv, Extent, Ended, NameInv, HeaderPending
<1>4. MemInv'
  BY DEF MemInv
<1>. QED BY <1>1, <1>2, <1>3, <1>4 DEF TypeOK

LEMMA AcceptStep ==
  ASSUME IInv, Accept
  PROVE  IInv'
<1>. USE DEF IInv
<1>1. Head(queue) \in Clients /\ Tail(queue) \in Seq(Clients)
  BY DEF Accept, AcceptConnection, TypeOK, SocketsTypeOK
<1>2. ParserTypeOK' /\ ParserInv' /\ p' = 0 /\ pe' = 0 /\ step' = "idle"
      /\ cs' = "start" /\ field' = None
  BY InitInv DEF Accept, http_parser_init
<1>3. SocketsTypeOK' /\ request' = request /\ sent' = sent
  BY <1>1 DEF Accept, AcceptConnection, TypeOK, SocketsTypeOK, Connection
<1>4. /\ pc' = "room" /\ cur' \in Clients /\ bufferPosition' = 0
      /\ off' = [f \in Part |-> -1] /\ len' = [f \in Part |-> 0]
      /\ headers' = <<>> /\ complete' = FALSE
      /\ UNCHANGED <<bufferSize, recved, mem, plan, calls, out>>
  BY <1>1 DEF Accept, NewData, replyVars
<1>5. <<>> \in Seq(Text \X Text)
  OBVIOUS
<1>6. TypeOK'
  BY <1>2, <1>3, <1>4, <1>5 DEF TypeOK, PC
<1>7. LoopInv'
  BY <1>2, <1>3, <1>4 DEF LoopInv, Serving, TypeOK, SocketsTypeOK
<1>8. MemInv' /\ RecvHasRoom'
  BY <1>3, <1>4 DEF MemInv, RecvHasRoom
<1>9. ExtentInv' /\ NameInv'
  BY <1>2, <1>4 DEF ExtentInv, Extent, NameInv, HeaderPending, Part, Field, None
<1>. QED BY <1>2, <1>6, <1>7, <1>8, <1>9

LEMMA ReallocStep ==
  ASSUME IInv, Realloc
  PROVE  IInv'
<1>. USE DEF IInv
<1>1. /\ pc = "room" /\ pc' = "recv" /\ bufferSize' = 2 * bufferSize
      /\ mem' = [i \in 0 .. 2 * bufferSize - 1 |-> IF i < bufferSize THEN mem[i] ELSE Junk]
      /\ UNCHANGED <<parserVars, socketVars, cur, bufferPosition, recved, off, len,
                     headers, complete, replyVars>>
  BY DEF Realloc
<1>2. bufferSize \in Nat /\ bufferSize > 0 /\ bufferPosition <= bufferSize
      /\ bufferPosition \in Nat /\ pe \in Nat /\ pe <= bufferSize
  BY DEF TypeOK, ParserTypeOK, LoopInv
<1>3. bufferSize' \in Nat /\ bufferPosition' < bufferSize' /\ pe' <= bufferSize' /\ bufferSize' > 0
  BY <1>1, <1>2 DEF parserVars
<1>4. ParserTypeOK' /\ ParserInv'
  BY <1>1 DEF TypeOK, ParserTypeOK, ParserInv, MarkInv, PhaseInv, EatInv, Remaining, parserVars
<1>5. ExtentInv' /\ NameInv'
  BY <1>1 DEF ExtentInv, Extent, Ended, NameInv, HeaderPending, parserVars
<1>6. mem' \in [0 .. bufferSize' - 1 -> Byte]
  <2>1. Junk \in Byte
    BY DEF Byte
  <2>2. ASSUME NEW i \in 0 .. 2 * bufferSize - 1, i < bufferSize PROVE mem[i] \in Byte
    BY <1>2, <2>2 DEF TypeOK
  <2>. QED BY <1>1, <2>1, <2>2
<1>7. MemInv'
  <2>. SUFFICES ASSUME NEW i \in DOMAIN mem', mem'[i] \notin {Nul, Junk}
                PROVE  mem'[i][1] \in Clients /\ mem'[i][2] \in DOMAIN request[mem'[i][1]]
    BY <1>1 DEF MemInv, socketVars
  <2>1. i \in 0 .. 2 * bufferSize - 1 /\ i < bufferSize /\ mem'[i] = mem[i]
    BY <1>1
  <2>2. i \in DOMAIN mem
    BY <1>2, <2>1 DEF TypeOK
  <2>. QED BY <2>1, <2>2 DEF MemInv
<1>8. TypeOK'
  BY <1>1, <1>3, <1>4, <1>6 DEF TypeOK, SocketsTypeOK, PC, socketVars, replyVars
<1>9. LoopInv' /\ RecvHasRoom'
  BY <1>1, <1>2, <1>3 DEF LoopInv, Serving, RecvHasRoom, parserVars, socketVars
<1>. QED BY <1>4, <1>5, <1>7, <1>8, <1>9

LEMMA RecvStep ==
  ASSUME IInv, Recv
  PROVE  IInv'
<1>. USE DEF IInv
<1>. DEFINE n == recved'
<1>1. /\ pc = "recv" /\ pc' = "exec" /\ n = (IF Unread < Space THEN Unread ELSE Space)
      /\ mem' = Received(n) /\ http_parser_execute(bufferPosition, n)
      /\ UNCHANGED <<listening, request, queue, conn, sent, peer, full, cur, bufferSize,
                     bufferPosition, off, len, headers, complete, plan, calls, out>>
  BY DEF Recv, socketVars, replyVars
<1>2. /\ cur \in Clients /\ step = "idle" /\ p <= bufferPosition
      /\ bufferPosition <= sent[cur] /\ bufferPosition < bufferSize
      /\ sent[cur] <= Len(request[cur])
  BY <1>1 DEF LoopInv, Serving, RecvHasRoom
<1>3. /\ bufferPosition \in Nat /\ bufferSize \in Nat /\ sent[cur] \in Nat /\ p \in Nat
      /\ request[cur] \in Seq(Cell)
  BY <1>2, SocketsAssumption DEF TypeOK, SocketsTypeOK, ParserTypeOK
<1>4. n \in Nat /\ bufferPosition + n <= bufferSize /\ bufferPosition + n <= sent[cur]
  BY <1>1, <1>2, <1>3 DEF Unread, Space
<1>. HIDE DEF n
<1>5. ParserTypeOK' /\ ParserInv'
  BY <1>1, <1>3, <1>4, ExecuteInv DEF TypeOK
<1>6. /\ p' = bufferPosition /\ pe' = bufferPosition + n
      /\ step' = "exec" => "EAT_FOREVER" \notin flags
      /\ markAt' = IF field = None \/ "EAT_FOREVER" \in flags THEN markAt ELSE bufferPosition
      /\ UNCHANGED <<cs, field>>
  BY <1>1 DEF http_parser_execute
<1>7. /\ DOMAIN mem = 0 .. bufferSize - 1 /\ DOMAIN mem' = DOMAIN mem
      /\ \A i \in DOMAIN mem : mem'[i] = IF i \in bufferPosition .. bufferPosition + n - 1
                                           THEN <<cur, i + 1>> ELSE mem[i]
  BY <1>1 DEF TypeOK, Received
<1>8. mem' \in [0 .. bufferSize' - 1 -> Byte]
  <2>1. ASSUME NEW i \in 0 .. bufferSize - 1 PROVE mem'[i] \in Byte
    <3>1. <<cur, i + 1>> \in Byte /\ mem[i] \in Byte
      BY SMTT(40), <1>2, <1>3 DEF Byte, TypeOK
    <3>. QED BY <1>7, <3>1
  <2>2. mem' = [i \in DOMAIN mem |-> mem'[i]]
    BY <1>1, <1>7 DEF Received
  <2>. QED BY <1>1, <1>7, <2>1, <2>2
<1>9. MemInv'
  <2>. SUFFICES ASSUME NEW i \in DOMAIN mem, mem'[i] \notin {Nul, Junk}
                PROVE  mem'[i][1] \in Clients /\ mem'[i][2] \in DOMAIN request[mem'[i][1]]
    BY <1>1, <1>7 DEF MemInv
  <2>1. CASE i \in bufferPosition .. bufferPosition + n - 1
    <3>1. mem'[i] = <<cur, i + 1>>
      BY <1>7, <2>1
    <3>2. i + 1 \in 1 .. Len(request[cur])
      BY <1>2, <1>3, <1>4, <2>1
    <3>. QED BY <1>2, <1>3, <3>1, <3>2
  <2>2. CASE i \notin bufferPosition .. bufferPosition + n - 1
    BY <1>7, <2>2 DEF MemInv
  <2>. QED BY <2>1, <2>2
<1>10. TypeOK'
  BY <1>1, <1>4, <1>5, <1>8 DEF TypeOK, SocketsTypeOK, PC, n
<1>11. LoopInv' /\ RecvHasRoom'
  BY <1>1, <1>2, <1>3, <1>4, <1>6 DEF LoopInv, RecvHasRoom, Serving, n
<1>12. ASSUME NEW f \in Field PROVE Extent(f)'
  <2>1. off[f] \in Nat \cup {-1} /\ len[f] \in Nat /\ f # None
    BY DEF TypeOK, Part, Field, None
  <2>2. Extent(f) /\ Ended(f)' = Ended(f)
    BY <1>1, <1>6 DEF ExtentInv, Ended, HeaderPending
  <2>. QED BY <1>1, <1>2, <1>3, <1>6, <2>1, <2>2 DEF Extent
<1>13. off'["body"] >= 0 => off'["body"] + len'["body"] <= p'
  <2>1. off["body"] \in Nat \cup {-1} /\ len["body"] \in Nat
    BY DEF TypeOK, Part
  <2>. QED BY <1>1, <1>2, <1>3, <1>6, <2>1 DEF ExtentInv
<1>14. ExtentInv' /\ NameInv'
  BY <1>1, <1>6, <1>12, <1>13 DEF ExtentInv, NameInv, HeaderPending
<1>. QED BY <1>5, <1>9, <1>10, <1>11, <1>14

(* Whatever the application returned, its plan is a row of pieces. *)
LEMMA PlanType ==
  ASSUME NEW r \in Results
  PROVE  Plan(r) \in Seq(Piece)
<1>1. /\ r.did \in {"responds", "throws", "nothing"}
      /\ r.headers \in Nat /\ r.chunks \in Nat /\ r.whole \in BOOLEAN
  BY JillAssumption DEF Result
<1>2. ASSUME NEW x \in Piece, NEW n \in Nat PROVE Repeat(x, n) \in Seq(Piece)
  BY DEF Repeat
<1>3. /\ "status" \in Piece /\ "header" \in Piece /\ "blank" \in Piece /\ "chunk" \in Piece
      /\ "throw" \in Piece /\ "status500" \in Piece /\ "header500" \in Piece
      /\ "blank500" \in Piece /\ "body500" \in Piece
  BY DEF Piece
<1>4. CASE r.did = "throws"
  <2>1. Plan(r) = <<"status500", "header500", "header500", "blank500", "body500">>
    BY <1>4 DEF Plan
  <2>. QED BY <1>3, <2>1
<1>5. CASE r.did = "nothing"
  BY <1>5 DEF Plan
<1>6. CASE r.did = "responds"
  <2>. DEFINE h == Repeat("header", r.headers)  k == Repeat("chunk", r.chunks)
              e == IF r.whole THEN <<>> ELSE <<"throw">>
  <2>1. h \in Seq(Piece) /\ k \in Seq(Piece) /\ e \in Seq(Piece)
    <3>1. <<>> \in Seq(Piece) /\ <<"throw">> \in Seq(Piece)
      BY <1>3
    <3>2. e \in Seq(Piece)
      BY <3>1
    <3>. QED BY <1>1, <1>2, <1>3, <3>2
  <2>2. Plan(r) = <<"status">> \o h \o <<"blank">> \o k \o e
    BY <1>6 DEF Plan
  <2>3. <<"status">> \in Seq(Piece) /\ <<"blank">> \in Seq(Piece)
    BY <1>3
  <2>. HIDE DEF h, k, e
  <2>4. <<"status">> \o h \in Seq(Piece)
    BY <2>1, <2>3
  <2>5. <<"status">> \o h \o <<"blank">> \in Seq(Piece)
    BY <2>3, <2>4
  <2>6. <<"status">> \o h \o <<"blank">> \o k \in Seq(Piece)
    BY <2>1, <2>5
  <2>. QED BY <2>1, <2>2, <2>6
<1>. QED BY <1>1, <1>4, <1>5, <1>6

(* The other actions of the server: they leave the parser and client_data  *)
(* as they are.                                                            *)
LEMMA PlainStep ==
  ASSUME IInv,
         \/ Start \/ AcceptError \/ HasRoom \/ OutOfMemory \/ RecvError \/ ReadOn
         \/ CloseClient \/ App \/ Send \/ SendThrows \/ Responded
  PROVE  IInv'
<1>. USE DEF IInv
<1>1. UNCHANGED <<parserVars, dataVars, bufferSize, recved, request, sent, queue, peer, calls>>
  BY DEF Start, AcceptError, HasRoom, OutOfMemory, RecvError, ReadOn, CloseClient, App, Send,
         SendThrows, Responded, Close, CloseConnection, TakePiece, runVars, replyVars, socketVars
<1>2. /\ ParserTypeOK' /\ ParserInv' /\ ExtentInv' /\ NameInv' /\ MemInv'
      /\ mem' \in [0 .. bufferSize' - 1 -> Byte]
      /\ off' \in [Part -> Nat \cup {-1}] /\ len' \in [Part -> Nat]
      /\ headers' \in Seq(Text \X Text) /\ complete' \in BOOLEAN
  BY <1>1, KeptStep
<1>3. pc' \in PC /\ cur' \in Clients \cup {NoClient} /\ bufferPosition' \in Nat
      /\ listening' \in BOOLEAN
  <2>. USE DEF Start, AcceptError, HasRoom, OutOfMemory, RecvError, ReadOn, CloseClient, App,
               Send, SendThrows, Responded, Close, CloseConnection, TakePiece, runVars,
               socketVars, TypeOK
  <2>1. pc' \in PC
    BY DEF PC
  <2>2. cur' \in Clients \cup {NoClient}
    OBVIOUS
  <2>3. bufferPosition' \in Nat
    OBVIOUS
  <2>4. listening' \in BOOLEAN
    BY Zenon DEF SocketsTypeOK
  <2>. QED BY <2>1, <2>2, <2>3, <2>4
<1>4. conn' \in [Clients -> Connection]
  BY DEF Start, AcceptError, HasRoom, OutOfMemory, RecvError, ReadOn, CloseClient, App, Send,
         SendThrows, Responded, Close, CloseConnection, TakePiece, socketVars, TypeOK,
         SocketsTypeOK, Connection
<1>5. plan' \in Seq(Piece)
  <2>1. CASE App
    BY <2>1, PlanType DEF App
  <2>2. CASE Send
    BY <2>2 DEF Send, TypeOK
  <2>3. CASE SendThrows
    BY <2>3 DEF SendThrows
  <2>4. CASE plan' = plan
    BY <2>4 DEF TypeOK
  <2>. QED
    BY <2>1, <2>2, <2>3, <2>4
       DEF Start, AcceptError, HasRoom, OutOfMemory, RecvError, ReadOn, CloseClient,
           Responded, replyVars
<1>6. out' \in [Clients -> Seq(Piece)]
  <2>1. CASE Send
    <3>1. Head(plan) \in Piece
      BY <2>1 DEF Send, TypeOK
    <3>2. ASSUME NEW c \in Clients PROVE Append(out[c], Head(plan)) \in Seq(Piece)
      BY <3>1 DEF TypeOK
    <3>. QED BY <2>1, <3>2 DEF Send, TypeOK
  <2>2. CASE out' = out
    BY <2>2 DEF TypeOK
  <2>. QED
    BY <2>1, <2>2
       DEF Start, AcceptError, HasRoom, OutOfMemory, RecvError, ReadOn, CloseClient, App,
           SendThrows, Responded, replyVars
<1>t. full' \in SUBSET Clients
  <2>1. full \in SUBSET Clients
    BY DEF TypeOK, SocketsTypeOK
  <2>2. CASE Send
    <3>1. cur \in Clients
      BY <2>2 DEF Send, LoopInv, Serving
    <3>2. full' = full \/ full' = full \cup {cur}
      BY <2>2 DEF Send, TakePiece
    <3>. QED BY <2>1, <3>1, <3>2
  <2>3. CASE RecvError \/ CloseClient
    BY <2>1, <2>3 DEF RecvError, CloseClient, Close, CloseConnection
  <2>4. CASE full' = full
    BY <2>1, <2>4
  <2>. QED
    BY <2>2, <2>3, <2>4
       DEF Start, AcceptError, HasRoom, OutOfMemory, ReadOn, App, SendThrows, Responded, socketVars
<1>7. TypeOK'
  BY <1>1, <1>2, <1>3, <1>4, <1>5, <1>6, <1>t DEF TypeOK, SocketsTypeOK
<1>8. LoopInv' /\ RecvHasRoom'
  <2>. USE DEF LoopInv, RecvHasRoom, Serving, parserVars
  <2>1. CASE ReadOn
    <3>1. bufferPosition' = bufferPosition + recved /\ pc' = "room" /\ pc = "exec"
          /\ step = "idle" /\ cur' = cur
      BY <2>1 DEF ReadOn
    <3>2. p <= pe
      BY DEF ParserInv, MarkInv
    <3>. QED BY <1>1, <3>1, <3>2
  <2>2. CASE RecvError \/ CloseClient
    BY <1>1, <2>2 DEF RecvError, CloseClient, Close, CloseConnection, TakePiece
  <2>3. CASE HasRoom
    BY <1>1, <2>3 DEF HasRoom
  <2>4. CASE Start \/ AcceptError \/ OutOfMemory
    BY <1>1, <2>4 DEF Start, AcceptError, OutOfMemory
  <2>5. CASE App \/ Send \/ SendThrows \/ Responded
    BY <1>1, <2>5 DEF App, Send, SendThrows, Responded, runVars
  <2>. QED BY <2>1, <2>2, <2>3, <2>4, <2>5
<1>. QED BY <1>2, <1>7, <1>8

LEMMA ClientsStep ==
  ASSUME IInv, NEW c \in Clients, Client(c)
  PROVE  IInv'
<1>. USE DEF IInv
<1>1. UNCHANGED <<parserVars, runVars, dataVars, replyVars, request, listening>>
  BY DEF Client, ClientStep, Connect, SendCell, HangUp, TakeAnswer, jillVars
<1>2. /\ ParserTypeOK' /\ ParserInv' /\ ExtentInv' /\ NameInv' /\ MemInv'
  BY <1>1, KeptStep DEF runVars
<1>3. SocketsTypeOK'
  <2>. USE DEF TypeOK, SocketsTypeOK
  <2>1. CASE Connect(c)
    <3>1. conn' \in [Clients -> Connection]
      BY <2>1 DEF Connect, Connection
    <3>2. queue' \in Seq(Clients)
      <4>1. queue \in Seq(Clients) /\ Append(queue, c) \in Seq(Clients)
        OBVIOUS
      <4>. QED BY <2>1, <4>1 DEF Connect
    <3>. QED BY <2>1, <3>1, <3>2 DEF Connect
  <2>2. CASE SendCell(c)
    BY <2>2 DEF SendCell
  <2>3. CASE HangUp(c)
    BY <2>3 DEF HangUp
  <2>4. CASE TakeAnswer(c)
    BY <2>4 DEF TakeAnswer
  <2>. QED BY <2>1, <2>2, <2>3, <2>4 DEF Client, ClientStep
<1>4. TypeOK'
  BY <1>1, <1>2, <1>3 DEF TypeOK, runVars, dataVars, replyVars
<1>5. \A d \in Clients : sent'[d] <= Len(request'[d]) /\ sent[d] <= sent'[d]
  <2>1. CASE SendCell(c)
    <3>1. ASSUME NEW d \in Clients
          PROVE  sent'[d] <= Len(request'[d]) /\ sent[d] <= sent'[d]
      <4>1. request[d] \in Seq(Cell)
        BY SocketsAssumption DEF TypeOK, SocketsTypeOK
      <4>2. sent[d] \in Nat /\ Len(request[d]) \in Nat /\ sent[d] <= Len(request[d])
        BY <4>1 DEF TypeOK, SocketsTypeOK, LoopInv
      <4>3. sent'[d] = (IF d = c THEN sent[d] + 1 ELSE sent[d]) /\ request' = request
            /\ (d = c => sent[d] < Len(request[d]))
        BY <2>1 DEF SendCell, TypeOK, SocketsTypeOK
      <4>. QED BY <4>2, <4>3
    <3>. QED BY <3>1
  <2>2. CASE sent' = sent
    BY <1>1, <2>2 DEF LoopInv, TypeOK, SocketsTypeOK
  <2>. QED BY <2>1, <2>2 DEF Client, ClientStep, Connect, HangUp, TakeAnswer
<1>6. RecvHasRoom'
  BY <1>1 DEF RecvHasRoom, runVars
<1>7. LoopInv'
  <2>1. UNCHANGED <<p, pe, step, pc, cur, bufferSize, bufferPosition, recved>>
    BY <1>1 DEF parserVars, runVars
  <2>2. cur \in Clients => sent[cur] \in Nat /\ sent'[cur] \in Nat /\ sent[cur] <= sent'[cur]
    BY <1>3, <1>5 DEF TypeOK, SocketsTypeOK
  <2>3. bufferPosition \in Nat /\ pe \in Nat
    BY DEF TypeOK, ParserTypeOK
  <2>. QED BY <1>5, <2>1, <2>2, <2>3 DEF LoopInv, Serving
<1>. QED BY <1>2, <1>4, <1>6, <1>7

-----------------------------------------------------------------------------
(***************************************************************************)
(* The theorems.                                                           *)
(***************************************************************************)
LEMMA InitIInv == Init => IInv
<1>. SUFFICES ASSUME Init PROVE IInv
  OBVIOUS
<1>. USE DEF Init, SocketsInit
<1>1. ParserTypeOK /\ ParserInv /\ p = 0 /\ pe = 0 /\ cs = "start" /\ field = None
  BY ParserInitInv DEF ParserInit
<1>2. SocketsTypeOK
  <2>1. listening \in BOOLEAN /\ request \in [Clients -> Requests]
    BY Zenon
  <2>q. queue \in Seq(Clients)
    OBVIOUS
  <2>2. sent \in [Clients -> Nat] /\ peer \in [Clients -> {"up", "fin", "rst"}]
    OBVIOUS
  <2>3. conn \in [Clients -> Connection]
    BY DEF Connection
  <2>. QED BY <2>1, <2>q, <2>2, <2>3 DEF SocketsTypeOK
<1>3. mem \in [0 .. bufferSize - 1 -> Byte]
  BY DEF Byte
<1>4. TypeOK
  <2>1. pc \in PC /\ cur \in Clients \cup {NoClient} /\ complete \in BOOLEAN
    BY DEF PC
  <2>2. bufferSize \in Nat /\ bufferPosition \in Nat /\ recved \in Nat
    BY JillAssumption
  <2>3. off \in [Part -> Nat \cup {-1}] /\ len \in [Part -> Nat]
    OBVIOUS
  <2>4. <<>> \in Seq(Text \X Text) /\ <<>> \in Seq(Piece) /\ <<>> \in Seq(CallOfApp)
    OBVIOUS
  <2>5. /\ calls \in [Clients -> Seq(CallOfApp)] /\ out \in [Clients -> Seq(Piece)]
        /\ headers \in Seq(Text \X Text) /\ plan \in Seq(Piece)
    BY <2>4
  <2>. QED BY <1>1, <1>2, <1>3, <2>1, <2>2, <2>3, <2>5 DEF TypeOK
<1>5. LoopInv
  <2>1. \A c \in Clients : sent[c] <= Len(request[c])
    <3>1. ASSUME NEW c \in Clients PROVE sent[c] <= Len(request[c])
      <4>1. request[c] \in Seq(Cell) /\ sent[c] = 0
        BY SocketsAssumption
      <4>. QED BY <4>1
    <3>. QED BY <3>1
  <2>. QED BY <1>1, <2>1, JillAssumption DEF LoopInv, Serving
<1>6. MemInv /\ RecvHasRoom
  BY DEF MemInv, RecvHasRoom
<1>7. ExtentInv /\ NameInv
  BY <1>1 DEF ExtentInv, Extent, NameInv, HeaderPending, Part, Field, None
<1>. QED BY <1>1, <1>4, <1>5, <1>6, <1>7 DEF IInv

LEMMA NextIInv == IInv /\ [Next]_vars => IInv'
<1>. SUFFICES ASSUME IInv, [Next]_vars PROVE IInv'
  OBVIOUS
<1>1. CASE Execute
  BY <1>1, ExecuteStep
<1>2. CASE Accept
  BY <1>2, AcceptStep
<1>3. CASE Realloc
  BY <1>3, ReallocStep
<1>4. CASE Recv
  BY <1>4, RecvStep
<1>5. CASE \/ Start \/ AcceptError \/ HasRoom \/ OutOfMemory \/ RecvError \/ ReadOn
           \/ CloseClient \/ App \/ Send \/ SendThrows \/ Responded
  BY <1>5, PlainStep
<1>6. CASE \E c \in Clients : Client(c)
  BY <1>6, ClientsStep
<1>7. CASE UNCHANGED vars
  <2>1. UNCHANGED <<parserVars, dataVars, runVars, replyVars, socketVars>>
    BY <1>7 DEF vars, jillVars
  <2>2. /\ ParserTypeOK' /\ ParserInv' /\ ExtentInv' /\ NameInv' /\ MemInv'
    BY <2>1, KeptStep DEF runVars, socketVars
  <2>3. TypeOK' /\ LoopInv' /\ RecvHasRoom'
    BY <2>1, <2>2
       DEF IInv, TypeOK, SocketsTypeOK, LoopInv, RecvHasRoom, Serving, runVars, dataVars,
           replyVars, socketVars, parserVars
  <2>. QED BY <2>2, <2>3 DEF IInv
<1>. QED BY <1>1, <1>2, <1>3, <1>4, <1>5, <1>6, <1>7 DEF Next, Server

(* IInv holds in every reachable state. *)
THEOREM Inductive == Spec => []IInv
BY InitIInv, NextIInv, PTL DEF Spec

(* Every variable keeps its type; in particular each NUL is found that a   *)
(* C string of the request is read up to, so that every text handed to the *)
(* application is a part of the buffer (jill.cc:92, 181-191).              *)
THEOREM TypesCorrect == Spec => []TypeOK
<1>1. IInv => TypeOK
  BY DEF IInv
<1>. QED BY <1>1, Inductive, PTL

(* recv() is never asked for zero bytes (jill.cc:645-684). *)
THEOREM AlwaysRoom == Spec => []RecvHasRoom
<1>1. IInv => RecvHasRoom
  BY DEF IInv
<1>. QED BY <1>1, Inductive, PTL

(* A terminating NUL never falls on input that is still to be parsed, nor  *)
(* outside the buffer (jill.cc:83-84, 181, 191).                           *)
THEOREM TerminatorsAreSafe == Spec => []TerminatorsSafe
<1>1. ASSUME IInv PROVE TerminatorsSafe
  <2>. SUFFICES ASSUME NEW f \in Field, off[f] >= 0, Ended(f)
                PROVE  off[f] + len[f] < p /\ p <= bufferSize
    BY DEF TerminatorsSafe
  <2>1. off[f] + len[f] < p
    BY <1>1 DEF IInv, ExtentInv, Extent
  <2>2. p <= pe /\ pe <= bufferSize /\ p \in Nat /\ pe \in Nat /\ bufferSize \in Nat
    BY <1>1 DEF IInv, ParserInv, MarkInv, LoopInv, TypeOK, ParserTypeOK
  <2>. QED BY <2>1, <2>2
<1>. QED BY <1>1, Inductive, PTL

-----------------------------------------------------------------------------
(***************************************************************************)
(* What a stream says, as a whole and place by place.                      *)
(***************************************************************************)

(* Spelled is what its recursive definition says of it. *)
LEMMA SpelledStep ==
  ASSUME NEW r \in Seq(Cell)
  PROVE  /\ Spelled(r)[0] = -1
         /\ \A i \in 1 .. Len(r) : Spelled(r)[i] = NextNumber(r[i], Spelled(r)[i - 1])
<1>. DEFINE Of(g, n) == g = [i \in 0 .. n |-> IF i = 0 THEN -1 ELSE NextNumber(r[i], g[i - 1])]
            Missing == {n \in Nat : ~\E g : Of(g, n)}
<1>1. Missing = {}
  <2>. SUFFICES ASSUME Missing # {} PROVE FALSE
    OBVIOUS
  <2>1. PICK n \in Missing : \A t \in Missing : n <= t
    <3>. HIDE DEF Missing
    <3>1. Missing \in SUBSET Nat
      BY DEF Missing
    <3>. QED BY <3>1, LeastNumber
  <2>2. n \in Nat /\ ~\E g : Of(g, n)
    BY <2>1
  <2>3. CASE n = 0
    <3>. DEFINE g == [i \in 0 .. 0 |-> -1]
    <3>1. Of(g, 0)
      OBVIOUS
    <3>. QED BY <2>2, <2>3, <3>1
  <2>4. CASE n # 0
    <3>1. n - 1 \in Nat /\ n - 1 \notin Missing
      <4>. HIDE DEF Missing
      <4>. QED BY <2>1, <2>2, <2>4
    <3>2. PICK g : Of(g, n - 1)
      BY <3>1
    <3>. DEFINE h == [i \in 0 .. n |-> IF i = n THEN NextNumber(r[n], g[n - 1]) ELSE g[i]]
    <3>3. ASSUME NEW i \in 0 .. n
          PROVE  h[i] = IF i = 0 THEN -1 ELSE NextNumber(r[i], h[i - 1])
      <4>1. CASE i = n
        BY <2>2, <2>4, <4>1
      <4>2. CASE i # n
        <5>1. i \in 0 .. n - 1 /\ h[i] = g[i] /\ (i # 0 => i - 1 \in 0 .. n /\ h[i - 1] = g[i - 1])
          BY <2>2, <4>2
        <5>2. g[i] = IF i = 0 THEN -1 ELSE NextNumber(r[i], g[i - 1])
          BY <3>2, <5>1
        <5>. QED BY <5>1, <5>2
      <4>. QED BY <4>1, <4>2
    <3>4. Of(h, n)
      <4>1. h = [i \in 0 .. n |-> h[i]]
        OBVIOUS
      <4>. HIDE DEF h
      <4>. QED BY <3>3, <4>1
    <3>. QED BY <2>2, <3>4
  <2>. QED BY <2>3, <2>4
<1>2. Len(r) \in Nat
  OBVIOUS
<1>3. \E g : Of(g, Len(r))
  BY <1>1, <1>2
<1>4. Spelled(r) = CHOOSE g : Of(g, Len(r))
  BY DEF Spelled
<1>5. Of(Spelled(r), Len(r))
  BY <1>3, <1>4
<1>. QED BY <1>2, <1>5

(* The first blank line is where the headers end. *)
LEMMA FirstEnd ==
  ASSUME NEW r \in Seq(Cell), NEW h \in 1 .. Len(r), r[h].k = "end",
         \A i \in 1 .. h - 1 : r[i].k # "end"
  PROVE  HeadEnd(r) = h
<1>. DEFINE S == Places(r, {"end"})
<1>1. h \in S /\ \A j \in S : j \in Nat /\ h <= j
  BY DEF Places
<1>. HIDE DEF S
<1>2. Least(S) \in S /\ \A j \in S : Least(S) <= j
  BY <1>1 DEF Least
<1>3. Least(S) = h
  <2>1. Least(S) \in Nat /\ h \in Nat
    BY <1>1, <1>2
  <2>2. h <= Least(S) /\ Least(S) <= h
    BY <1>1, <1>2
  <2>. QED BY <2>1, <2>2
<1>. QED BY <1>1, <1>3 DEF HeadEnd, S

(* The place of the blank line is a number. *)
LEMMA HeadEndType ==
  ASSUME NEW r \in Seq(Cell)
  PROVE  HeadEnd(r) \in Nat
<1>. DEFINE S == Places(r, {"end"})
<1>1. S \in SUBSET Nat
  BY DEF Places
<1>2. S # {} => \E i \in S : \A j \in S : i <= j
  <2>. HIDE DEF S
  <2>. QED BY <1>1, LeastNumber
<1>. QED BY <1>1, <1>2 DEF HeadEnd, Least

(* A request with a chunked cell before the blank line is chunked. *)
LEMMA ChunkedBefore ==
  ASSUME NEW r \in Seq(Cell), NEW i \in 1 .. Len(r), r[i].k = "chunked", i <= HeadEnd(r)
  PROVE  Chunked(r)
BY DEF Chunked, InHead, Places

(* Where a request that is not chunked ends. *)
LEMMA WholeRequest ==
  ASSUME NEW r \in Seq(Cell), ~Chunked(r), NEW h \in Nat \ {0}, HeadEnd(r) = h,
         NEW d \in Int, DeclaredLength(r) = d
  PROVE  /\ d < 0 => MessageEnd(r) = h
         /\ d >= 0 /\ h + d \in 1 .. Len(r) => MessageEnd(r) = h + d
BY DEF MessageEnd

(* The parser is given the cells in the order the client sent them. *)
LEMMA HereInOrder ==
  ASSUME IInv, PositionInv, pc = "exec", p < pe
  PROVE  Here = request[cur][p + 1] /\ p + 1 \in 1 .. Len(request[cur]) /\ p + 1 <= sent[cur]
<1>1. cur \in Clients /\ request[cur] \in Seq(Cell) /\ sent[cur] \in Nat
  BY SocketsAssumption DEF IInv, LoopInv, Serving, TypeOK, SocketsTypeOK
<1>2. p \in Nat /\ pe \in Nat /\ pe <= sent[cur] /\ sent[cur] <= Len(request[cur])
  BY <1>1 DEF IInv, LoopInv, TypeOK, ParserTypeOK
<1>3. mem[p] = <<cur, p + 1>>
  BY <1>2 DEF PositionInv
<1>4. cur # NoClient
  BY <1>1, JillAssumption
<1>5. mem[p] \notin {Nul, Junk}
  BY <1>3, <1>4 DEF Nul, Junk
<1>. QED BY <1>1, <1>2, <1>3, <1>5 DEF Here, CellOf

(* The terminators leave what is still to be parsed as it is.              *)
Ahead(m) == \A z \in p .. bufferSize - 1 : m[z] = mem[z]

(* One of them. *)
LEMMA TerminateBehind ==
  ASSUME TypeOK, ParserInv, LoopInv, ExtentInv, NEW f \in Field, off[f] >= 0, Ended(f),
         NEW m \in Buffer, Ahead(m)
  PROVE  Ahead(Terminate(m, f)) /\ Terminate(m, f) \in Buffer
<1>1. off[f] \in Nat /\ len[f] \in Nat /\ off[f] + len[f] < p /\ p \in Nat /\ bufferSize \in Nat
  BY DEF ExtentInv, Extent, TypeOK, ParserTypeOK, Part
<1>2. Terminate(m, f) \in Buffer
  <2>1. Nul \in Byte
    BY DEF Byte
  <2>. QED BY <2>1 DEF Terminate, Buffer
<1>3. \A z \in p .. bufferSize - 1 : Terminate(m, f)[z] = m[z]
  BY <1>1 DEF Terminate, Buffer
<1>. QED BY <1>2, <1>3 DEF Ahead

(* All that a callback writes. *)
LEMMA HandledAhead ==
  ASSUME IInv, NEW c \in Cell, ParserStep(c), Handle(Callback(c))
  PROVE  Ahead(mem')
<1>. USE DEF IInv
<1>1. mem \in Buffer /\ Ahead(mem)
  BY DEF TypeOK, Buffer, Ahead
<1>2. {"name", "value", "path", "query"} = Field /\ Field \subseteq Part /\ None \notin Field
  BY DEF Field, Part, None
<1>3. ASSUME field # "value" PROVE HeaderMem \in Buffer /\ Ahead(HeaderMem)
  <2>1. CASE ~HeaderPending
    BY <1>1, <2>1 DEF HeaderMem
  <2>2. CASE HeaderPending
    <3>1. off["name"] >= 0 /\ off["value"] >= 0
      BY <1>2, <2>2 DEF NameInv, HeaderPending, ExtentInv
    <3>2. Ended("name") /\ Ended("value")
      BY <1>3, <2>2 DEF Ended
    <3>3. Ahead(Terminate(mem, "name")) /\ Terminate(mem, "name") \in Buffer
      BY <1>1, <1>2, <3>1, <3>2, TerminateBehind
    <3>. QED BY <1>2, <2>2, <3>1, <3>2, <3>3, TerminateBehind DEF HeaderMem
  <2>. QED BY <2>1, <2>2
<1>4. CASE mem' = mem
  BY <1>1, <1>4
<1>5. CASE Callback(c).on = "name" /\ on_header_field(Callback(c))
  <2>1. field = "name"
    BY <1>2, <1>5, FieldCallStep DEF TypeOK
  <2>. QED BY <1>3, <1>5, <2>1 DEF on_header_field
<1>6. CASE Callback(c).on \in {"headers_complete", "message_complete"} /\ mem' = QueryMem
  <2>1. field = None /\ field # "value" /\ field # "path" /\ field # "query"
    BY <1>2, <1>6, CompleteStep DEF TypeOK, None
  <2>2. Ended("path") /\ Ended("query")
    BY <2>1 DEF Ended
  <2>3. HeaderMem \in Buffer /\ Ahead(HeaderMem)
    BY <1>3, <2>1
  <2>4. PathMem \in Buffer /\ Ahead(PathMem)
    <3>1. CASE off["path"] < 0
      BY <2>3, <3>1 DEF PathMem
    <3>2. CASE ~(off["path"] < 0)
      <4>1. off["path"] >= 0
        BY <1>2, <3>2 DEF TypeOK
      <4>. QED BY <1>2, <2>2, <2>3, <3>2, <4>1, TerminateBehind DEF PathMem
    <3>. QED BY <3>1, <3>2
  <2>5. QueryMem \in Buffer /\ Ahead(QueryMem)
    <3>1. CASE off["query"] < 0
      BY <2>4, <3>1 DEF QueryMem
    <3>2. CASE ~(off["query"] < 0)
      <4>1. off["query"] >= 0
        BY <1>2, <3>2 DEF TypeOK
      <4>. QED BY <1>2, <2>2, <2>4, <3>2, <4>1, TerminateBehind DEF QueryMem
    <3>. QED BY <3>1, <3>2
  <2>. QED BY <1>6, <2>5
<1>. QED
  BY <1>4, <1>5, <1>6
     DEF Handle, on_data, on_message_begin, on_headers_complete, on_message_complete, dispatch,
         dataVars

-----------------------------------------------------------------------------
(***************************************************************************)
(* RInv is kept, part by part.                                             *)
(***************************************************************************)

(* What Execute leaves alone, and what it may change of the answers.       *)
LEMMA ExecuteFrame ==
  ASSUME IInv, Execute
  PROVE  /\ pc = "exec" /\ cur \in Clients /\ Here \in Cell
         /\ ParserStep(Here) /\ Handle(Callback(Here))
         /\ UNCHANGED <<listening, request, queue, conn, sent, peer, full, cur, bufferSize,
                        bufferPosition, recved, plan, out>>
         /\ \/ UNCHANGED <<pc, complete, calls>>
            \/ /\ dispatch /\ ~complete
               /\ \/ Callback(Here).on = "headers_complete" /\ content_length < 0
                  \/ Callback(Here).on = "message_complete"
BY HereIsCell
   DEF IInv, LoopInv, Serving, Execute, socketVars, Handle, on_data, on_header_field,
       on_message_begin, on_headers_complete, on_message_complete, dispatch, dataVars

(* The connection that is open and those in the queue. *)
LEMMA ConnStep ==
  ASSUME IInv, ConnInv, [Next]_vars
  PROVE  ConnInv'
<1>. USE DEF ConnInv
<1>0. queue \in Seq(Clients) /\ conn \in [Clients -> Connection] /\ NoClient \notin Clients
  BY JillAssumption DEF IInv, TypeOK, SocketsTypeOK
<1>1. CASE Accept
  <2>1. /\ pc = "accept" /\ pc' = "room" /\ cur' = Head(queue) /\ queue # <<>>
        /\ queue' = Tail(queue) /\ conn' = [conn EXCEPT ![Head(queue)] = "open"]
    BY <1>1 DEF Accept, AcceptConnection
  <2>2. Head(queue) \in Clients /\ Head(queue) = queue[1] /\ Len(queue) \in Nat \ {0}
        /\ 1 \in DOMAIN queue /\ DOMAIN queue = 1 .. Len(queue)
        /\ DOMAIN Tail(queue) = 1 .. Len(queue) - 1
        /\ \A i \in 1 .. Len(queue) - 1 : Tail(queue)[i] = queue[i + 1]
    BY <1>0, <2>1
  <2>3. ASSUME NEW i \in DOMAIN queue'
        PROVE  queue'[i] = queue[i + 1] /\ i \in Nat \ {0} /\ i + 1 \in DOMAIN queue
    BY <2>1, <2>2
  <2>4. \A i \in DOMAIN queue' : conn'[queue'[i]] = "queued"
    <3>1. ASSUME NEW i \in DOMAIN queue' PROVE conn'[queue'[i]] = "queued"
      <4>1. queue'[i] # Head(queue)
        BY <2>2, <2>3
      <4>2. conn[queue'[i]] = "queued" /\ queue'[i] \in Clients
        BY <1>0, <2>3
      <4>. QED BY <1>0, <2>1, <4>1, <4>2
    <3>. QED BY <3>1
  <2>5. \A i, j \in DOMAIN queue' : queue'[i] = queue'[j] => i = j
    <3>1. ASSUME NEW i \in DOMAIN queue', NEW j \in DOMAIN queue', queue'[i] = queue'[j] PROVE i = j
      <4>1. i + 1 = j + 1
        BY <2>3, <3>1
      <4>. QED BY <2>3, <4>1
    <3>. QED BY <3>1
  <2>6. \A c \in Clients : conn'[c] = "open" => c = cur'
    BY <1>0, <2>1
  <2>7. conn'[cur'] = "open"
    BY <1>0, <2>1, <2>2
  <2>. QED BY <2>1, <2>4, <2>5, <2>6, <2>7
<1>2. CASE RecvError \/ CloseClient
  <2>1. /\ pc' = "accept" /\ conn' = [conn EXCEPT ![cur] = "closed"] /\ queue' = queue
        /\ Serving /\ ~Serving'
    BY <1>2 DEF RecvError, CloseClient, Close, CloseConnection, TakePiece, Serving
  <2>2. \A c \in Clients : conn'[c] # "open"
    BY <1>0, <2>1
  <2>3. \A i \in DOMAIN queue : conn'[queue[i]] = "queued"
    BY <1>0, <2>1
  <2>. QED BY <2>1, <2>2, <2>3
<1>3. CASE \E c \in Clients : Client(c)
  <2>1. PICK c \in Clients : Client(c)
    BY <1>3
  <2>2. pc' = pc /\ cur' = cur /\ Serving' = Serving
    BY <2>1 DEF Client, jillVars, runVars, Serving
  <2>3. CASE conn' = conn /\ queue' = queue
    BY <2>2, <2>3
  <2>4. CASE Connect(c) /\ Len(queue) < Backlog
    <3>1. /\ conn[c] = "new" /\ queue' = Append(queue, c)
          /\ conn' = [conn EXCEPT ![c] = "queued"]
      BY <2>4 DEF Connect
    <3>2. /\ DOMAIN queue = 1 .. Len(queue) /\ DOMAIN queue' = 1 .. Len(queue) + 1
          /\ queue'[Len(queue) + 1] = c /\ Len(queue) \in Nat
          /\ \A i \in 1 .. Len(queue) : queue'[i] = queue[i] /\ queue[i] \in Clients /\ queue[i] # c
      BY <1>0, <3>1
    <3>3. \A i \in DOMAIN queue' : conn'[queue'[i]] = "queued"
      BY <1>0, <3>1, <3>2
    <3>4. \A i, j \in DOMAIN queue' : queue'[i] = queue'[j] => i = j
      <4>1. ASSUME NEW i \in DOMAIN queue', NEW j \in DOMAIN queue', queue'[i] = queue'[j]
            PROVE  i = j
        <5>1. CASE i = Len(queue) + 1
          BY <3>2, <4>1, <5>1
        <5>2. CASE j = Len(queue) + 1
          BY <3>2, <4>1, <5>2
        <5>3. CASE i # Len(queue) + 1 /\ j # Len(queue) + 1
          BY <3>2, <4>1, <5>3
        <5>. QED BY <5>1, <5>2, <5>3
      <4>. QED BY <4>1
    <3>5. \A d \in Clients : conn'[d] = "open" => conn[d] = "open"
      BY <1>0, <3>1
    <3>6. Serving => conn'[cur] = "open"
      <4>1. Serving => cur \in Clients /\ cur # c
        BY <3>1 DEF IInv, LoopInv
      <4>. QED BY <1>0, <3>1, <4>1
    <3>. QED BY <2>2, <3>3, <3>4, <3>5, <3>6
  <2>5. CASE Connect(c) /\ ~(Len(queue) < Backlog)
    <3>1. /\ conn[c] = "new" /\ queue' = queue /\ conn' = [conn EXCEPT ![c] = "refused"]
      BY <2>5 DEF Connect
    <3>2. \A d \in Clients : conn'[d] = "open" => conn[d] = "open"
      BY <1>0, <3>1
    <3>3. Serving => conn'[cur] = "open"
      <4>1. Serving => cur \in Clients /\ cur # c
        BY <3>1 DEF IInv, LoopInv
      <4>. QED BY <1>0, <3>1, <4>1
    <3>4. \A i \in DOMAIN queue : conn'[queue[i]] = "queued"
      BY <1>0, <3>1
    <3>. QED BY <2>2, <3>1, <3>2, <3>3, <3>4
  <2>. QED BY <2>1, <2>3, <2>4, <2>5 DEF Client, ClientStep, SendCell, HangUp, TakeAnswer
<1>4. CASE /\ UNCHANGED <<conn, queue, cur>>
           /\ Serving' => Serving
           /\ pc' \in {"start", "accept"} => pc \in {"start", "accept"}
  BY <1>4
<1>5. CASE Execute
  <2>1. pc' \in {"exec", "app"} /\ UNCHANGED <<conn, queue, cur>> /\ pc = "exec"
    BY <1>5, ExecuteFrame DEF dispatch
  <2>. QED BY <1>4, <2>1 DEF Serving
<1>6. CASE \/ Start \/ AcceptError \/ HasRoom \/ Realloc \/ OutOfMemory \/ Recv \/ ReadOn
           \/ App \/ Send \/ SendThrows \/ Responded \/ UNCHANGED vars
  BY <1>4, <1>6
     DEF Start, AcceptError, HasRoom, Realloc, OutOfMemory, Recv, ReadOn, App, Send, SendThrows,
         Responded, TakePiece, vars, jillVars, runVars, socketVars, Serving
<1>. QED BY <1>1, <1>2, <1>3, <1>5, <1>6 DEF Next, Server

(* A piece that moves from a plan to what was sent. *)
LEMMA MovedPiece ==
  ASSUME NEW S, NEW s \in Seq(S), NEW t \in Seq(S), t # <<>>
  PROVE  Append(s, Head(t)) \o Tail(t) = s \o t
<1>. DEFINE u == Append(s, Head(t)) \o Tail(t)   v == s \o t
<1>1. Head(t) \in S /\ Tail(t) \in Seq(S) /\ Len(t) \in Nat \ {0} /\ Len(s) \in Nat
      /\ Append(s, Head(t)) \in Seq(S) /\ Len(Tail(t)) = Len(t) - 1
      /\ Len(Append(s, Head(t))) = Len(s) + 1
  OBVIOUS
<1>2. u \in Seq(S) /\ v \in Seq(S) /\ Len(u) = Len(s) + Len(t) /\ Len(v) = Len(s) + Len(t)
  BY <1>1
<1>3. ASSUME NEW i \in 1 .. Len(s) + Len(t) PROVE u[i] = v[i]
  <2>1. CASE i <= Len(s)
    BY <1>1, <2>1
  <2>2. CASE i = Len(s) + 1
    <3>1. u[i] = Head(t) /\ v[i] = t[1]
      BY <1>1, <2>2
    <3>. QED BY <3>1
  <2>3. CASE i > Len(s) + 1
    <3>1. u[i] = Tail(t)[i - (Len(s) + 1)] /\ v[i] = t[i - Len(s)]
      BY <1>1, <2>3
    <3>2. i - (Len(s) + 1) \in 1 .. Len(t) - 1
      BY <1>1, <2>3
    <3>. QED BY <1>1, <3>1, <3>2
  <2>. QED BY <1>1, <2>1, <2>2, <2>3
<1>. HIDE DEF u, v
<1>4. u = v
  BY <1>1, <1>2, <1>3
<1>. QED BY <1>4 DEF u, v

(* A sequence that was appended to is not empty. *)
LEMMA LongerThanNothing ==
  ASSUME NEW S, NEW s \in Seq(S), NEW x
  PROVE  Append(s, x) # <<>>
<1>. DEFINE T == S \cup {x}
<1>1. s \in Seq(T) /\ x \in T
  OBVIOUS
<1>. HIDE DEF T
<1>2. Len(Append(s, x)) = Len(s) + 1 /\ Len(s) \in Nat
  BY <1>1
<1>. QED BY <1>2

(* What was called and answered. *)
LEMMA AnswerStep ==
  ASSUME IInv, ConnInv, AnswerInv, [Next]_vars
  PROVE  AnswerInv'
<1>. USE DEF AnswerInv
<1>0. /\ queue \in Seq(Clients) /\ conn \in [Clients -> Connection]
      /\ calls \in [Clients -> Seq(CallOfApp)] /\ out \in [Clients -> Seq(Piece)]
      /\ plan \in Seq(Piece) /\ (Serving => cur \in Clients)
  BY DEF IInv, TypeOK, SocketsTypeOK, LoopInv
<1>1. CASE Accept
  <2>1. /\ cur' = Head(queue) /\ pc' = "room" /\ complete' = FALSE /\ queue # <<>>
        /\ conn' = [conn EXCEPT ![Head(queue)] = "open"] /\ UNCHANGED <<calls, out>>
    BY <1>1 DEF Accept, AcceptConnection, NewData, replyVars
  <2>2. Head(queue) \in Clients /\ conn[Head(queue)] = "queued"
    <3>1. Head(queue) = queue[1] /\ 1 \in DOMAIN queue
      BY <1>0, <2>1
    <3>. QED BY <1>0, <3>1 DEF ConnInv
  <2>3. calls[Head(queue)] = <<>>
    BY <2>2
  <2>4. \A c \in Clients : calls'[c] # <<>> => conn'[c] \in {"open", "closed"}
    BY <1>0, <2>1
  <2>. QED BY <2>1, <2>3, <2>4
<1>2. CASE Execute
  <2>1. /\ pc = "exec" /\ cur \in Clients /\ UNCHANGED <<conn, cur, out, plan>>
        /\ UNCHANGED <<pc, complete, calls>> \/ (dispatch /\ ~complete)
    BY <1>2, ExecuteFrame
  <2>2. CASE UNCHANGED <<pc, complete, calls>>
    BY <2>1, <2>2 DEF Serving
  <2>3. CASE dispatch /\ ~complete
    <3>1. /\ complete' = TRUE /\ pc' = "app"
          /\ calls' = [calls EXCEPT ![cur] = Append(@, AppCall)]
      BY <2>3 DEF dispatch
    <3>2. Append(calls[cur], AppCall) # <<>>
      BY <1>0, <2>1, LongerThanNothing
    <3>3. calls'[cur] # <<>> /\ \A c \in Clients : c # cur => calls'[c] = calls[c]
      BY <1>0, <2>1, <3>1, <3>2
    <3>4. calls[cur] = <<>> /\ conn[cur] = "open"
      BY <2>1, <2>3 DEF Serving, ConnInv
    <3>5. out[cur] = <<>>
      BY <2>1, <3>4
    <3>. QED BY <2>1, <3>1, <3>3, <3>4, <3>5 DEF Serving
  <2>. QED BY <2>1, <2>2, <2>3
<1>3. CASE RecvError \/ CloseClient
  <2>1. /\ pc' = "accept" /\ conn' = [conn EXCEPT ![cur] = "closed"]
        /\ UNCHANGED <<calls, out>>
    BY <1>3 DEF RecvError, CloseClient, Close, CloseConnection, TakePiece, replyVars
  <2>2. \A c \in Clients : calls[c] # <<>> => conn'[c] \in {"open", "closed"}
    BY <1>0, <2>1
  <2>. QED BY <2>1, <2>2 DEF Serving
<1>4. CASE App
  <2>1. PICK r \in Results : plan' = Plan(r)
    BY <1>4 DEF App
  <2>2. /\ pc = "app" /\ pc' = "send" /\ UNCHANGED <<calls, out, conn, cur, complete>>
    BY <1>4 DEF App, socketVars, dataVars
  <2>3. Plan(r) \in Seq(Piece) /\ out[cur] = <<>>
    BY <2>2, PlanType
  <2>4. out[cur] \o Plan(r) = Plan(r)
    BY <2>3
  <2>. QED BY <2>1, <2>2, <2>4 DEF Serving
<1>5. CASE Send
  <2>1. /\ pc = "send" /\ plan # <<>> /\ UNCHANGED <<calls, conn, cur, complete, pc>>
        /\ out' = [out EXCEPT ![cur] = Append(@, Head(plan))] /\ plan' = Tail(plan)
    BY <1>5 DEF Send, TakePiece, dataVars, runVars
  <2>2. cur \in Clients /\ out'[cur] = Append(out[cur], Head(plan)) /\ out[cur] \in Seq(Piece)
    BY <1>0, <2>1 DEF Serving
  <2>3. out'[cur] \o plan' = out[cur] \o plan
    BY <1>0, <2>1, <2>2, MovedPiece
  <2>4. \A c \in Clients : calls[c] = <<>> => out'[c] = <<>>
    <3>1. ASSUME NEW c \in Clients, calls[c] = <<>> PROVE out'[c] = <<>>
      <4>1. c # cur /\ out[c] = <<>>
        BY <2>1, <3>1
      <4>. QED BY <1>0, <2>1, <4>1
    <3>. QED BY <3>1
  <2>. QED BY <2>1, <2>3, <2>4 DEF Serving
<1>6. CASE SendThrows
  <2>1. pc = "send" /\ plan' = <<>> /\ UNCHANGED <<calls, conn, cur, complete, pc, out>>
    BY <1>6 DEF SendThrows, socketVars, dataVars, runVars
  <2>. QED BY <2>1 DEF Serving
<1>7. CASE \E c \in Clients : Client(c)
  <2>1. PICK c \in Clients : Client(c)
    BY <1>7
  <2>2. UNCHANGED <<calls, out, cur, complete, pc, plan>>
    BY <2>1 DEF Client, jillVars, runVars, dataVars, replyVars
  <2>3. conn' = conn \/ (conn[c] = "new" /\ \E x : conn' = [conn EXCEPT ![c] = x])
    BY <2>1 DEF Client, ClientStep, Connect, SendCell, HangUp, TakeAnswer
  <2>4. \A d \in Clients : calls[d] # <<>> => conn'[d] \in {"open", "closed"}
    BY <1>0, <2>3
  <2>. QED BY <2>2, <2>4 DEF Serving
<1>8. CASE /\ UNCHANGED <<calls, out, conn, cur, complete, plan>>
           /\ Serving' => Serving
           /\ pc' \in {"app", "send"} => pc' = pc
  BY <1>8
<1>9. CASE \/ Start \/ AcceptError \/ HasRoom \/ Realloc \/ OutOfMemory \/ Recv \/ ReadOn
           \/ Responded \/ UNCHANGED vars
  BY <1>8, <1>9
     DEF Start, AcceptError, HasRoom, Realloc, OutOfMemory, Recv, ReadOn, Responded,
         vars, jillVars, runVars, dataVars, replyVars, socketVars, Serving
<1>. QED BY <1>1, <1>2, <1>3, <1>4, <1>5, <1>6, <1>7, <1>9 DEF Next, Server

(* A call of http_parser_execute() returns at the end of its data, or with *)
(* an error.                                                               *)
LEMMA StopsAtEnd ==
  ASSUME NEW c \in Cell, ParserStep(c), step # "idle", step' = "idle", ParserTypeOK, ParserInv
  PROVE  p' = pe' \/ http_parser_has_error'
<1>1. EatForever \/ RefuseField(c) \/ RefuseURI(c) \/ RefuseDigit(c) \/ Leave
  BY DEF ParserStep, Advance, Reject, HeadersComplete, BodyLogic, ChunkData, SkipBody, LastChunk,
         EndRequest, Reading
<1>. QED
  BY <1>1 DEF EatForever, RefuseField, RefuseURI, RefuseDigit, Leave, http_parser_has_error,
              Reading, ParserTypeOK, ParserInv, MarkInv

(* The parser's place in the buffer. *)
LEMMA PositionStep ==
  ASSUME IInv, PositionInv, [Next]_vars
  PROVE  PositionInv'
<1>. USE DEF PositionInv
<1>0. /\ ParserTypeOK /\ ParserInv /\ p \in Nat /\ pe \in Nat
      /\ bufferSize \in Nat /\ bufferPosition \in Nat /\ pe <= bufferSize
      /\ p <= pe /\ DOMAIN mem = 0 .. bufferSize - 1
  BY DEF IInv, TypeOK, ParserTypeOK, LoopInv, ParserInv, MarkInv
<1>1. CASE Accept
  BY <1>1 DEF Accept, http_parser_init, http_parser_has_error
<1>2. CASE Execute
  <2>1. /\ pc = "exec" /\ cur' = cur /\ Here \in Cell /\ ParserStep(Here) /\ step # "idle"
        /\ Handle(Callback(Here)) /\ pc' \in {"exec", "app"}
    BY <1>2, ExecuteFrame DEF Execute, dispatch
  <2>2. Ahead(mem') /\ p <= p' /\ pe' = pe /\ p' \in Nat
    BY <1>0, <2>1, HandledAhead, CursorStep, ParserStepType DEF IInv, ParserTypeOK
  <2>3. step' = "idle" => p' = pe' \/ http_parser_has_error'
    BY <1>0, <2>1, StopsAtEnd
  <2>4. \A i \in p' .. pe' - 1 : mem'[i] = <<cur', i + 1>>
    BY <1>0, <2>1, <2>2 DEF Ahead
  <2>. QED BY <2>1, <2>3, <2>4
<1>3. CASE Recv
  <2>1. /\ pc = "recv" /\ pc' = "exec" /\ cur' = cur /\ mem' = Received(recved')
        /\ p' = bufferPosition /\ pe' = bufferPosition + recved' /\ step' # "idle"
        /\ recved' = IF Unread < Space THEN Unread ELSE Space
    BY <1>3 DEF Recv, http_parser_execute
  <2>2. cur \in Clients /\ sent[cur] \in Nat /\ bufferPosition <= sent[cur]
        /\ bufferPosition <= bufferSize
    BY <2>1 DEF IInv, LoopInv, Serving, TypeOK, SocketsTypeOK
  <2>3. recved' \in Nat /\ bufferPosition + recved' <= bufferSize
    BY <1>0, <2>1, <2>2 DEF Unread, Space
  <2>4. ASSUME NEW i \in p' .. pe' - 1 PROVE mem'[i] = <<cur, i + 1>>
    <3>1. i \in DOMAIN mem /\ i \in bufferPosition .. bufferPosition + recved' - 1
      BY <1>0, <2>1, <2>3
    <3>. QED BY <2>1, <3>1 DEF Received
  <2>. QED BY <2>1, <2>4
<1>4. CASE ReadOn
  BY <1>0, <1>4 DEF ReadOn, parserVars, http_parser_has_error, IInv, LoopInv
<1>5. CASE Realloc
  BY <1>5 DEF Realloc, parserVars, http_parser_has_error
<1>6. CASE \/ Start \/ AcceptError \/ OutOfMemory \/ RecvError \/ CloseClient
  BY <1>6 DEF Start, AcceptError, OutOfMemory, RecvError, CloseClient, Close
<1>7. CASE /\ UNCHANGED <<parserVars, cur, bufferPosition, mem>>
           /\ pc' \in {"room", "recv"} => pc \in {"room", "recv"}
           /\ pc' \in {"exec", "app", "send"} => pc \in {"exec", "app", "send"}
  BY <1>7 DEF parserVars, http_parser_has_error
<1>8. CASE \/ HasRoom \/ App \/ Send \/ SendThrows \/ Responded \/ UNCHANGED vars
           \/ \E c \in Clients : Client(c)
  BY <1>7, <1>8
     DEF HasRoom, App, Send, SendThrows, Responded, Client, vars, jillVars, runVars, dataVars
<1>. QED BY <1>1, <1>2, <1>3, <1>4, <1>5, <1>6, <1>8 DEF Next, Server

(* CHUNKED is set by a cell that says so. *)
LEMMA ChunkedSeen ==
  ASSUME ParserTypeOK, ParserInv, NEW r \in Seq(Cell), pe <= Len(r), NEW c \in Cell,
         ParserStep(c), p < pe => c = r[p + 1],
         "CHUNKED" \in flags => \E i \in 1 .. p : r[i].k = "chunked"
  PROVE  "CHUNKED" \in flags' => \E i \in 1 .. p' : r[i].k = "chunked"
<1>0. p \in Nat /\ p' \in Nat /\ p <= p'
  BY CursorStep, ParserStepType DEF ParserTypeOK
<1>1. CASE "CHUNKED" \in flags
  BY <1>0, <1>1
<1>2. CASE "CHUNKED" \notin flags /\ "CHUNKED" \in flags'
  <2>1. Advance(c) /\ c.k = "chunked"
    <3>1. CASE Advance(c)
      BY <1>2, <3>1 DEF Advance, Learn
    <3>2. CASE \/ RefuseField(c) \/ RefuseURI(c) \/ RefuseDigit(c)
               \/ BodyLogic \/ SkipBody \/ EndRequest
      BY <1>2, <3>2 DEF RefuseField, RefuseURI, RefuseDigit, BodyLogic, SkipBody, EndRequest,
                        lengthVars
    <3>3. CASE flags' = flags
      BY <1>2, <3>3
    <3>. QED
      BY <3>1, <3>2, <3>3
         DEF ParserStep, EatForever, Reject, HeadersComplete, ChunkData, LastChunk, Leave,
             lengthVars
  <2>2. p' = p + 1 /\ r[p + 1].k = "chunked"
    BY <2>1 DEF Advance, Reading
  <2>. QED BY <1>0, <2>2
<1>. QED BY <1>1, <1>2

(* The headers are read on, to their end, or over it into the body.        *)
LEMMA HeadersStep ==
  ASSUME ParserTypeOK, ParserInv, NEW r \in Seq(Cell), ~Chunked(r), pe <= Len(r), NEW c \in Cell,
         ParserStep(c), step # "idle", p < pe => c = r[p + 1],
         "CHUNKED" \in flags => \E i \in 1 .. p : r[i].k = "chunked",
         InHeaders(r),
         Callback(c).on = "headers_complete" => content_length >= 0
  PROVE  InHeaders(r)' \/ (InBody(r)' /\ p' = HeadEnd(r))
<1>. USE DEF InHeaders, markVars, lengthVars
<1>0. p \in Nat /\ pe \in Nat /\ p <= pe /\ Len(r) \in Nat
  BY DEF ParserTypeOK, ParserInv, MarkInv
<1>1. CASE RefuseField(c) \/ (RefuseURI(c) /\ ~Reading) \/ RefuseDigit(c)
  BY <1>1 DEF RefuseField, RefuseURI, RefuseDigit
<1>9. CASE RefuseURI(c) /\ Reading
  <2>1. /\ p < pe /\ p' = p + 1 /\ cs' = "hdr" /\ step' = "idle" /\ c = r[p + 1]
        /\ c.k \in VersionKind /\ flags' = flags \cup {"ERROR"}
        /\ content_length' = content_length
    BY <1>9 DEF RefuseURI, EndsURI, Reading
  <2>2. c.k # "end" /\ c.k # "digit"
    BY <2>1 DEF VersionKind
  <2>3. \A i \in 1 .. p' : r[i].k # "end"
    BY <1>0, <2>1, <2>2
  <2>4. content_length' = Spelled(r)[p']
    <3>1. p' \in 1 .. Len(r) /\ p' - 1 = p
      BY <1>0, <2>1
    <3>2. Spelled(r)[p'] = NextNumber(r[p'], Spelled(r)[p])
      BY <3>1, SpelledStep
    <3>. QED BY <2>1, <2>2, <3>2 DEF NextNumber
  <2>. QED BY <2>1, <2>3, <2>4 DEF ChunkState
<1>2. CASE Advance(c)
  <2>1. PICK e \in Edge : e[1] = cs /\ e[2] = c.k /\ cs' = e[3]
    BY <1>2 DEF Advance
  <2>2. p < pe /\ step = "exec" /\ p' = p + 1 /\ step' = step /\ c = r[p + 1]
    BY <1>2 DEF Advance, Reading
  <2>3. c.k # "end" /\ cs' \notin ChunkState
    BY <2>1 DEF Edge, ChunkState, ValueKind, VersionKind
  <2>4. \A i \in 1 .. p' : r[i].k # "end"
    BY <1>0, <2>2, <2>3
  <2>5. content_length' = Spelled(r)[p']
    <3>1. p' \in 1 .. Len(r) /\ p' - 1 = p
      BY <1>0, <2>2
    <3>2. Spelled(r)[p'] = NextNumber(r[p'], Spelled(r)[p])
      BY <3>1, SpelledStep
    <3>. QED BY <1>2, <2>2, <3>2 DEF Advance, Learn, NextNumber
  <2>6. "EATING" \notin flags' /\ "EAT_FOREVER" \notin flags'
    BY <1>2 DEF Advance, Learn
  <2>. QED BY <2>2, <2>3, <2>4, <2>5, <2>6
<1>3. CASE Reject(c)
  BY <1>3 DEF Reject, Reading, ChunkState
<1>4. CASE HeadersComplete(c)
  <2>1. Callback(c).on = "headers_complete"
    <3>1. ~(\E e \in Edge : e[1] = "hdr" /\ e[2] = "end")
      BY DEF Edge, ValueKind, VersionKind
    <3>2. field = None
      BY <1>4, NoField DEF HeadersComplete, ParserInv, Field
    <3>. QED BY <1>4, <3>1, <3>2
         DEF HeadersComplete, Callback, ReadingCall, Closes, EmptyField, Notify, Call
  <2>. QED BY <1>4, <2>1 DEF HeadersComplete, Reading
<1>5. CASE BodyLogic
  <2>1. step = "body_logic" /\ p < pe /\ r[p + 1].k = "end" /\ content_length >= 0
    BY <1>5 DEF BodyLogic, ParserInv, PhaseInv
  <2>. DEFINE h == p + 1
  <2>2. h \in 1 .. Len(r) /\ h - 1 = p /\ r[h].k = "end"
    BY <1>0, <2>1
  <2>. HIDE DEF h
  <2>3. HeadEnd(r) = h
    <3>1. \A i \in 1 .. h - 1 : r[i].k # "end"
      BY <2>2
    <3>. QED BY <2>2, <3>1, FirstEnd
  <2>4. "CHUNKED" \notin flags
    <3>. SUFFICES ASSUME "CHUNKED" \in flags PROVE FALSE
      OBVIOUS
    <3>1. PICK i \in 1 .. p : r[i].k = "chunked"
      OBVIOUS
    <3>2. i \in 1 .. Len(r) /\ i <= h
      BY <1>0, <2>1 DEF h
    <3>. QED BY <2>3, <3>1, <3>2, ChunkedBefore
  <2>5. content_length = DeclaredLength(r)
    <3>1. Spelled(r)[h] = NextNumber(r[h], Spelled(r)[h - 1])
      BY <2>2, SpelledStep
    <3>. QED BY <2>2, <2>3, <3>1 DEF NextNumber, DeclaredLength
  <2>6. /\ p' = p + 1 /\ cs' = "start" /\ step' = "skip" /\ chunk_size' = content_length
        /\ content_length' = content_length /\ flags' = flags
    BY <1>5, <2>1, <2>4 DEF BodyLogic, ParserTypeOK
  <2>7. HeadEnd(r) \in 1 .. p' /\ p' + chunk_size' = HeadEnd(r) + content_length'
    BY <1>0, <2>3, <2>6 DEF h
  <2>. QED BY <2>1, <2>3, <2>4, <2>5, <2>6, <2>7 DEF InBody, h
<1>6. CASE Leave
  BY <1>6 DEF Leave
<1>7. ~EatForever /\ ~SkipBody /\ ~EndRequest
  BY DEF EatForever, SkipBody, EndRequest
<1>8. ~ChunkData /\ ~LastChunk(c)
  BY DEF ChunkData, LastChunk, ChunkState
<1>. QED BY <1>1, <1>2, <1>3, <1>4, <1>5, <1>6, <1>7, <1>8, <1>9 DEF ParserStep

(* The body is skipped, to its end at most.                                *)
LEMMA BodyStep ==
  ASSUME ParserTypeOK, ParserInv, NEW r \in Seq(Cell), NEW c \in Cell,
         ParserStep(c), step # "idle", InBody(r), Callback(c).on # "message_complete"
  PROVE  InBody(r)'
<1>. USE DEF InBody
<1>0. /\ p \in Nat /\ pe \in Nat /\ chunk_size \in Nat /\ p <= pe
      /\ HeadEnd(r) \in Nat /\ content_length \in Int
  BY DEF ParserTypeOK, ParserInv, MarkInv
<1>1. field = None
  BY NoField DEF ParserInv, Field
<1>2. CASE step = "exec"
  <2>1. ~Reading
    BY <1>0, <1>2 DEF Reading, ParserInv, EatInv
  <2>2. Leave \/ RefuseURI(c)
    BY <1>1, <1>2, <2>1
       DEF ParserStep, EatForever, RefuseField, FieldTooLong, RefuseDigit, Advance, Reject,
           HeadersComplete, BodyLogic, ChunkData, SkipBody, LastChunk, EndRequest
  <2>. QED BY <1>2, <2>1, <2>2 DEF Leave, RefuseURI, lengthVars
<1>3. CASE step = "skip"
  <2>1. SkipBody
    BY <1>3
       DEF ParserStep, EatForever, RefuseField, RefuseURI, RefuseDigit, Advance, Reject, Reading,
           HeadersComplete, BodyLogic, ChunkData, LastChunk, EndRequest, Leave
  <2>2. Skipped \in Nat /\ Skipped <= chunk_size
    BY <1>0 DEF Skipped, Remaining
  <2>3. /\ p' = p + Skipped /\ chunk_size' = chunk_size - Skipped
        /\ content_length' = content_length /\ cs' = cs
    BY <2>1 DEF SkipBody
  <2>4. /\ p' + chunk_size' = p + chunk_size /\ HeadEnd(r) \in 1 .. p'
    BY <1>0, <2>2, <2>3
  <2>5. CASE chunk_size = Skipped
    <3>1. step' = "end_request" /\ flags' = flags \ {"EATING"} /\ chunk_size' = 0
      BY <1>0, <2>1, <2>2, <2>3, <2>5 DEF SkipBody
    <3>. QED BY <2>3, <2>4, <3>1
  <2>6. CASE chunk_size # Skipped
    <3>1. step' = "exec" /\ flags' = flags \cup {"EATING"}
      BY <2>1, <2>6 DEF SkipBody
    <3>. QED BY <2>3, <2>4, <3>1
  <2>. QED BY <2>5, <2>6
<1>4. step # "end_request"
  BY DEF Callback, Reading, Notify, Call
<1>. QED BY <1>2, <1>3, <1>4

(* Only a call for the body notes anything of it.                          *)
LEMMA BodyAlone ==
  ASSUME TypeOK, NEW c \in Cell, Handle(Callback(c)), step \in {"exec", "body_logic"},
         ~dispatch
  PROVE  off'["body"] = off["body"]
<1>1. Callback(c).on # "body"
  BY DEF Callback, ReadingCall, FieldCall, EmptyField, Call, Notify, NoCall, None, Reading,
         TypeOK, ParserTypeOK, Field
<1>2. /\ "body" \in Part /\ "name" \in Part
      /\ off \in [Part -> Nat \cup {-1}] /\ len \in [Part -> Nat]
      /\ ForgottenOff \in [Part -> Nat \cup {-1}]
      /\ ForgottenOff["body"] = off["body"]
  BY Forgotten DEF Part, Field, TypeOK
<1>3. CASE UNCHANGED off
  BY <1>3
<1>4. CASE Callback(c).on \in {"path", "query", "value"} /\ on_data(Callback(c))
  BY <1>2, <1>4 DEF on_data, Accumulate
<1>5. CASE on_header_field(Callback(c))
  BY <1>2, <1>5 DEF on_header_field, Accumulate
<1>. QED
  BY <1>1, <1>3, <1>4, <1>5
     DEF Handle, on_message_begin, on_headers_complete, on_message_complete, dataVars

(* What is skipped of the body is noted.                                   *)
LEMMA BodyReadOn ==
  ASSUME IInv, PositionInv, pc = "exec", NEW r, r = request[cur], cur' = cur,
         NEW c \in Cell, ParserStep(c), step # "idle", Handle(Callback(c)), ~dispatch,
         InBody(r), BodyRead(r), Callback(c).on # "message_complete"
  PROVE  BodyRead(r)'
<1>. USE DEF InBody, BodyRead
<1>0. /\ p \in Nat /\ pe \in Nat /\ chunk_size \in Nat /\ p <= pe /\ HeadEnd(r) \in 1 .. p
      /\ off \in [Part -> Nat \cup {-1}] /\ len \in [Part -> Nat] /\ "body" \in Part
      /\ ParserTypeOK /\ ParserInv
  BY DEF IInv, TypeOK, ParserTypeOK, ParserInv, MarkInv, Part
<1>1. field = None
  BY <1>0, NoField DEF ParserInv, Field
<1>2. CASE step = "exec"
  <2>1. ~Reading
    BY <1>0, <1>2 DEF Reading, ParserInv, EatInv
  <2>2. Leave \/ RefuseURI(c)
    BY <1>1, <1>2, <2>1
       DEF ParserStep, EatForever, RefuseField, FieldTooLong, RefuseDigit, Advance, Reject,
           HeadersComplete, BodyLogic, ChunkData, SkipBody, LastChunk, EndRequest
  <2>3. Callback(c).on = None
    BY <1>1, <1>2, <2>1 DEF Callback, FieldCall, NoCall, Call
  <2>4. p' = p
    BY <2>1, <2>2 DEF Leave, RefuseURI
  <2>. QED BY <2>3, <2>4 DEF Handle, dataVars, None
<1>3. CASE step = "skip"
  <2>1. SkipBody
    BY <1>3
       DEF ParserStep, EatForever, RefuseField, RefuseURI, RefuseDigit, Advance, Reject, Reading,
           HeadersComplete, BodyLogic, ChunkData, LastChunk, EndRequest, Leave
  <2>2. Skipped \in Nat /\ p' = p + Skipped /\ p' <= pe
    BY <1>0, <2>1 DEF Skipped, Remaining, SkipBody
  <2>3. Callback(c) = BodyCall(Skipped)
    BY <1>3 DEF Callback, Reading
  <2>4. \A i \in HeadEnd(r) .. p' - 1 : mem[i] = <<cur, i + 1>>
    <3>1. \A i \in p .. pe - 1 : mem[i] = <<cur, i + 1>>
      BY DEF PositionInv
    <3>. QED BY <1>0, <2>2, <3>1
  <2>5. CASE Skipped = 0
    <3>1. UNCHANGED <<mem, off, len>>
      BY <2>3, <2>5 DEF BodyCall, NoCall, Call, Handle, dataVars, None
    <3>. QED BY <1>0, <2>2, <2>4, <2>5, <3>1
  <2>6. CASE Skipped # 0
    <3>1. mem' = mem /\ Accumulate("body", p, Skipped, off, len)
      BY <2>3, <2>6 DEF BodyCall, Call, Handle, on_data, None
    <3>2. /\ off'["body"] = (IF off["body"] < 0 THEN p ELSE off["body"])
          /\ len'["body"] = (IF off["body"] < 0 THEN Skipped ELSE len["body"] + Skipped)
      BY <1>0, <3>1 DEF Accumulate
    <3>3. off["body"] \in Nat \cup {-1} /\ len["body"] \in Nat
      BY <1>0
    <3>4. off'["body"] = HeadEnd(r) /\ off'["body"] + len'["body"] = p'
      BY <1>0, <2>2, <3>2, <3>3
    <3>5. ASSUME NEW f \in Field PROVE off'[f] = off[f] /\ len'[f] = len[f]
      <4>1. f \in Part /\ f # "body"
        BY DEF Field, Part
      <4>. QED BY <1>0, <3>1, <4>1 DEF Accumulate
    <3>. QED BY <1>0, <2>4, <3>1, <3>4, <3>5
  <2>. QED BY <2>5, <2>6
<1>4. step # "end_request"
  BY DEF Callback, Reading, Notify, Call
<1>. QED BY <1>2, <1>3, <1>4

(* The first request of the connection. *)
LEMMA FirstStep ==
  ASSUME IInv, ConnInv, AnswerInv, PositionInv, FirstInv, [Next]_vars
  PROVE  FirstInv'
<1>0. ASSUME NEW c \in Clients PROVE request[c] \in Seq(Cell)
  BY SocketsAssumption DEF IInv, TypeOK, SocketsTypeOK
<1>1. CASE Accept
  <2>1. /\ cur' = Head(queue) /\ queue # <<>> /\ request' = request /\ p' = 0 /\ step' = "idle"
        /\ cs' = "start" /\ flags' = {} /\ content_length' = -1 /\ off'["body"] = -1
    BY <1>1 DEF Accept, AcceptConnection, http_parser_init, NewData, Part
  <2>2. Head(queue) \in Clients
    BY <2>1 DEF IInv, TypeOK, SocketsTypeOK
  <2>3. Spelled(request[Head(queue)])[0] = -1
    BY <1>0, <2>2, SpelledStep
  <2>4. InHeaders(request[cur])'
    <3>1. step' # "body_logic" /\ Spelled(request'[cur'])[p'] = content_length'
      BY <2>1, <2>3
    <3>. QED BY <2>1, <3>1 DEF InHeaders, ChunkState
  <2>. QED BY <2>1, <2>4 DEF FirstInv
<1>2. CASE Execute
  <2>0. PICK r : r = request[cur]
    OBVIOUS
  <2>1. /\ pc = "exec" /\ cur \in Clients /\ Here \in Cell /\ step # "idle"
        /\ ParserStep(Here) /\ Handle(Callback(Here)) /\ cur' = cur /\ request' = request
    BY <1>2, ExecuteFrame DEF Execute
  <2>2. /\ r \in Seq(Cell) /\ pe \in Nat /\ pe <= Len(r)
        /\ p < pe => Here = r[p + 1]
        /\ ParserTypeOK /\ ParserInv
    <3>1. pe <= sent[cur] /\ sent[cur] <= Len(r) /\ sent[cur] \in Nat /\ pe \in Nat
      BY <2>0, <2>1 DEF IInv, LoopInv, TypeOK, SocketsTypeOK, ParserTypeOK
    <3>2. r \in Seq(Cell)
      BY <1>0, <2>0, <2>1
    <3>. QED BY <2>0, <2>1, <3>1, <3>2, HereInOrder DEF IInv, TypeOK
  <2>. SUFFICES ASSUME calls'[cur] = <<>>
                PROVE  /\ "CHUNKED" \in flags' => \E i \in 1 .. p' : r[i].k = "chunked"
                       /\ ~Chunked(r) => \/ InHeaders(r)' /\ off'["body"] = -1
                                         \/ InBody(r)' /\ BodyRead(r)'
    BY <2>0, <2>1 DEF FirstInv
  <2>3. calls[cur] = <<>> /\ ~complete /\ ~dispatch
    <3>1. calls \in [Clients -> Seq(CallOfApp)]
      BY DEF IInv, TypeOK
    <3>2. Append(calls[cur], AppCall) # <<>>
      BY <2>1, <3>1, LongerThanNothing
    <3>3. complete => calls[cur] # <<>> /\ calls' = calls
      BY <1>2, <2>1, ExecuteFrame DEF AnswerInv, Serving
    <3>4. ~complete /\ dispatch => calls'[cur] # <<>>
      BY <2>1, <3>1, <3>2 DEF dispatch
    <3>5. ~complete
      BY <3>3
    <3>. QED BY <2>1, <3>4, <3>5 DEF AnswerInv, Serving
  <2>4. /\ Callback(Here).on # "message_complete"
        /\ Callback(Here).on = "headers_complete" => content_length >= 0
    BY <2>1, <2>2, <2>3
       DEF Handle, on_message_complete, on_headers_complete, None, ParserTypeOK
  <2>5. /\ "CHUNKED" \in flags => \E i \in 1 .. p : r[i].k = "chunked"
        /\ ~Chunked(r) => \/ InHeaders(r) /\ off["body"] = -1
                          \/ InBody(r) /\ BodyRead(r)
    BY <2>0, <2>1, <2>3 DEF FirstInv, Serving
  <2>6. "CHUNKED" \in flags' => \E i \in 1 .. p' : r[i].k = "chunked"
    BY <2>1, <2>2, <2>5, ChunkedSeen
  <2>7. CASE ~Chunked(r) /\ InHeaders(r) /\ off["body"] = -1
    <3>1. InHeaders(r)' \/ (InBody(r)' /\ p' = HeadEnd(r))
      BY <2>1, <2>2, <2>4, <2>5, <2>7, HeadersStep
    <3>2. off'["body"] = -1
      <4>1. step \in {"exec", "body_logic"} /\ TypeOK
        BY <2>1, <2>7 DEF InHeaders, IInv
      <4>. QED BY <2>1, <2>3, <2>7, <4>1, BodyAlone
    <3>3. p' \in Nat /\ IInv'
      BY <1>2, ExecuteStep DEF IInv, TypeOK, ParserTypeOK
    <3>4. InBody(r)' /\ p' = HeadEnd(r) => BodyRead(r)'
      <4>. SUFFICES ASSUME InBody(r)', p' = HeadEnd(r) PROVE BodyRead(r)'
        OBVIOUS
      <4>1. cs' = "start" /\ MarkInv'
        BY <3>3 DEF InBody, IInv, ParserInv
      <4>2. field' \notin Field
        BY <4>1 DEF MarkInv, Field, None
      <4>3. ASSUME NEW f \in Field, off'[f] >= 0 PROVE off'[f] + len'[f] < p'
        <5>1. Extent(f)'
          BY <3>3 DEF IInv, ExtentInv
        <5>2. Ended(f)'
          BY <4>2 DEF Ended
        <5>. QED BY <4>3, <5>1, <5>2 DEF Extent
      <4>. QED BY <3>2, <3>3, <4>3 DEF BodyRead
    <3>. QED BY <2>6, <3>1, <3>2, <3>4
  <2>8. CASE ~Chunked(r) /\ InBody(r) /\ BodyRead(r)
    <3>1. InBody(r)'
      BY <2>1, <2>2, <2>4, <2>8, BodyStep
    <3>2. BodyRead(r)'
      BY <2>0, <2>1, <2>2, <2>3, <2>4, <2>8, BodyReadOn
    <3>. QED BY <2>6, <3>1, <3>2
  <2>. QED BY <2>5, <2>6, <2>7, <2>8
<1>3. CASE Recv
  <2>1. /\ pc = "recv" /\ Serving /\ UNCHANGED <<request, cur, calls>>
        /\ UNCHANGED <<cs, flags, chunk_size, content_length, off, len>>
        /\ p' = bufferPosition /\ step = "idle"
        /\ step' = IF "EAT_FOREVER" \in flags THEN "eat_forever"
                   ELSE IF chunk_size > 0 /\ "EATING" \in flags THEN "skip" ELSE "exec"
    BY <1>3 DEF Recv, http_parser_execute, lengthVars, socketVars, replyVars, Serving
  <2>2. p' = p
    BY <2>1 DEF PositionInv
  <2>. SUFFICES ASSUME calls[cur] = <<>>
                PROVE  /\ "CHUNKED" \in flags => \E i \in 1 .. p : request[cur][i].k = "chunked"
                       /\ ~Chunked(request[cur]) =>
                            \/ InHeaders(request[cur])' /\ off["body"] = -1
                            \/ InBody(request[cur])' /\ BodyRead(request[cur])'
    BY <2>1, <2>2 DEF FirstInv
  <2>3. /\ "CHUNKED" \in flags => \E i \in 1 .. p : request[cur][i].k = "chunked"
        /\ ~Chunked(request[cur]) =>
             \/ InHeaders(request[cur]) /\ off["body"] = -1
             \/ InBody(request[cur]) /\ BodyRead(request[cur])
    BY <2>1 DEF FirstInv
  <2>4. InHeaders(request[cur]) => InHeaders(request[cur])'
    BY <2>1, <2>2 DEF InHeaders
  <2>5. InBody(request[cur]) => InBody(request[cur])'
    <3>1. "EATING" \in flags => chunk_size > 0
      BY DEF IInv, ParserInv, EatInv
    <3>. QED BY <2>1, <2>2, <3>1 DEF InBody
  <2>6. InBody(request[cur]) /\ BodyRead(request[cur]) => BodyRead(request[cur])'
    <3>1. /\ DOMAIN mem = 0 .. bufferSize - 1 /\ p \in Nat /\ p <= bufferSize /\ bufferSize \in Nat
          /\ pe \in Nat
      BY DEF IInv, TypeOK, ParserTypeOK, LoopInv, ParserInv, MarkInv
    <3>2. \A i \in DOMAIN mem : i < p => mem'[i] = mem[i]
      BY <1>3, <2>1, <2>2, <3>1 DEF Recv, Received
    <3>3. InBody(request[cur]) => HeadEnd(request[cur]) \in Nat
      BY DEF InBody
    <3>. QED BY <2>1, <2>2, <3>1, <3>2, <3>3 DEF BodyRead
  <2>. QED BY <2>3, <2>4, <2>5, <2>6
<1>4. CASE RecvError \/ CloseClient
  BY <1>4 DEF RecvError, CloseClient, Close, FirstInv, Serving
<1>5. CASE /\ UNCHANGED <<parserVars, cur, request, calls, off, len>>
           /\ \A i \in 0 .. p - 1 : mem'[i] = mem[i]
           /\ Serving' => Serving
  <2>1. \A r : InBody(r) => HeadEnd(r) \in Nat /\ p \in Nat
    BY DEF InBody, IInv, TypeOK, ParserTypeOK
  <2>2. \A r : InBody(r) /\ BodyRead(r) => BodyRead(r)'
    BY <1>5, <2>1 DEF BodyRead, parserVars
  <2>3. \A r : (InHeaders(r) => InHeaders(r)') /\ (InBody(r) => InBody(r)')
    BY <1>5 DEF InHeaders, InBody, parserVars
  <2>. QED BY <1>5, <2>2, <2>3 DEF FirstInv, parserVars
<1>6. CASE Realloc
  <2>1. p \in Nat /\ p <= bufferSize /\ bufferSize \in Nat /\ pe \in Nat
    BY DEF IInv, TypeOK, ParserTypeOK, LoopInv, ParserInv, MarkInv
  <2>2. /\ mem' = [i \in 0 .. 2 * bufferSize - 1 |-> IF i < bufferSize THEN mem[i] ELSE Junk]
        /\ UNCHANGED <<parserVars, cur, request, calls, off, len>> /\ pc = "room" /\ pc' = "recv"
    BY <1>6 DEF Realloc, socketVars, replyVars
  <2>3. \A i \in 0 .. p - 1 : mem'[i] = mem[i]
    BY <2>1, <2>2
  <2>. QED BY <1>5, <2>2, <2>3 DEF Serving
<1>7. CASE \/ Start \/ AcceptError \/ HasRoom \/ OutOfMemory \/ ReadOn
           \/ App \/ Send \/ SendThrows \/ Responded \/ UNCHANGED vars
           \/ \E c \in Clients : Client(c)
  BY <1>5, <1>7
     DEF Start, AcceptError, HasRoom, OutOfMemory, ReadOn, App, Send, SendThrows,
         Responded, TakePiece, vars, jillVars, runVars, dataVars, replyVars, socketVars, Serving,
         Client, ClientStep, Connect, SendCell, HangUp, TakeAnswer
<1>. QED BY <1>1, <1>2, <1>3, <1>4, <1>6, <1>7 DEF Next, Server

(* RInv holds of the initial states, and is kept by every step. *)
LEMMA InitRInv == Init => RInv
<1>. SUFFICES ASSUME Init PROVE RInv
  OBVIOUS
<1>. USE DEF Init, SocketsInit
<1>1. ConnInv
  BY DEF ConnInv, Serving
<1>2. AnswerInv
  BY DEF AnswerInv, Serving
<1>3. PositionInv /\ FirstInv
  BY DEF PositionInv, FirstInv, Serving
<1>. QED BY <1>1, <1>2, <1>3 DEF RInv

LEMMA NextRInv == IInv /\ RInv /\ [Next]_vars => RInv'
BY ConnStep, AnswerStep, PositionStep, FirstStep DEF RInv

(* In every reachable state the parser stands in the client's stream where *)
(* the stream, read as a whole, says (jill.cc:636-694).                    *)
THEOREM InTurn == Spec => [](IInv /\ RInv)
<1>1. IInv /\ RInv /\ [Next]_vars => (IInv /\ RInv)'
  BY NextIInv, NextRInv
<1>. QED BY <1>1, InitIInv, InitRInv, PTL DEF Spec

-----------------------------------------------------------------------------
(***************************************************************************)
(* Jill implements Jsgi.                                                   *)
(***************************************************************************)
Called == {c \in Clients : calls[c] # <<>>}
Phase == [c \in Clients |-> IF conn[c] \in {"open", "closed"} THEN conn[c] ELSE "waiting"]

(* Jsgi reads a request as Message does. *)
LEMMA SameEnd ==
  ASSUME NEW r
  PROVE  Promise!MessageEnd(r) = MessageEnd(r)
<1>1. ASSUME NEW K PROVE Promise!Places(r, K) = Places(r, K)
  BY DEF Promise!Places, Places
<1>2. Promise!HeadEnd(r) = HeadEnd(r)
  <2>1. Promise!Places(r, {"end"}) = Places(r, {"end"})
    BY <1>1
  <2>2. ASSUME NEW S PROVE Promise!Least(S) = Least(S)
    BY Zenon DEF Promise!Least, Least
  <2>. QED BY <2>1, <2>2 DEF Promise!HeadEnd, HeadEnd
<1>3. Promise!Chunked(r) <=> Chunked(r)
  BY <1>1, <1>2, Zenon DEF Promise!Chunked, Chunked, Promise!InHead, InHead
<1>4. Promise!DeclaredLength(r) = DeclaredLength(r)
  <2>1. Promise!Spelled(r) = Spelled(r)
    BY Zenon DEF Promise!Spelled, Spelled, Promise!NextNumber, NextNumber
  <2>. QED BY <1>2, <2>1 DEF Promise!DeclaredLength, DeclaredLength
<1>5. Promise!Places(r, {"last"}) = Places(r, {"last"})
  BY <1>1
<1>. QED BY <1>2, <1>3, <1>4, <1>5 DEF Promise!MessageEnd, MessageEnd, Promise!Least, Least

(* The whole response is what is planned but for the exception at its end. *)
LEMMA WholePlan ==
  ASSUME NEW r \in Results
  PROVE  /\ WholeResponse(r) \in Seq(Piece)
         /\ Len(WholeResponse(r)) <= Len(Plan(r))
         /\ \A i \in 1 .. Len(WholeResponse(r)) : WholeResponse(r)[i] = Plan(r)[i]
         /\ \A i \in 1 .. Len(Plan(r)) : i > Len(WholeResponse(r)) => Plan(r)[i] = "throw"
<1>0. /\ r.did \in {"responds", "throws", "nothing"}
      /\ r.headers \in Nat /\ r.chunks \in Nat /\ r.whole \in BOOLEAN
  BY JillAssumption DEF Result
<1>. DEFINE w == [r EXCEPT !.whole = TRUE]
<1>1. w.did = r.did /\ w.headers = r.headers /\ w.chunks = r.chunks /\ w.whole = TRUE
  BY JillAssumption DEF Result
<1>2. Plan(r) \in Seq(Piece)
  BY PlanType
<1>3. CASE r.did # "responds"
  <2>1. Plan(w) = Plan(r)
    BY <1>0, <1>1, <1>3 DEF Plan
  <2>2. WholeResponse(r) = Plan(r)
    BY <2>1 DEF WholeResponse
  <2>. QED BY <1>2, <2>2
<1>4. CASE r.did = "responds"
  <2>. DEFINE a == <<"status">> \o Repeat("header", r.headers) \o <<"blank">>
                     \o Repeat("chunk", r.chunks)
  <2>1. a \in Seq(Piece)
    <3>1. ASSUME NEW x \in Piece, NEW n \in Nat PROVE Repeat(x, n) \in Seq(Piece)
      BY DEF Repeat
    <3>2. "status" \in Piece /\ "header" \in Piece /\ "blank" \in Piece /\ "chunk" \in Piece
      BY DEF Piece
    <3>. DEFINE h == Repeat("header", r.headers)  k == Repeat("chunk", r.chunks)
    <3>3. /\ h \in Seq(Piece) /\ k \in Seq(Piece)
          /\ <<"status">> \in Seq(Piece) /\ <<"blank">> \in Seq(Piece)
      <4>1. h \in Seq(Piece) /\ k \in Seq(Piece)
        BY <1>0, <3>1, <3>2
      <4>. HIDE DEF h, k
      <4>. QED BY <3>2, <4>1
    <3>. HIDE DEF h, k
    <3>4. <<"status">> \o h \o <<"blank">> \in Seq(Piece)
      <4>1. <<"status">> \o h \in Seq(Piece)
        BY <3>3
      <4>. QED BY <3>3, <4>1
    <3>5. <<"status">> \o h \o <<"blank">> \o k \in Seq(Piece)
      BY <3>3, <3>4
    <3>. QED BY <3>5 DEF h, k
  <2>2. Plan(w) = a \o <<>> /\ Plan(r) = a \o (IF r.whole THEN <<>> ELSE <<"throw">>)
    BY <1>1, <1>4 DEF Plan
  <2>. HIDE DEF a, w
  <2>3. a \o <<>> = a
    BY <2>1
  <2>4. WholeResponse(r) = a
    BY <2>2, <2>3 DEF WholeResponse, w
  <2>5. CASE r.whole
    <3>1. Plan(r) = a
      BY <2>2, <2>3, <2>5
    <3>. QED BY <2>1, <2>4, <3>1
  <2>6. CASE ~r.whole
    <3>1. Plan(r) = a \o <<"throw">> /\ <<"throw">> \in Seq(Piece)
      BY <2>2, <2>6 DEF Piece
    <3>2. /\ Len(Plan(r)) = Len(a) + 1 /\ Len(a) \in Nat
          /\ \A i \in 1 .. Len(a) : Plan(r)[i] = a[i]
          /\ Plan(r)[Len(a) + 1] = "throw"
      BY <2>1, <3>1
    <3>. QED BY <2>1, <2>4, <3>2
  <2>. QED BY <2>5, <2>6
<1>. QED BY <1>3, <1>4

(* A step that leaves what Jsgi sees alone, or lets a client send.         *)
LEMMA SeenKept ==
  ASSUME UNCHANGED <<request, sent, calls, out>>, Phase' = Phase
  PROVE  UNCHANGED Promise!vars
<1>1. Called' = Called
  BY DEF Called
<1>. QED BY <1>1 DEF Promise!vars, Called, Phase

(* The clients: Jsgi sees them send, and no more. *)
LEMMA ClientPromise ==
  ASSUME IInv, NEW c \in Clients, Client(c)
  PROVE  [Promise!Next]_(Promise!vars)
<1>0. conn \in [Clients -> Connection] /\ UNCHANGED <<calls, out>>
  BY DEF IInv, TypeOK, SocketsTypeOK, Client, jillVars, replyVars
<1>1. CASE Connect(c)
  <2>1. conn[c] = "new" /\ (\/ conn' = [conn EXCEPT ![c] = "queued"]
                           \/ conn' = [conn EXCEPT ![c] = "refused"])
        /\ UNCHANGED <<request, sent>>
    BY <1>1 DEF Connect
  <2>2. Phase' = Phase
    BY <1>0, <2>1 DEF Phase
  <2>. QED BY <1>0, <2>1, <2>2, SeenKept
<1>2. CASE SendCell(c)
  <2>1. conn[c] \in {"queued", "open"} /\ sent[c] < Len(request[c])
        /\ sent' = [sent EXCEPT ![c] = @ + 1] /\ UNCHANGED <<request, conn>>
    BY <1>2 DEF SendCell, Connected
  <2>2. Called' = Called /\ Phase' = Phase /\ Phase[c] # "closed"
    BY <1>0, <2>1 DEF Called, Phase
  <2>3. Promise!SendCell(c)
    BY <1>0, <2>1, <2>2 DEF Promise!SendCell, Called, Phase
  <2>. QED BY <2>3 DEF Promise!Next
<1>3. CASE HangUp(c) \/ TakeAnswer(c)
  <2>1. UNCHANGED <<request, sent, conn>>
    BY <1>3 DEF HangUp, TakeAnswer
  <2>. QED BY <1>0, <2>1, SeenKept DEF Phase
<1>. QED BY <1>1, <1>2, <1>3 DEF Client, ClientStep

(* accept() opens the connection it returns. *)
LEMMA AcceptPromise ==
  ASSUME IInv, RInv, Accept
  PROVE  Promise!Next
<1>0. PICK c : c = Head(queue)
  OBVIOUS
<1>1. /\ pc = "accept" /\ queue # <<>> /\ conn' = [conn EXCEPT ![c] = "open"]
      /\ UNCHANGED <<request, sent, calls, out>>
  BY <1>0 DEF Accept, AcceptConnection, replyVars
<1>2. conn \in [Clients -> Connection] /\ c \in Clients /\ conn[c] = "queued"
  <2>1. queue \in Seq(Clients) /\ c = queue[1] /\ 1 \in DOMAIN queue
    BY <1>0, <1>1 DEF IInv, TypeOK, SocketsTypeOK
  <2>. QED BY <2>1 DEF RInv, ConnInv, IInv, TypeOK, SocketsTypeOK
<1>3. \A d \in Clients : Phase[d] # "open"
  BY <1>1 DEF RInv, ConnInv, Phase
<1>4. Phase[c] = "waiting" /\ Phase' = [Phase EXCEPT ![c] = "open"] /\ Called' = Called
  BY <1>1, <1>2 DEF Phase, Called
<1>5. Promise!Open(c)
  BY <1>1, <1>3, <1>4 DEF Promise!Open, Called, Phase
<1>. QED BY <1>2, <1>5 DEF Promise!Next

(* The loop ends with close(). *)
LEMMA ClosePromise ==
  ASSUME IInv, RInv, RecvError \/ CloseClient
  PROVE  Promise!Next
<1>0. PICK c : c = cur
  OBVIOUS
<1>1. /\ Serving /\ conn' = [conn EXCEPT ![c] = "closed"]
      /\ UNCHANGED <<request, sent, calls, out>>
  BY <1>0 DEF RecvError, CloseClient, Close, CloseConnection, TakePiece, replyVars, Serving
<1>2. conn \in [Clients -> Connection] /\ c \in Clients /\ conn[c] = "open"
  BY <1>0, <1>1 DEF IInv, TypeOK, SocketsTypeOK, LoopInv, RInv, ConnInv
<1>3. Phase[c] = "open" /\ Phase' = [Phase EXCEPT ![c] = "closed"] /\ Called' = Called
  BY <1>1, <1>2 DEF Phase, Called
<1>4. Promise!Close(c)
  BY <1>1, <1>3 DEF Promise!Close, Called, Phase
<1>. QED BY <1>2, <1>4 DEF Promise!Next

(* The application is called where the request ends.                       *)
LEMMA CalledAtEnd ==
  ASSUME IInv, RInv, pc = "exec", cur \in Clients, NEW r, r = request[cur], ~Chunked(r),
         ParserStep(Here), step # "idle", ~complete,
         \/ Callback(Here).on = "headers_complete" /\ content_length < 0
         \/ Callback(Here).on = "message_complete"
  PROVE  /\ MessageEnd(r) # 0 /\ MessageEnd(r) <= sent[cur]
         /\ \/ off["body"] = -1 /\ MessageEnd(r) = HeadEnd(r)
            \/ BodyRead(r) /\ MessageEnd(r) = p /\ HeadEnd(r) \in 1 .. p
<1>1. /\ r \in Requests /\ r \in Seq(Cell) /\ ~Chunked(r) /\ sent[cur] \in Nat
      /\ pe <= sent[cur] /\ sent[cur] <= Len(r) /\ p \in Nat /\ pe \in Nat /\ p <= pe
      /\ content_length \in Int
  BY SocketsAssumption
     DEF IInv, TypeOK, SocketsTypeOK, ParserTypeOK, LoopInv, ParserInv, MarkInv
<1>2. calls[cur] = <<>> /\ conn[cur] = "open" /\ Here \in Cell
      /\ ((InHeaders(r) /\ off["body"] = -1) \/ (InBody(r) /\ BodyRead(r)))
  BY <1>1, HereIsCell DEF IInv, RInv, ConnInv, AnswerInv, FirstInv, Serving
<1>3. /\ MessageEnd(r) # 0 /\ MessageEnd(r) <= sent[cur]
      /\ \/ off["body"] = -1 /\ MessageEnd(r) = HeadEnd(r)
         \/ BodyRead(r) /\ MessageEnd(r) = p /\ HeadEnd(r) \in 1 .. p
  <2>1. CASE Callback(Here).on = "headers_complete" /\ content_length < 0
    <3>1. Reading /\ cs = "hdr" /\ Here.k = "end"
      BY <2>1 DEF Callback, ReadingCall, FieldCall, BodyCall, EmptyField, Field, Call, Notify,
                  NoCall, None, IInv, TypeOK, ParserTypeOK
    <3>2. p < pe /\ Here = r[p + 1]
      BY <3>1, HereInOrder DEF Reading, RInv
    <3>. DEFINE h == p + 1
    <3>3. h \in 1 .. Len(r) /\ h - 1 = p /\ r[h].k = "end" /\ h <= sent[cur]
      BY <1>1, <3>1, <3>2
    <3>4. InHeaders(r) /\ off["body"] = -1
      BY <1>2, <3>1 DEF InBody
    <3>. HIDE DEF h
    <3>5. HeadEnd(r) = h
      <4>1. \A i \in 1 .. h - 1 : r[i].k # "end"
        BY <3>3, <3>4 DEF InHeaders
      <4>. QED BY <1>1, <3>3, <4>1, FirstEnd
    <3>6. DeclaredLength(r) = content_length
      <4>1. Spelled(r)[h] = NextNumber(r[h], Spelled(r)[h - 1])
        BY <1>1, <3>3, SpelledStep
      <4>. QED BY <3>3, <3>4, <3>5, <4>1 DEF NextNumber, DeclaredLength, InHeaders
    <3>7. MessageEnd(r) = h
      BY <1>1, <2>1, <3>3, <3>5, <3>6, WholeRequest
    <3>. QED BY <3>3, <3>4, <3>5, <3>7
  <2>2. CASE Callback(Here).on = "message_complete"
    <3>1. step \in {"end_request", "eat_forever"}
      BY <2>2 DEF Callback, ReadingCall, FieldCall, BodyCall, EmptyField, Field, Call, Notify,
                  NoCall, None, IInv, TypeOK, ParserTypeOK
    <3>2. InBody(r) /\ BodyRead(r) /\ step = "end_request"
      BY <1>2, <3>1 DEF InHeaders, InBody
    <3>3. /\ HeadEnd(r) \in 1 .. p /\ DeclaredLength(r) = content_length /\ content_length >= 0
          /\ HeadEnd(r) + content_length = p
      BY <1>1, <3>2 DEF InBody, IInv, TypeOK, ParserTypeOK
    <3>4. MessageEnd(r) = p
      <4>1. HeadEnd(r) \in Nat \ {0} /\ HeadEnd(r) + content_length \in 1 .. Len(r)
        BY <1>1, <3>3
      <4>. QED BY <1>1, <3>3, <4>1, WholeRequest
    <3>. QED BY <1>1, <3>2, <3>3, <3>4
  <2>. QED BY <2>1, <2>2
<1>. QED BY <1>3

(* The application is called when the whole request has come.              *)
LEMMA CallPromise ==
  ASSUME IInv, RInv, Execute, \A r \in Requests : ~Chunked(r)
  PROVE  [Promise!Next]_(Promise!vars)
<1>1. /\ pc = "exec" /\ cur \in Clients /\ UNCHANGED <<request, sent, conn, out>>
      /\ Here \in Cell /\ ParserStep(Here) /\ step # "idle"
      /\ \/ UNCHANGED calls
         \/ /\ dispatch /\ ~complete
            /\ \/ Callback(Here).on = "headers_complete" /\ content_length < 0
               \/ Callback(Here).on = "message_complete"
  BY ExecuteFrame DEF Execute
<1>2. CASE UNCHANGED calls
  BY <1>1, <1>2, SeenKept DEF Phase
<1>3. CASE /\ dispatch /\ ~complete
           /\ \/ Callback(Here).on = "headers_complete" /\ content_length < 0
              \/ Callback(Here).on = "message_complete"
  <2>0. PICK r : r = request[cur]
    OBVIOUS
  <2>1. r \in Requests /\ ~Chunked(r)
    BY <1>1, <2>0 DEF IInv, TypeOK, SocketsTypeOK
  <2>2. calls[cur] = <<>> /\ conn[cur] = "open"
    BY <1>1, <1>3 DEF RInv, ConnInv, AnswerInv, Serving
  <2>3. MessageEnd(r) # 0 /\ MessageEnd(r) <= sent[cur]
    BY <1>1, <1>3, <2>0, <2>1, CalledAtEnd
  <2>4. Called' = Called \cup {cur} /\ cur \notin Called
    <3>1. calls \in [Clients -> Seq(CallOfApp)]
      BY DEF IInv, TypeOK
    <3>2. calls' = [calls EXCEPT ![cur] = Append(@, AppCall)]
      BY <1>3 DEF dispatch
    <3>3. Append(calls[cur], AppCall) # <<>>
      BY <1>1, <3>1, LongerThanNothing
    <3>. QED BY <1>1, <2>2, <3>1, <3>2, <3>3 DEF Called
  <2>5. Phase' = Phase /\ Phase[cur] = "open"
    BY <1>1, <2>2 DEF Phase
  <2>6. PICK c : c = cur
    OBVIOUS
  <2>7. Promise!CallApp(c)
    BY <1>1, <2>0, <2>3, <2>4, <2>5, <2>6, SameEnd DEF Promise!CallApp, Called, Phase
  <2>. QED BY <1>1, <2>6, <2>7 DEF Promise!Next
<1>. QED BY <1>1, <1>2, <1>3

(* A piece that is sent is the next one of a response.                     *)
LEMMA SendPromise ==
  ASSUME IInv, RInv, Send
  PROVE  Promise!Next
<1>0. PICK c : c = cur
  OBVIOUS
<1>1. /\ pc = "send" /\ plan # <<>> /\ Head(plan) # "throw"
      /\ out' = [out EXCEPT ![c] = Append(@, Head(plan))]
      /\ UNCHANGED <<request, sent, conn, calls>>
  BY <1>0 DEF Send, TakePiece
<1>2. /\ c \in Clients /\ conn[c] = "open" /\ calls[c] # <<>> /\ plan \in Seq(Piece)
      /\ out \in [Clients -> Seq(Piece)] /\ out[c] \in Seq(Piece)
  BY <1>0, <1>1 DEF IInv, TypeOK, LoopInv, RInv, ConnInv, AnswerInv, Serving
<1>3. PICK r \in Results : out[c] \o plan = Plan(r)
  BY <1>0, <1>1 DEF RInv, AnswerInv
<1>4. PICK w : w = WholeResponse(r)
  OBVIOUS
<1>5. PICK o, n : o = out[c] /\ n = Len(out[c])
  OBVIOUS
<1>6. /\ o \in Seq(Piece) /\ n = Len(o) /\ n \in Nat /\ Len(plan) \in Nat \ {0}
      /\ Plan(r)[n + 1] = Head(plan) /\ Len(Plan(r)) = n + Len(plan)
      /\ \A i \in 1 .. n : Plan(r)[i] = o[i]
  <2>1. /\ o \in Seq(Piece) /\ n = Len(o) /\ n \in Nat /\ Len(plan) \in Nat \ {0}
        /\ o \o plan = Plan(r)
    BY <1>1, <1>2, <1>3, <1>5
  <2>2. Len(o \o plan) = n + Len(plan) /\ \A i \in 1 .. n : (o \o plan)[i] = o[i]
    BY <1>2, <2>1
  <2>3. (o \o plan)[n + 1] = Head(plan)
    BY <1>2, <2>1
  <2>. QED BY <2>1, <2>2, <2>3
<1>7. /\ w \in Seq(Piece) /\ \A i \in 1 .. Len(w) : w[i] = Plan(r)[i]
      /\ \A i \in 1 .. Len(Plan(r)) : i > Len(w) => Plan(r)[i] = "throw"
  BY <1>4, WholePlan
<1>8. n < Len(w)
  <2>1. n + 1 \in 1 .. Len(Plan(r)) /\ Plan(r)[n + 1] # "throw" /\ Len(w) \in Nat
    BY <1>1, <1>6, <1>7
  <2>. QED BY <1>6, <1>7, <2>1
<1>9. SubSeq(w, 1, n) = o
  <2>1. SubSeq(w, 1, n) \in Seq(Piece) /\ Len(SubSeq(w, 1, n)) = n
        /\ \A i \in 1 .. n : SubSeq(w, 1, n)[i] = w[i]
    BY <1>6, <1>7, <1>8
  <2>2. \A i \in 1 .. n : SubSeq(w, 1, n)[i] = o[i]
    BY <1>6, <1>7, <1>8, <2>1
  <2>. QED BY <1>6, <2>1, <2>2
<1>10. SubSeq(w, 1, n + 1) = Append(o, Head(plan))
  <2>. DEFINE u == SubSeq(w, 1, n + 1)  v == Append(o, Head(plan))
  <2>0. Head(plan) \in Piece
    BY <1>1, <1>2
  <2>1. u \in Seq(Piece) /\ Len(u) = n + 1 /\ \A i \in 1 .. n + 1 : u[i] = w[i]
    BY <1>6, <1>7, <1>8
  <2>2. /\ v \in Seq(Piece) /\ Len(v) = n + 1 /\ v[n + 1] = Head(plan)
        /\ \A i \in 1 .. n : v[i] = o[i]
    BY <1>6, <2>0
  <2>3. \A i \in 1 .. n + 1 : w[i] = IF i = n + 1 THEN Head(plan) ELSE o[i]
    BY <1>6, <1>7, <1>8
  <2>. HIDE DEF u, v
  <2>4. \A i \in 1 .. n + 1 : u[i] = v[i]
    BY <1>6, <2>1, <2>2, <2>3
  <2>5. u = v
    BY <1>6, <2>1, <2>2, <2>4
  <2>. QED BY <2>5 DEF u, v
<1>11. out' = [out EXCEPT ![c] = SubSeq(w, 1, Len(@) + 1)]
  BY <1>1, <1>2, <1>5, <1>10
<1>12. Called' = Called /\ c \in Called /\ Phase' = Phase /\ Phase[c] = "open"
  BY <1>1, <1>2 DEF Called, Phase
<1>13. Promise!Answer(c)
  <2>1. w \in {WholeResponse(x) : x \in Results}
    BY <1>4
  <2>. QED BY <1>1, <1>5, <1>8, <1>9, <1>11, <1>12, <2>1 DEF Promise!Answer, Called, Phase
<1>. QED BY <1>2, <1>13 DEF Promise!Next

(* The other actions of the server are none of Jsgi's. *)
LEMMA NextPromise ==
  ASSUME IInv, RInv, \A r \in Requests : ~Chunked(r), [Next]_vars
  PROVE  [Promise!Next]_(Promise!vars)
<1>1. CASE \/ Start \/ AcceptError \/ HasRoom \/ Realloc \/ OutOfMemory \/ Recv \/ ReadOn
           \/ App \/ SendThrows \/ Responded \/ UNCHANGED vars
  <2>1. UNCHANGED <<request, sent, conn, calls, out>>
    BY <1>1
       DEF Start, AcceptError, HasRoom, Realloc, OutOfMemory, Recv, ReadOn, App, SendThrows,
           Responded, vars, jillVars, replyVars, socketVars
  <2>. QED BY <2>1, SeenKept DEF Phase
<1>. QED
  BY <1>1, ClientPromise, AcceptPromise, ClosePromise, CallPromise, SendPromise DEF Next, Server

(* The initial states are initial states of Jsgi. *)
LEMMA InitPromise == Init => Promise!Init
<1>. SUFFICES ASSUME Init PROVE Promise!Init
  OBVIOUS
<1>1. /\ request \in [Clients -> Requests] /\ sent = [c \in Clients |-> 0]
      /\ Called = {} /\ Phase = [c \in Clients |-> "waiting"] /\ out = [c \in Clients |-> <<>>]
  BY DEF Init, SocketsInit, Called, Phase
<1>. QED BY <1>1 DEF Promise!Init, Called, Phase

(* Jill serves one connection at a time, calls the application once for a  *)
(* connection and not before the whole request has been sent, and sends    *)
(* pieces of one response in order after that, whatever recv() returns and *)
(* wherever a send() fails (jill.cc:408-548, 599-697).  Chunked requests   *)
(* are left out: on_headers_complete dispatches them before their body     *)
(* (jill.cc:532-535).                                                      *)
THEOREM JillImplementsJsgi ==
  ASSUME \A r \in Requests : ~Chunked(r)
  PROVE  Spec => ImplementsJsgi
<1>1. IInv /\ RInv /\ [Next]_vars => [Promise!Next]_(Promise!vars)
  BY NextPromise
<1>. QED BY <1>1, InitPromise, InTurn, PTL DEF Spec, ImplementsJsgi, Promise!Spec

-----------------------------------------------------------------------------
(***************************************************************************)
(* The body of a request that is not chunked.                              *)
(***************************************************************************)

(* A row of cells that follow one another is what was sent at their places. *)
LEMMA RowIs ==
  ASSUME NEW c, NEW a \in Nat, NEW n \in Nat, NEW t, t = [i \in 1 .. n |-> <<c, a + i>>]
  PROVE  Is(t, c, a + 1 .. a + n)
<1>1. CellsOf(t) = Sent(c, a + 1 .. a + n)
  <2>1. ASSUME NEW x \in CellsOf(t) PROVE x \in Sent(c, a + 1 .. a + n)
    <3>1. PICK i \in 1 .. n : x = <<c, a + i>>
      BY DEF CellsOf
    <3>2. a + i \in a + 1 .. a + n
      OBVIOUS
    <3>. QED BY <3>1, <3>2 DEF Sent
  <2>2. ASSUME NEW x \in Sent(c, a + 1 .. a + n) PROVE x \in CellsOf(t)
    <3>1. PICK j \in a + 1 .. a + n : x = <<c, j>>
      BY DEF Sent
    <3>2. j - a \in 1 .. n /\ a + (j - a) = j
      OBVIOUS
    <3>3. t[j - a] = <<c, j>>
      BY <3>2
    <3>. QED BY <3>1, <3>2, <3>3 DEF CellsOf
  <2>. QED BY <2>1, <2>2
<1>2. InOrder(t)
  BY DEF InOrder
<1>3. Len(t) = n
  OBVIOUS
<1>4. Cardinality(a + 1 .. a + n) = n
  BY FS_Interval
<1>. QED BY <1>1, <1>2, <1>3, <1>4 DEF Is

(* The NULs after the parts of the head fall before the body. *)
LEMMA CutBefore ==
  ASSUME TypeOK, ExtentInv, NameInv, NEW h \in Nat,
         \A f \in Field : off[f] >= 0 => off[f] + len[f] < h
  PROVE  \A z \in h .. bufferSize - 1 : QueryMem[z] = mem[z]
<1>. DEFINE Spared(m) == m \in Buffer /\ \A z \in h .. bufferSize - 1 : m[z] = mem[z]
<1>0. bufferSize \in Nat /\ Spared(mem) /\ off \in [Part -> Nat \cup {-1}] /\ Field \subseteq Part
  BY DEF TypeOK, Buffer, Part
<1>1. ASSUME NEW f \in Field, off[f] >= 0, NEW m, Spared(m)
      PROVE  Spared(Terminate(m, f))
  <2>0. f \in Part /\ len \in [Part -> Nat]
    BY <1>0 DEF TypeOK
  <2>1. off[f] + len[f] < h /\ off[f] + len[f] \in Int
    BY <1>0, <1>1, <2>0
  <2>2. Nul \in Byte
    BY DEF Byte
  <2>3. Terminate(m, f) \in Buffer
    BY <1>1, <2>2 DEF Terminate, Buffer
  <2>4. \A z \in h .. bufferSize - 1 : Terminate(m, f)[z] = m[z]
    BY <1>0, <1>1, <2>1 DEF Terminate, Buffer
  <2>. QED BY <1>1, <2>3, <2>4
<1>. HIDE DEF Spared
<1>2. Spared(HeaderMem)
  <2>1. HeaderPending => off["name"] >= 0 /\ off["value"] >= 0
    BY DEF NameInv, HeaderPending, ExtentInv, Part, Field
  <2>2. "name" \in Field /\ "value" \in Field
    BY DEF Field
  <2>. QED BY <1>0, <1>1, <2>1, <2>2 DEF HeaderMem
<1>3. "path" \in Field /\ "query" \in Field /\ "path" \in Part /\ "query" \in Part
  BY DEF Field, Part
<1>4. ~(off["path"] < 0) => off["path"] >= 0
  BY <1>0, <1>3
<1>5. ~(off["query"] < 0) => off["query"] >= 0
  BY <1>0, <1>3
<1>6. Spared(PathMem)
  BY <1>1, <1>2, <1>3, <1>4 DEF PathMem
<1>7. Spared(QueryMem)
  BY <1>1, <1>3, <1>5, <1>6 DEF QueryMem
<1>. QED BY <1>7 DEF Spared

(* The one step that calls the application hands it the whole body. *)
LEMMA EntireBodyStep ==
  ASSUME \A r \in Requests : ~Chunked(r) /\ BodyDeclared(r),
         IInv, RInv, EntireBody, [Next]_vars
  PROVE  EntireBody'
<1>1. CASE UNCHANGED <<request, calls>>
  BY <1>1 DEF EntireBody
<1>2. CASE Execute
  <2>1. /\ pc = "exec" /\ cur \in Clients /\ UNCHANGED request
        /\ Here \in Cell /\ ParserStep(Here) /\ step # "idle"
        /\ \/ UNCHANGED calls
           \/ /\ dispatch /\ ~complete
              /\ \/ Callback(Here).on = "headers_complete" /\ content_length < 0
                 \/ Callback(Here).on = "message_complete"
    BY <1>2, ExecuteFrame DEF Execute
  <2>2. CASE UNCHANGED calls
    BY <1>1, <2>1, <2>2
  <2>3. CASE /\ dispatch /\ ~complete
             /\ \/ Callback(Here).on = "headers_complete" /\ content_length < 0
                \/ Callback(Here).on = "message_complete"
    <3>1. PICK c, r : c = cur /\ r = request[cur]
      OBVIOUS
    <3>2. r \in Requests /\ ~Chunked(r) /\ BodyDeclared(r) /\ c \in Clients
      BY <2>1, <3>1 DEF IInv, TypeOK, SocketsTypeOK
    <3>3. /\ MessageEnd(r) # 0
          /\ \/ off["body"] = -1 /\ MessageEnd(r) = HeadEnd(r)
             \/ BodyRead(r) /\ MessageEnd(r) = p /\ HeadEnd(r) \in 1 .. p
      BY <2>1, <2>3, <3>1, <3>2, CalledAtEnd
    <3>4. BodyPlaces(r) = HeadEnd(r) + 1 .. MessageEnd(r)
      BY <3>2, <3>3 DEF BodyDeclared
    <3>5. off["body"] \in Nat \cup {-1} /\ len["body"] \in Nat /\ p \in Nat
          /\ calls \in [Clients -> Seq(CallOfApp)] /\ calls[c] = <<>>
      BY <2>1, <2>3, <3>1, <3>2
         DEF IInv, TypeOK, ParserTypeOK, Part, RInv, AnswerInv, Serving
    <3>6. Is(AppCall.body, c, BodyPlaces(r))
      <4>1. CASE off["body"] = -1
        <5>1. AppCall.body = <<>>
          BY <4>1 DEF AppCall
        <5>2. MessageEnd(r) = HeadEnd(r) /\ HeadEnd(r) \in Nat
          <6>1. HeadEnd(r) \in Nat
            BY <3>1, <3>2, <3>3, HeadEndType, SocketsAssumption
          <6>. QED BY <3>3, <4>1, <6>1 DEF BodyRead
        <5>3. Is([i \in 1 .. 0 |-> <<c, HeadEnd(r) + i>>], c, HeadEnd(r) + 1 .. HeadEnd(r) + 0)
          BY <5>2, RowIs
        <5>4. [i \in 1 .. 0 |-> <<c, HeadEnd(r) + i>>] = <<>> /\ HeadEnd(r) + 0 = HeadEnd(r)
          BY <5>2
        <5>. QED BY <3>4, <5>1, <5>2, <5>3, <5>4
      <4>2. CASE off["body"] # -1
        <5>. DEFINE a == HeadEnd(r)  n == len["body"]
        <5>1. /\ a \in Nat /\ n \in Nat /\ off["body"] = a /\ a + n = p /\ MessageEnd(r) = p
              /\ \A i \in a .. p - 1 : mem[i] = <<c, i + 1>>
          BY <3>1, <3>3, <3>5, <4>2 DEF BodyRead
        <5>2. AppCall.body = [i \in 1 .. n |-> QueryMem[a + i - 1]]
          BY <4>2, <3>5, <5>1 DEF AppCall
        <5>6. p <= bufferSize /\ bufferSize \in Nat
          BY DEF IInv, TypeOK, ParserTypeOK, LoopInv, ParserInv, MarkInv
        <5>7. \A z \in a .. bufferSize - 1 : QueryMem[z] = mem[z]
          <6>1. \A f \in Field : off[f] >= 0 => off[f] + len[f] < a
            BY <3>3, <4>2, <5>1 DEF BodyRead
          <6>. QED BY <5>1, <6>1, CutBefore DEF IInv
        <5>. HIDE DEF a, n
        <5>3. \A i \in 1 .. n : QueryMem[a + i - 1] = <<c, a + i>>
          <6>1. ASSUME NEW i \in 1 .. n PROVE QueryMem[a + i - 1] = <<c, a + i>>
            <7>1. a + i - 1 \in a .. p - 1 /\ a + i - 1 + 1 = a + i
              BY <3>5, <5>1
            <7>2. a + i - 1 \in a .. bufferSize - 1
              BY <3>5, <5>1, <5>6, <7>1
            <7>. QED BY <5>1, <5>7, <7>1, <7>2
          <6>. QED BY <6>1
        <5>4. AppCall.body = [i \in 1 .. n |-> <<c, a + i>>]
          BY <5>2, <5>3
        <5>5. Is(AppCall.body, c, a + 1 .. a + n)
          BY <5>1, <5>4, RowIs
        <5>. QED BY <3>4, <5>1, <5>5 DEF a
      <4>. QED BY <4>1, <4>2
    <3>7. calls' = [calls EXCEPT ![c] = <<AppCall>>]
      <4>1. calls' = [calls EXCEPT ![c] = Append(calls[c], AppCall)]
        BY <2>3, <3>1 DEF dispatch
      <4>2. Append(calls[c], AppCall) = <<AppCall>>
        BY <3>5
      <4>. QED BY <4>1, <4>2
    <3>. SUFFICES ASSUME NEW d \in Clients, NEW i \in DOMAIN calls'[d]
                  PROVE  Is(calls'[d][i].body, d, BodyPlaces(request'[d]))
      BY DEF EntireBody
    <3>8. CASE d = c
      <4>1. calls'[d] = <<AppCall>>
        BY <3>2, <3>5, <3>7, <3>8
      <4>2. i = 1 /\ calls'[d][i] = AppCall
        BY <4>1
      <4>. QED BY <2>1, <3>1, <3>6, <3>8, <4>2
    <3>9. CASE d # c
      <4>1. calls'[d] = calls[d]
        BY <3>5, <3>7, <3>9
      <4>. QED BY <2>1, <4>1 DEF EntireBody
    <3>. QED BY <3>8, <3>9
  <2>. QED BY <2>1, <2>2, <2>3
<1>3. CASE \/ Start \/ Accept \/ AcceptError \/ HasRoom \/ Realloc \/ OutOfMemory \/ Recv
           \/ RecvError \/ CloseClient \/ ReadOn \/ App \/ Send \/ SendThrows \/ Responded
           \/ UNCHANGED vars \/ \E c \in Clients : Client(c)
  BY <1>1, <1>3
     DEF Start, Accept, AcceptConnection, AcceptError, HasRoom, Realloc, OutOfMemory, Recv,
         RecvError, CloseClient, Close, CloseConnection, TakePiece, ReadOn, App, Send, SendThrows,
         Responded, vars, jillVars, replyVars, socketVars, Client, ClientStep, Connect, SendCell,
         HangUp, TakeAnswer
<1>. QED BY <1>2, <1>3 DEF Next, Server

(* The application gets the body of a request that is not chunked as its   *)
(* client sent it, however it was cut into recv() calls and whatever was   *)
(* written into the buffer before it (jill.cc:502-548).                    *)
THEOREM BodyIsEntire ==
  ASSUME \A r \in Requests : ~Chunked(r) /\ BodyDeclared(r)
  PROVE  Spec => []EntireBody
<1>1. Init => EntireBody
  <2>1. Init => \A c \in Clients : DOMAIN calls[c] = {}
    BY DEF Init
  <2>. QED BY <2>1 DEF EntireBody
<1>2. IInv /\ RInv /\ EntireBody /\ [Next]_vars => EntireBody'
  BY EntireBodyStep
<1>. QED BY <1>1, <1>2, InTurn, PTL DEF Spec
=============================================================================
