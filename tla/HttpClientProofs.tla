-------------------------- MODULE HttpClientProofs --------------------------
(***************************************************************************)
(* Proofs about HttpClient, for any transfers that curl may log, any size  *)
(* of pipe and any chunk: ClientTypeOK, FailureTold and ResponseKnown.     *)
(***************************************************************************)
EXTENDS HttpClient, FiniteSetTheorems, FunctionTheorems, WellFoundedInduction, SequenceTheorems, TLAPS

(* The channels between the script and curl. *)
Known(s) == Len(got[curl][s])
ChannelInv ==
  /\ state \in [Children -> {"new", "running", "ended"}] /\ shut \in SUBSET Children
  /\ written \in [Children -> [Stream -> Nat]]
  /\ got \in [Children -> [Stream -> Seq(Children \X Stream \X Nat)]]
  /\ told \in [Children -> [Stream -> BOOLEAN]]
  /\ \A s \in Stream : written[curl][s] - Known(s) \in 0..Room
  /\ \A s \in {"out", "err"} :
       told[curl][s] => state[curl] = "ended" /\ Known(s) = written[curl][s]

(* What the client knows is what the lines that it has read say: before a  *)
(* status, nothing; then, the status and of the n headers right behind it  *)
(* the last of each name.  It leaves the log at a failure, behind the      *)
(* headers, or at the end.                                                 *)
AllRead == told[curl]["err"]
NoAnswerYet ==
  /\ \A j \in 1 .. Known("err") : ErrLine(j) \notin Success
  /\ IF at = "stderr" THEN \A j \in 1 .. Known("err") : ErrLine(j) \notin Failure
     ELSE AllRead \/ \E j \in 1 .. Known("err") : ErrLine(j) \in Failure
IsLast(f, n, name, j) ==
  ErrLine(f + j) = name /\ \A i \in 1..n : ErrLine(f + i) = name => i <= j
HeaderKnown(f, n, name) ==
  \/ headers[name] = 0 /\ \A j \in 1..n : ErrLine(f + j) # name
  \/ \E j \in 1..n : headers[name] = f + j /\ IsLast(f, n, name, j)
HeadFrom(f, n) ==
  /\ ErrLine(f) \in Success /\ status = ErrLine(f) /\ f + n <= Known("err")
  /\ \A j \in 1..n : ErrLine(f + j) \in Names
  /\ \A name \in Names : HeaderKnown(f, n, name)
  /\ IF at = "stderr" THEN Known("err") = f + n
     ELSE \/ AllRead /\ Known("err") = f + n
          \/ Known("err") > f + n /\ ErrLine(f + n + 1) \notin Names
LogInv ==
  /\ phase = 0 => at # "stderr" /\ Known("err") = 0
  /\ phase \in {0, 1} => status = "none" /\ headers = NoHeaders
  /\ phase = 1 => NoAnswerYet
  /\ phase = 2 => \E f \in 1 .. Known("err"), n \in Nat : HeadFrom(f, n)

(* Only one more wait() can come, and what a read() to the end has said of *)
(* the first one is true, unless a signal ended curl.                      *)
WaitInv ==
  /\ at \in {"stderr", "stdout", "wait"} => waits < 2
  /\ at = "wait" => told[curl]["out"]
  /\ mode = "all" /\ at \in {"idle", "write"} /\ outcome = "end" /\ waits <= 1 =>
       killed \/ (plan.exit = 0 /\ told[curl]["out"])

(* What curl has logged and written is what it has done of its plan, and   *)
(* it does all of it unless a signal ends it.                              *)
PlanInv ==
  /\ written[curl]["err"] = LineNumber(done)
  /\ written[curl]["out"] + written[curl]["err"] = done
  /\ state[curl] = "ended" => killed \/ done = Len(plan.does)

ClientInv == ClientTypeOK /\ ChannelInv /\ LogInv /\ WaitInv /\ PlanInv

-----------------------------------------------------------------------------
(***************************************************************************)
(* The lines of the log.                                                   *)
(***************************************************************************)
Less == {pair \in Nat \X Nat : pair[1] < pair[2]}

(* A set of numbers has a least element. *)
LEMMA LeastNumber ==
  ASSUME NEW S \in SUBSET Nat, S # {}
  PROVE  \E s \in S : \A g \in S : s <= g
<1>1. IsWellFoundedOn(Less, Nat)
  BY NatLessThanWellFounded, Zenon DEF OpToRel, Less
<1>2. PICK s \in S : \A g \in S : <<g, s>> \notin Less
  BY <1>1, WFMin
<1>3. ASSUME NEW g \in S PROVE s <= g
  <2>1. s \in Nat /\ g \in Nat /\ <<g, s>> \notin Less
    BY <1>2
  <2>2. ~(g < s)
    BY <2>1, Zenon DEF Less
  <2> QED
    BY <2>1, <2>2
<1> QED
  BY <1>3

(* ... and one that has a bound, a greatest. *)
LEMMA GreatestNumber ==
  ASSUME NEW S \in SUBSET Nat, S # {}, NEW n \in Nat, \A s \in S : s <= n
  PROVE  \E s \in S : \A g \in S : g <= s
<1> DEFINE T == {n - s : s \in S}
<1>1. T \in SUBSET Nat /\ T # {}
  <2>1. \A s \in S : n - s \in Nat
    OBVIOUS
  <2> QED
    BY <2>1
<1>2. PICK t \in T : \A g \in T : t <= g
  BY <1>1, LeastNumber
<1>3. PICK s \in S : t = n - s
  BY <1>2
<1>4. ASSUME NEW g \in S PROVE g <= s
  <2>1. n - g \in T
    OBVIOUS
  <2>2. n - s <= n - g
    BY <1>2, <1>3, <2>1
  <2> QED
    BY <2>2
<1> QED
  BY <1>4

(* The length of curl's plan, and how lines are counted in it. *)
PlanOK == plan \in [does : Seq(Items), exit : Nat, reads : BOOLEAN]

LEMMA PlanIs ==
  ASSUME PlanOK
  PROVE  /\ Len(plan.does) \in Nat /\ DOMAIN plan.does = 1 .. Len(plan.does)
         /\ plan.exit \in Nat
         /\ \A i \in 1 .. Len(plan.does) : plan.does[i] \in Items
         /\ \A S : Where(S) \subseteq 1 .. Len(plan.does)
<1>1. plan.does \in Seq(Items) /\ plan.exit \in Nat
  BY DEF PlanOK
<1>2. Len(plan.does) \in Nat /\ DOMAIN plan.does = 1 .. Len(plan.does)
  BY <1>1, LenProperties
<1>3. \A i \in 1 .. Len(plan.does) : plan.does[i] \in Items
  BY <1>1, ElementOfSeq
<1> QED
  BY <1>1, <1>2, <1>3 DEF Where

LEMMA LinesCount ==
  ASSUME PlanOK, NEW i \in 0 .. Len(plan.does)
  PROVE  /\ IsFiniteSet({j \in Where(Lines) : j <= i})
         /\ LineNumber(i) \in 0 .. i /\ LineNumber(i) \in Nat
<1> DEFINE S == {j \in Where(Lines) : j <= i}
<1>1. i \in Nat /\ S \subseteq 1..i
  BY PlanIs
<1>2. IsFiniteSet(1..i) /\ Cardinality(1..i) = i
  <2>1. Cardinality(1..i) = IF 1 > i THEN 0 ELSE i - 1 + 1
    BY <1>1, FS_Interval
  <2> QED
    BY <1>1, <2>1, FS_Interval
<1> HIDE DEF S
<1>3. IsFiniteSet(S) /\ Cardinality(S) <= i /\ Cardinality(S) \in Nat
  BY <1>1, <1>2, FS_Subset, FS_CardinalityType
<1> QED
  BY <1>1, <1>3 DEF LineNumber, S

LEMMA LineNumberNext ==
  ASSUME PlanOK, NEW i \in 0 .. Len(plan.does) - 1
  PROVE  LineNumber(i + 1) = IF i + 1 \in Where(Lines) THEN LineNumber(i) + 1 ELSE LineNumber(i)
<1> DEFINE S == {j \in Where(Lines) : j <= i}
           T == {j \in Where(Lines) : j <= i + 1}
<1>1. Len(plan.does) \in Nat /\ i \in Nat /\ i \in 0 .. Len(plan.does)
      /\ Where(Lines) \subseteq 1 .. Len(plan.does)
  BY PlanIs
<1>2. IsFiniteSet(S)
  BY <1>1, LinesCount
<1>3. CASE i + 1 \in Where(Lines)
  <2>1. T = S \cup {i + 1} /\ i + 1 \notin S
    BY <1>1, <1>3
  <2> HIDE DEF S, T
  <2>2. Cardinality(T) = Cardinality(S) + 1
    BY <1>2, <2>1, FS_AddElement
  <2> QED
    BY <1>3, <2>2 DEF LineNumber, S, T
<1>4. CASE i + 1 \notin Where(Lines)
  <2>1. T = S
    BY <1>1, <1>4
  <2> QED
    BY <1>4, <2>1 DEF LineNumber
<1> QED
  BY <1>3, <1>4

LEMMA LineNumberZero ==
  ASSUME PlanOK
  PROVE  LineNumber(0) = 0
<1>1. 0 \in 0 .. Len(plan.does)
  BY PlanIs
<1>2. LineNumber(0) \in 0 .. 0
  BY <1>1, LinesCount
<1> QED
  BY <1>2

LEMMA LineNumberGrows ==
  ASSUME PlanOK, NEW i \in 0 .. Len(plan.does), NEW j \in i .. Len(plan.does)
  PROVE  LineNumber(i) <= LineNumber(j)
<1> DEFINE S == {h \in Where(Lines) : h <= i}
           T == {h \in Where(Lines) : h <= j}
<1>1. Len(plan.does) \in Nat /\ i \in Nat /\ j \in 0 .. Len(plan.does)
      /\ Where(Lines) \subseteq 1 .. Len(plan.does)
  BY PlanIs
<1>2. IsFiniteSet(T) /\ S \subseteq T
  <2>1. IsFiniteSet(T)
    BY <1>1, LinesCount
  <2>2. S \subseteq T
    BY <1>1
  <2> QED
    BY <2>1, <2>2
<1> HIDE DEF S, T
<1>3. Cardinality(S) <= Cardinality(T)
  BY <1>2, FS_Subset
<1> QED
  BY <1>3 DEF LineNumber, S, T

(* Lines are numbered in their order, from 1. *)
LEMMA LinesInOrder ==
  ASSUME PlanOK, NEW i \in 0 .. Len(plan.does), NEW j \in Where(Lines), i < j
  PROVE  LineNumber(i) < LineNumber(j)
<1>1. Len(plan.does) \in Nat /\ i \in Nat /\ Where(Lines) \subseteq 1 .. Len(plan.does)
  BY PlanIs
<1>2. j - 1 \in i .. Len(plan.does) /\ j - 1 \in 0 .. Len(plan.does) - 1
  BY <1>1
<1>3. LineNumber(i) <= LineNumber(j - 1)
  BY <1>2, LineNumberGrows
<1>4. (j - 1) + 1 = j
  BY <1>1
<1>5. LineNumber(j) = LineNumber(j - 1) + 1
  BY <1>2, <1>4, LineNumberNext
<1>6. LineNumber(i) \in Nat /\ LineNumber(j - 1) \in Nat
  <2>1. j - 1 \in 0 .. Len(plan.does)
    BY <1>1, <1>2
  <2> QED
    BY <2>1, LinesCount
<1> QED
  BY <1>3, <1>5, <1>6

(* Each number up to the last is the number of one line. *)
LEMMA LineAtIs ==
  ASSUME PlanOK, NEW m \in 0 .. Len(plan.does), NEW k \in 1 .. LineNumber(m)
  PROVE  LineAt(k) \in Where(Lines) /\ LineAt(k) <= m /\ LineNumber(LineAt(k)) = k
<1> DEFINE S == {i \in 0 .. m : LineNumber(i) >= k}
<1>1. Len(plan.does) \in Nat /\ m \in Nat /\ Where(Lines) \subseteq 1 .. Len(plan.does)
      /\ \A i \in 0 .. m : LineNumber(i) \in Nat
  <2>1. Len(plan.does) \in Nat /\ m \in Nat /\ Where(Lines) \subseteq 1 .. Len(plan.does)
    BY PlanIs
  <2>2. ASSUME NEW i \in 0 .. m PROVE LineNumber(i) \in Nat
    <3>1. i \in 0 .. Len(plan.does) /\ i \in Nat
      BY <2>1
    <3> QED
      BY <3>1, LinesCount
  <2> QED
    BY <2>1, <2>2
<1>2. S \subseteq Nat /\ S # {}
  <2>1. m \in S
    BY <1>1
  <2> QED
    BY <2>1
<1>3. PICK i \in S : \A g \in S : i <= g
  BY <1>2, LeastNumber
<1>4. i \in 0 .. m /\ LineNumber(i) >= k /\ k \in Nat \ {0}
  BY <1>1
<1>5. i # 0
  BY <1>4, LineNumberZero
<1>6. i - 1 \in 0 .. m /\ i - 1 \in 0 .. Len(plan.does) - 1 /\ (i - 1) + 1 = i
  BY <1>1, <1>4, <1>5
<1>7. LineNumber(i - 1) < k
  <2>1. i - 1 \notin S
    BY <1>3, <1>4
  <2> QED
    BY <1>1, <1>4, <1>6, <2>1
<1>8. LineNumber(i) = IF i \in Where(Lines) THEN LineNumber(i - 1) + 1 ELSE LineNumber(i - 1)
  BY <1>6, LineNumberNext
<1>9. i \in Where(Lines) /\ LineNumber(i) = k
  BY <1>1, <1>4, <1>6, <1>7, <1>8
<1>10. LineAt(k) \in Where(Lines) /\ LineNumber(LineAt(k)) = k
  BY <1>9, Zenon DEF LineAt
<1>11. LineAt(k) <= m
  <2> SUFFICES ASSUME i < LineAt(k) PROVE FALSE
    BY <1>1, <1>4, <1>10
  <2>1. i \in 0 .. Len(plan.does)
    BY <1>1, <1>4
  <2>2. LineNumber(i) < LineNumber(LineAt(k))
    BY <1>10, <2>1, LinesInOrder
  <2> QED
    BY <1>4, <1>9, <1>10, <2>2
<1> QED
  BY <1>10, <1>11

(* A line is the one at its number. *)
LEMMA LineAtNumber ==
  ASSUME PlanOK, NEW i \in Where(Lines)
  PROVE  /\ LineNumber(i) \in 1 .. LineNumber(Len(plan.does))
         /\ LineAt(LineNumber(i)) = i
<1> DEFINE N == Len(plan.does)
           j == LineAt(LineNumber(i))
<1>1. N \in Nat /\ Where(Lines) \subseteq 1 .. N /\ N \in 0 .. N /\ i \in 0 .. N
      /\ N \in i .. N /\ 0 \in 0 .. N
  BY PlanIs
<1>2. LineNumber(i) \in Nat /\ LineNumber(N) \in Nat
  BY <1>1, LinesCount
<1>3. LineNumber(0) < LineNumber(i) /\ LineNumber(0) = 0
  BY <1>1, LinesInOrder, LineNumberZero
<1>4. LineNumber(i) <= LineNumber(N)
  BY <1>1, LineNumberGrows
<1>5. LineNumber(i) \in 1 .. LineNumber(N)
  BY <1>2, <1>3, <1>4
<1>6. j \in Where(Lines) /\ LineNumber(j) = LineNumber(i)
  BY <1>1, <1>5, LineAtIs
<1>7. j \in 0 .. N
  BY <1>1, <1>6
<1>8. ~(i < j)
  BY <1>1, <1>2, <1>6, LinesInOrder
<1>9. ~(j < i)
  BY <1>2, <1>6, <1>7, LinesInOrder
<1>10. j = i
  <2> HIDE DEF j
  <2> QED
    BY <1>1, <1>7, <1>8, <1>9
<1> QED
  BY <1>5, <1>10

-----------------------------------------------------------------------------
(***************************************************************************)
(* The channels.                                                           *)
(***************************************************************************)
LEMMA NextChannel ==
  ASSUME ChannelInv, [Next]_vars
  PROVE  ChannelInv' /\ (told[curl]["err"] => UNCHANGED got[curl]["err"])
<1>0. Children = {curl} /\ Room \in Nat \ {0} /\ curl \in Children
      /\ "err" \in Stream /\ "out" \in Stream /\ written \in [Children -> [Stream -> Nat]]
  BY HttpClientAssumption DEF Stream, ChannelInv
<1> DEFINE B == Children \X Stream \X Nat
<1>1. \A s \in Stream : /\ got[curl][s] \in Seq(B) /\ Known(s) \in Nat /\ written[curl][s] \in Nat
                        /\ told[curl][s] \in BOOLEAN
  <2> SUFFICES ASSUME NEW s \in Stream
               PROVE  /\ got[curl][s] \in Seq(B) /\ Known(s) \in Nat /\ written[curl][s] \in Nat
                      /\ told[curl][s] \in BOOLEAN
    OBVIOUS
  <2>1. got[curl][s] \in Seq(B) /\ written[curl][s] \in Nat /\ told[curl][s] \in BOOLEAN
    BY <1>0 DEF ChannelInv
  <2> QED
    BY <2>1, LenProperties DEF Known
<1>2. ASSUME NEW c \in Children, Start(c) \/ End(c)
      PROVE  ChannelInv' /\ (told[curl]["err"] => UNCHANGED got[curl]["err"])
  BY <1>0, <1>2 DEF Start, End, ChannelInv, Known
<1>3. ASSUME NEW c \in Children, NEW s \in Stream, Write(c, s)
      PROVE  ChannelInv' /\ (told[curl]["err"] => UNCHANGED got[curl]["err"])
  <2>1. /\ c = curl /\ written' = [written EXCEPT ![curl][s] = @ + 1]
        /\ written[curl][s] - Known(s) < Room /\ UNCHANGED <<state, shut, got, told>>
        /\ s \in {"out", "err"} => state[curl] = "running"
    BY <1>0, <1>3 DEF Write, Writing, Known
  <2>2. /\ written'[curl][s] = written[curl][s] + 1
        /\ \A r \in Stream \ {s} : written'[curl][r] = written[curl][r]
        /\ written' \in [Children -> [Stream -> Nat]]
    BY <1>0, <2>1
  <2>3. \A r \in Stream : (written[curl][r] - Known(r))' \in 0..Room
    BY SMTT(40), <1>0, <1>1, <2>1, <2>2 DEF ChannelInv, Known
  <2>4. \A r \in {"out", "err"} : told[curl][r] => s # r
    BY <2>1 DEF ChannelInv
  <2>5. /\ (\A r \in {"out", "err"} :
              told[curl][r] => state[curl] = "ended" /\ Known(r) = written[curl][r])'
        /\ UNCHANGED got[curl]["err"]
    BY SMTT(40), <1>0, <2>1, <2>2, <2>4 DEF ChannelInv, Known
  <2> QED
    BY <2>1, <2>2, <2>3, <2>5 DEF ChannelInv
<1>4. ASSUME NEW c \in Children, NEW s \in Stream, Read(c, s)
      PROVE  ChannelInv' /\ (told[curl]["err"] => UNCHANGED got[curl]["err"])
  <2> DEFINE b == <<curl, s, Len(got[curl][s]) + 1>>
             h == Append(got[curl][s], b)
  <2>1. /\ c = curl /\ got' = [got EXCEPT ![curl][s] = h]
        /\ Known(s) < written[curl][s] /\ ~told[curl][s] /\ UNCHANGED <<state, shut, written, told>>
    BY <1>0, <1>4 DEF Read, Known
  <2>2. b \in B
    BY <1>0, <1>1 DEF Known
  <2>3. h \in Seq(B) /\ Len(h) = Len(got[curl][s]) + 1
    <3> HIDE DEF b, B
    <3> QED
      BY <1>1, <2>2, AppendProperties
  <2> HIDE DEF h
  <2>4. /\ got'[curl][s] = h
        /\ \A r \in Stream \ {s} : got'[curl][r] = got[curl][r]
        /\ got' \in [Children -> [Stream -> Seq(B)]]
    BY <1>0, <2>1, <2>3 DEF ChannelInv
  <2>5. \A r \in Stream : (written[curl][r] - Known(r))' \in 0..Room
    <3> SUFFICES ASSUME NEW r \in Stream PROVE (written[curl][r] - Known(r))' \in 0..Room
      OBVIOUS
    <3>1. CASE r = s
      <4>1. Known(s)' = Known(s) + 1 /\ written'[curl][s] = written[curl][s]
        BY <2>1, <2>3, <2>4 DEF Known
      <4>2. written[curl][s] - Known(s) \in 0..Room
        BY DEF ChannelInv
      <4> QED
        BY <1>0, <1>1, <2>1, <3>1, <4>1, <4>2
    <3>2. CASE r # s
      BY <1>0, <1>1, <2>1, <2>4, <3>2 DEF ChannelInv, Known
    <3> QED
      BY <3>1, <3>2
  <2>6. \A r \in {"out", "err"} : told[curl][r] => got'[curl][r] = got[curl][r]
    BY <1>0, <2>1, <2>4
  <2> QED
    BY SMTT(40), <2>1, <2>4, <2>5, <2>6 DEF ChannelInv, Known
<1>5. ASSUME NEW c \in Children, NEW s \in Stream, Tell(c, s)
      PROVE  ChannelInv' /\ (told[curl]["err"] => UNCHANGED got[curl]["err"])
  <2>1. /\ c = curl /\ told' = [told EXCEPT ![curl][s] = TRUE]
        /\ UNCHANGED <<state, shut, written, got>>
        /\ s \in {"out", "err"} => state[curl] = "ended" /\ Known(s) = written[curl][s]
    BY <1>0, <1>5 DEF Tell, Writing, ChannelInv, Known
  <2>2. /\ told' \in [Children -> [Stream -> BOOLEAN]]
        /\ \A r \in {"out", "err"} : s # r => told'[curl][r] = told[curl][r]
    BY ZenonT(40), <1>0, <2>1 DEF ChannelInv
  <2> QED
    BY <2>1, <2>2 DEF ChannelInv, Known
<1>6. ASSUME NEW S \in SUBSET Children, Shut(S)
      PROVE  ChannelInv' /\ (told[curl]["err"] => UNCHANGED got[curl]["err"])
  BY <1>6 DEF Shut, ChannelInv, Known
<1>7. CASE UNCHANGED vars
  BY <1>7 DEF vars, ChannelInv, Known
<1> QED
  BY <1>2, <1>3, <1>4, <1>5, <1>6, <1>7 DEF Next

-----------------------------------------------------------------------------
(***************************************************************************)
(* Each step of the client.                                                *)
(***************************************************************************)

(* Whatever the client and curl do to their channels, channels allow.      *)
LEMMA StepsOfChannels ==
  ASSUME [HttpNext]_httpVars
  PROVE  [Next]_vars
<1>0. Children = {curl} /\ curl \in Children /\ {curl} \in SUBSET Children
      /\ "in" \in Stream /\ "out" \in Stream /\ "err" \in Stream
  BY HttpClientAssumption DEF Stream
<1>1. CASE Curl \/ CurlKilled
  <2>1. \A item : StreamOf(item) \in Stream
    BY <1>0 DEF StreamOf
  <2> QED
    BY <1>0, <1>1, <2>1 DEF Curl, CurlReads, CurlWrites, CurlExits, CurlKilled, Next
<1>2. CASE BeginWrite
  BY <1>2 DEF BeginWrite
<1>3. CASE close
  BY <1>0, <1>3 DEF close, Next
<1>4. ASSUME NEW m, BeginRead(m) PROVE [Next]_vars
  <2>1. StartLog \/ UNCHANGED vars
    BY <1>4 DEF BeginRead
  <2> QED
    BY <1>0, <2>1 DEF StartLog, Next
<1>5. CASE WriteByte
  BY <1>0, <1>5 DEF WriteByte, Next
<1>6. CASE ReadLog
  BY <1>0, <1>6 DEF ReadLog, Next
<1>7. CASE ReadBody
  BY <1>0, <1>7 DEF ReadBody, Next
<1>8. CASE Wait
  BY <1>8 DEF Wait
<1>9. CASE UNCHANGED httpVars
  BY <1>9 DEF httpVars
<1> QED
  BY <1>1, <1>2, <1>3, <1>4, <1>5, <1>6, <1>7, <1>8, <1>9 DEF HttpNext, ScriptGoesOn

LEMMA PlanKept ==
  ASSUME [HttpNext]_httpVars
  PROVE  UNCHANGED plan /\ killed' \in {killed, TRUE}
BY DEF HttpNext, Curl, CurlReads, CurlWrites, CurlExits, CurlKilled, BeginWrite, close, BeginRead,
       ScriptGoesOn, WriteByte, ReadLog, ReadBody, Wait, httpVars, curlVars

LEMMA ErrLineKept ==
  ASSUME UNCHANGED plan
  PROVE  (\A j : ErrLine(j)' = ErrLine(j)) /\ \A i : LineNumber(i)' = LineNumber(i)
<1>1. \A S : Where(S)' = Where(S)
  BY DEF Where
<1>2. \A i : LineNumber(i)' = LineNumber(i)
  BY <1>1 DEF LineNumber
<1>3. \A k : LineAt(k)' = LineAt(k)
  BY <1>1, <1>2 DEF LineAt
<1> QED
  BY <1>2, <1>3 DEF ErrLine

(* As many lines are in the log as curl has logged, and as many bytes in   *)
(* its output as it has written; it ends with its plan carried out unless  *)
(* a signal ends it.                                                       *)
LEMMA NextPlan ==
  ASSUME ClientInv, [HttpNext]_httpVars
  PROVE  PlanInv' /\ (done \in 0 .. Len(plan.does))'
<1>1. /\ PlanOK /\ Children = {curl} /\ curl \in Children
      /\ done \in 0 .. Len(plan.does) /\ PlanInv
      /\ written \in [Children -> [Stream -> Nat]] /\ Stream = {"in", "out", "err"}
      /\ state \in [Children -> {"new", "running", "ended"}]
      /\ written[curl]["out"] \in Nat /\ written[curl]["err"] \in Nat
  BY HttpClientAssumption DEF ClientInv, ClientTypeOK, ChannelInv, PlanOK, Stream
<1>2. UNCHANGED plan /\ \A i : LineNumber(i)' = LineNumber(i)
  BY PlanKept, ErrLineKept
<1>3. ASSUME done' = done, \A s \in {"out", "err"} : written'[curl][s] = written[curl][s],
             state'[curl] = "ended" => state[curl] = "ended" \/ killed' \/ done = Len(plan.does),
             killed => killed'
      PROVE  PlanInv' /\ (done \in 0 .. Len(plan.does))'
  <2>1. LineNumber(done)' = LineNumber(done)
    BY <1>2, <1>3 DEF LineNumber
  <2> QED
    BY <1>1, <1>2, <1>3, <2>1 DEF PlanInv
<1>4. CASE CurlWrites
  <2>1. CASE NextItem = "body" /\ closed
    BY <1>3, <1>4, <2>1 DEF CurlWrites, End
  <2>2. CASE ~(NextItem = "body" /\ closed)
    <3>1. /\ done' = done + 1 /\ done < Len(plan.does) /\ UNCHANGED <<state, killed>>
          /\ written' = [written EXCEPT ![curl][StreamOf(NextItem)] = @ + 1]
          /\ state[curl] = "running"
      BY <1>4, <2>2 DEF CurlWrites, Write, Ready
    <3>2. /\ done \in 0 .. Len(plan.does) - 1 /\ done + 1 \in 1 .. Len(plan.does)
          /\ DOMAIN plan.does = 1 .. Len(plan.does) /\ NextItem \in Items
          /\ done + 1 \in 0 .. Len(plan.does)
      BY <1>1, <3>1, PlanIs DEF NextItem
    <3>3. done + 1 \in Where(Lines) <=> NextItem \in Lines
      BY <3>2 DEF Where, NextItem
    <3>4. NextItem \in Lines <=> NextItem # "body"
      BY <3>2, HttpClientAssumption DEF Items, Lines, Statuses, Success, Failure
    <3>5. LineNumber(done + 1) = IF NextItem # "body" THEN LineNumber(done) + 1 ELSE LineNumber(done)
      BY <1>1, <3>2, <3>3, <3>4, LineNumberNext
    <3>6. /\ written'[curl]["err"] = IF NextItem # "body" THEN written[curl]["err"] + 1
                                     ELSE written[curl]["err"]
          /\ written'[curl]["out"] = IF NextItem # "body" THEN written[curl]["out"]
                                     ELSE written[curl]["out"] + 1
      BY <1>1, <3>1 DEF StreamOf
    <3>7. LineNumber(done)' = LineNumber(done + 1)
      BY <1>2, <3>1 DEF LineNumber, Where
    <3>8. written'[curl]["err"] = LineNumber(done)'
      BY <1>1, <3>5, <3>6, <3>7 DEF PlanInv
    <3>9. written'[curl]["out"] + written'[curl]["err"] = done'
      BY <1>1, <3>1, <3>6 DEF PlanInv
    <3>10. state'[curl] # "ended" /\ done' \in 0 .. Len(plan'.does)
      BY <1>2, <3>1, <3>2
    <3> QED
      BY <3>8, <3>9, <3>10 DEF PlanInv
  <2> QED
    BY <2>1, <2>2
<1>5. CASE Curl
  <2>1. CASE Start(curl) /\ UNCHANGED curlVars
    <3>1. state'[curl] = "running" /\ UNCHANGED <<written, done, killed>>
      BY <1>1, <2>1 DEF Start, curlVars
    <3> QED
      BY <1>3, <3>1
  <2>2. CASE CurlReads
    BY <1>3, <2>2 DEF CurlReads, Read, Tell, curlVars
  <2>3. CASE CurlExits
    BY <1>3, <2>3 DEF CurlExits, End, curlVars
  <2> QED
    BY <1>4, <1>5, <2>1, <2>2, <2>3 DEF Curl
<1>6. CASE BeginWrite \/ close
  BY <1>3, <1>6 DEF BeginWrite, close, Shut, vars, curlVars
<1>7. ASSUME NEW m, BeginRead(m)
      PROVE  done' = done /\ written' = written /\ UNCHANGED <<killed, state>>
  BY <1>7 DEF BeginRead, StartLog, Shut, vars, curlVars
<1>8. CASE WriteByte
  <2>1. CASE UNCHANGED vars
    BY <1>3, <1>8, <2>1 DEF WriteByte, vars, curlVars
  <2>2. CASE Write(curl, "in")
    <3>1. written' = [written EXCEPT ![curl]["in"] = @ + 1] /\ UNCHANGED state
      BY <2>2 DEF Write
    <3>2. \A s \in {"out", "err"} : written'[curl][s] = written[curl][s]
      BY <1>1, <3>1
    <3> QED
      BY <1>3, <1>8, <3>1, <3>2 DEF WriteByte, curlVars
  <2> QED
    BY <1>8, <2>1, <2>2 DEF WriteByte
<1>9. CASE ReadLog \/ ReadBody
  BY <1>3, <1>9 DEF ReadLog, ReadBody, Read, Tell, vars, curlVars
<1>10. CASE Wait \/ UNCHANGED httpVars
  BY <1>3, <1>10 DEF Wait, httpVars, vars, curlVars
<1>11. CASE CurlKilled
  BY <1>3, <1>11 DEF CurlKilled, End
<1> QED
  BY <1>3, <1>5, <1>6, <1>7, <1>8, <1>9, <1>10, <1>11 DEF HttpNext, ScriptGoesOn

(* Whoever was told that a stream has ended stays told. *)
LEMMA ToldStays ==
  ASSUME ChannelInv, [Next]_vars, NEW r \in Stream, told[curl][r]
  PROVE  told'[curl][r]
<1>0. curl \in Children /\ told \in [Children -> [Stream -> BOOLEAN]]
  BY HttpClientAssumption DEF ChannelInv
<1>1. ASSUME NEW c \in Children, NEW s \in Stream, Tell(c, s) PROVE told'[curl][r]
  <2>1. told' = [told EXCEPT ![c][s] = TRUE]
    BY <1>1 DEF Tell
  <2> QED
    BY <1>0, <2>1
<1>2. CASE told' = told
  BY <1>2
<1>3. told' = told \/ \E c \in Children : \E s \in Stream : Tell(c, s)
  BY DEF Next, vars, Start, End, Write, Read, Shut
<1> QED
  BY <1>1, <1>2, <1>3

(* wait() *)
LEMMA NextWait ==
  ASSUME ClientInv, [HttpNext]_httpVars
  PROVE  WaitInv'
<1>1. /\ ClientTypeOK /\ WaitInv /\ UNCHANGED plan /\ (killed => killed')
      /\ (told[curl]["out"] => told'[curl]["out"])
  <2>1. ChannelInv /\ [Next]_vars /\ "out" \in Stream
    BY StepsOfChannels DEF ClientInv, Stream
  <2>2. UNCHANGED plan /\ killed' \in {killed, TRUE} /\ ClientTypeOK /\ WaitInv
    BY PlanKept DEF ClientInv
  <2>3. told[curl]["out"] => told'[curl]["out"]
    BY <2>1, ToldStays
  <2>4. killed => killed'
    BY <2>2, Zenon
  <2> QED
    BY <2>2, <2>3, <2>4
<1>2. CASE UNCHANGED <<at, mode, waits, outcome>>
  BY <1>1, <1>2 DEF WaitInv
<1>3. CASE Curl \/ CurlKilled \/ close \/ UNCHANGED httpVars
  BY <1>2, <1>3 DEF Curl, CurlReads, CurlWrites, CurlExits, CurlKilled, close, httpVars, clientVars
<1>4. CASE BeginWrite
  BY <1>1, <1>4 DEF BeginWrite, WaitInv
<1>5. CASE WriteByte
  BY <1>1, <1>5 DEF WriteByte, WaitInv
<1>6. ASSUME NEW m, BeginRead(m) PROVE WaitInv'
  BY <1>1, <1>6 DEF BeginRead, WaitInv
<1>7. CASE ReadLog
  <2>1. UNCHANGED <<waits, mode>> /\ at = "stderr" /\ (at' = "idle" => outcome' = "status")
        /\ at' # "write" /\ at' # "wait"
    <3>1. \A line, k : TakeLine(line, k) /\ at = "stderr" =>
            at' # "write" /\ at' # "wait" /\ (at' = "idle" => outcome' = "status")
      BY DEF TakeLine, Returns
    <3> QED
      BY <1>7, <3>1 DEF ReadLog
  <2> QED
    BY <1>1, <2>1 DEF WaitInv
<1>8. CASE ReadBody
  <2>1. /\ UNCHANGED <<waits, mode>> /\ at = "stdout" /\ at' \in {"stdout", "wait", "idle"}
        /\ (mode = "all" /\ at' = "idle" => outcome' # "end")
    BY <1>8 DEF ReadBody, Returns, MustWait
  <2>2. at' = "wait" => told'[curl]["out"]
    <3> SUFFICES ASSUME at' = "wait" PROVE told'[curl]["out"]
      OBVIOUS
    <3>1. Tell(curl, "out")
      BY <1>8, <2>1 DEF ReadBody, Returns, MustWait, Enough
    <3>2. told \in [Children -> [Stream -> BOOLEAN]] /\ curl \in Children /\ "out" \in Stream
      BY HttpClientAssumption DEF ClientInv, ChannelInv, Stream
    <3> QED
      BY <3>1, <3>2 DEF Tell
  <2> QED
    BY <1>1, <2>1, <2>2 DEF WaitInv
<1>9. CASE Wait
  <2>1. /\ at = "wait" /\ at' = "idle" /\ waits' = waits + 1 /\ UNCHANGED <<mode, killed>>
        /\ waits \in 0..2 /\ (outcome' = "end" => waits > 0 \/ killed \/ plan.exit = 0)
    BY <1>1, <1>9 DEF Wait, Returns, ClientTypeOK, curlVars
  <2> QED
    BY <1>1, <2>1 DEF WaitInv
<1> QED
  BY <1>3, <1>4, <1>5, <1>6, <1>7, <1>8, <1>9 DEF HttpNext, ScriptGoesOn

LEMMA NextTypes ==
  ASSUME ClientInv, [HttpNext]_httpVars
  PROVE  ClientTypeOK'
<1> DEFINE N == Len(plan.does)
           Own == /\ at \in {"idle", "write", "stderr", "stdout", "wait", "dead"}
                  /\ mode \in {"all", "some", "copy"} /\ phase \in 0..2
                  /\ status \in Success \cup {"none"} /\ headers \in [Names -> 0..N]
                  /\ result \in Nat /\ waits \in 0..2 /\ closed \in BOOLEAN
                  /\ outcome \in {"none", "data", "end", "status", "exit", "closed"}
<1>1. /\ PlanOK /\ ClientTypeOK /\ ChannelInv /\ WaitInv /\ UNCHANGED plan /\ [Next]_vars
      /\ written[curl]["err"] = LineNumber(done) /\ killed' \in BOOLEAN
  BY PlanKept, StepsOfChannels, HttpClientAssumption DEF ClientInv, ClientTypeOK, PlanOK, PlanInv
<1>2. ChannelInv'
  BY <1>1, NextChannel
<1>3. done' \in 0 .. Len(plan'.does)
  BY NextPlan
<1>4. Own /\ N' = N
  BY <1>1 DEF ClientTypeOK
<1>5. Own'
  <2>1. CASE UNCHANGED clientVars
    BY <1>4, <2>1 DEF clientVars
  <2>2. CASE Curl \/ CurlKilled \/ UNCHANGED httpVars
    BY <2>1, <2>2 DEF Curl, CurlReads, CurlWrites, CurlExits, CurlKilled, httpVars
  <2>3. CASE BeginWrite \/ close
    BY <1>4, <2>3 DEF BeginWrite, close
  <2>4. CASE WriteByte
    BY <1>4, <2>4 DEF WriteByte
  <2>5. ASSUME NEW m \in {"all", "some", "copy"}, BeginRead(m) PROVE Own'
    BY <1>4, <2>5 DEF BeginRead
  <2>6. CASE ReadLog
    <3> DEFINE k == Len(got[curl]["err"]) + 1
    <3>0. UNCHANGED <<mode, result, waits, closed>> /\ at = "stderr"
      BY <2>6 DEF ReadLog
    <3>1. CASE Read(curl, "err") /\ TakeLine(ErrLine(k), k)
      <4>1. k \in 1 .. N
        <5>1. Len(got[curl]["err"]) < written[curl]["err"] /\ "err" \in Stream /\ curl \in Children
          BY <3>1, HttpClientAssumption DEF Read, Stream
        <5>2. Len(got[curl]["err"]) \in Nat
          BY <1>1, <5>1, LenProperties DEF ChannelInv
        <5>3. LineNumber(done) \in 0 .. done /\ done \in 0 .. N /\ N \in Nat
          BY <1>1, LinesCount, PlanIs DEF ClientTypeOK
        <5> QED
          BY <1>1, <5>1, <5>2, <5>3
      <4> HIDE DEF k, N
      <4>2. /\ at' \in {at, "idle", "stdout"} /\ phase' \in {phase, 2}
            /\ status' \in Success \cup {status} /\ outcome' \in {outcome, "status"}
        BY <3>1, Zenon DEF TakeLine, Found, Refused, Returns
      <4>3. headers' = headers \/ (\E name \in Names : headers' = [headers EXCEPT ![name] = k])
        BY <3>1 DEF TakeLine, IsHeader
      <4>4. N \in Nat
        BY <1>1, PlanIs DEF N
      <4>5. headers' \in [Names -> 0..N]
        BY <1>4, <4>1, <4>3, <4>4
      <4> QED
        BY <1>4, <3>0, <4>2, <4>5
    <3>2. CASE at' = "stdout" /\ UNCHANGED <<phase, status, headers, outcome>>
      BY <1>4, <3>0, <3>2
    <3> QED
      BY <2>6, <3>1, <3>2 DEF ReadLog
  <2>7. CASE ReadBody
    <3>1. /\ UNCHANGED <<mode, phase, status, headers, waits, closed>>
          /\ result' \in {result, result + 1, 0}
          /\ at' \in {at, "wait", "idle"} /\ outcome' \in {outcome, "closed", "end", "data"}
      BY <2>7 DEF ReadBody, Returns
    <3> QED
      BY <1>4, <3>1
  <2>8. CASE Wait
    <3>1. waits < 2 /\ waits' = waits + 1
      BY <1>1, <2>8 DEF Wait, WaitInv
    <3> QED
      BY <1>4, <2>8, <3>1 DEF Wait, Returns
  <2> QED
    BY <2>2, <2>3, <2>4, <2>5, <2>6, <2>7, <2>8 DEF HttpNext, ScriptGoesOn
<1> QED
  BY <1>1, <1>2, <1>3, <1>4, <1>5 DEF ClientTypeOK, ChannelInv, Known

LEMMA HeaderKept ==
  ASSUME UNCHANGED plan, NEW f, NEW n, NEW name, headers'[name] = headers[name]
  PROVE  HeaderKnown(f, n, name)' <=> HeaderKnown(f, n, name)
BY ErrLineKept DEF HeaderKnown, IsLast

(* What the client knows, if it reads no line. *)
LEMMA LogKept ==
  ASSUME LogInv, UNCHANGED <<plan, phase, status, headers>>,
         got'[curl]["err"] = got[curl]["err"], told[curl]["err"] => told'[curl]["err"],
         at = "stderr" <=> at' = "stderr"
  PROVE  LogInv'
<1>1. /\ \A j : ErrLine(j)' = ErrLine(j)
      /\ Known("err")' = Known("err") /\ (AllRead => AllRead')
  BY ErrLineKept DEF Known, AllRead
<1>2. NoAnswerYet => NoAnswerYet'
  BY <1>1 DEF NoAnswerYet
<1>3. ASSUME NEW f \in 1 .. Known("err"), NEW n \in Nat, HeadFrom(f, n) PROVE HeadFrom(f, n)'
  BY <1>1, <1>3, HeaderKept DEF HeadFrom
<1>4. (\E f \in 1 .. Known("err"), n \in Nat : HeadFrom(f, n))
      => (\E f \in 1 .. Known("err"), n \in Nat : HeadFrom(f, n))'
  BY <1>1, <1>3
<1> QED
  BY <1>1, <1>2, <1>4 DEF LogInv

(* ... and if it reads one. *)
LEMMA LineTaken ==
  ASSUME LogInv, ClientTypeOK, ChannelInv, UNCHANGED plan, at = "stderr",
         NEW k, k = Known("err") + 1, Known("err") \in Nat,
         Known("err")' = k, TakeLine(ErrLine(k), k)
  PROVE  LogInv'
<1>1. /\ \A j : ErrLine(j)' = ErrLine(j)
      /\ k \in Nat /\ phase \in {1, 2}
      /\ \A j \in 1 .. k : j \in 1 .. Known("err") \/ j = k
      /\ k \in 1 .. k /\ headers \in [Names -> 0 .. Len(plan.does)]
  <2>1. headers \in [Names -> 0 .. Len(plan.does)] /\ phase \in 0..2
    BY DEF ClientTypeOK
  <2> QED
    BY <2>1, ErrLineKept DEF LogInv
<1>2. CASE Found(ErrLine(k)) /\ phase' = 2 /\ status' = ErrLine(k) /\ UNCHANGED <<at, headers>>
  <2>1. headers' = NoHeaders /\ ErrLine(k) \in Success /\ phase = 1
    BY <1>2 DEF Found, LogInv
  <2>2. HeadFrom(k, 0)'
    BY <1>1, <1>2, <2>1 DEF HeadFrom, HeaderKnown, NoHeaders
  <2> QED
    BY <1>1, <1>2, <2>2 DEF LogInv
<1>3. CASE Refused(ErrLine(k)) /\ at' = "idle" /\ UNCHANGED <<phase, status, headers>>
  <2>1. phase = 1 /\ ErrLine(k) \in Failure /\ ErrLine(k) \notin Success /\ NoAnswerYet
    BY <1>3 DEF Refused, LogInv, Failure, Success
  <2>2. NoAnswerYet'
    BY <1>1, <1>3, <2>1 DEF NoAnswerYet
  <2> QED
    BY <1>3, <2>1, <2>2 DEF LogInv
<1>4. CASE /\ IsHeader(ErrLine(k)) /\ headers' = [headers EXCEPT ![ErrLine(k)] = k]
           /\ UNCHANGED <<at, phase, status>>
  <2>1. phase = 2 /\ ErrLine(k) \in Names
    BY <1>4 DEF IsHeader
  <2>2. PICK f \in 1 .. Known("err"), n \in Nat : HeadFrom(f, n)
    BY <2>1 DEF LogInv
  <2>3. Known("err") = f + n /\ f \in Nat /\ k = f + (n + 1)
    BY <1>1, <2>2 DEF HeadFrom
  <2>4. \A j \in 1 .. n + 1 : j \in 1 .. n \/ j = n + 1
    OBVIOUS
  <2>5. ASSUME NEW name \in Names PROVE HeaderKnown(f, n + 1, name)'
    <3>1. CASE name = ErrLine(k)
      <4>1. headers'[name] = f + (n + 1) /\ ErrLine(f + (n + 1)) = name
        BY <1>1, <1>4, <2>1, <2>3, <3>1
      <4> QED
        BY <1>1, <4>1 DEF HeaderKnown, IsLast
    <3>2. CASE name # ErrLine(k)
      <4>1. headers'[name] = headers[name] /\ ErrLine(f + (n + 1)) # name
        BY <1>1, <1>4, <2>3, <3>2
      <4>2. HeaderKnown(f, n, name)
        BY <2>2 DEF HeadFrom
      <4>3. CASE headers[name] = 0 /\ \A j \in 1..n : ErrLine(f + j) # name
        BY <1>1, <2>4, <4>1, <4>3 DEF HeaderKnown
      <4>4. ASSUME NEW j \in 1..n, headers[name] = f + j, IsLast(f, n, name, j)
            PROVE  HeaderKnown(f, n + 1, name)'
        <5>1. j \in 1 .. n + 1 /\ headers'[name] = f + j
          BY <4>1, <4>4
        <5>2. IsLast(f, n + 1, name, j)'
          BY <1>1, <2>4, <4>1, <4>4 DEF IsLast
        <5> QED
          BY <5>1, <5>2 DEF HeaderKnown
      <4> QED
        BY <4>2, <4>3, <4>4 DEF HeaderKnown
    <3> QED
      BY <3>1, <3>2
  <2>6. \A j \in 1 .. n + 1 : ErrLine(f + j)' \in Names
    BY <1>1, <2>1, <2>2, <2>3, <2>4 DEF HeadFrom
  <2>7. HeadFrom(f, n + 1)'
    <3>1. (ErrLine(f) \in Success /\ status = ErrLine(f))' /\ at' = "stderr"
      BY <1>1, <1>4, <2>2 DEF HeadFrom
    <3> QED
      BY <2>3, <2>5, <2>6, <3>1 DEF HeadFrom
  <2>8. f \in 1 .. k /\ n + 1 \in Nat
    BY <2>3
  <2> QED
    BY <1>4, <2>1, <2>7, <2>8 DEF LogInv
<1>5. CASE /\ ~Found(ErrLine(k)) /\ ~Refused(ErrLine(k)) /\ ~IsHeader(ErrLine(k))
           /\ at' = IF phase = 2 THEN "stdout" ELSE at
           /\ UNCHANGED <<phase, status, headers>>
  <2>1. CASE phase = 1
    <3>1. ErrLine(k) \notin Success /\ ErrLine(k) \notin Failure /\ NoAnswerYet
      BY <1>5, <2>1 DEF Found, Refused, LogInv
    <3>2. NoAnswerYet'
      BY <1>1, <1>5, <2>1, <3>1 DEF NoAnswerYet
    <3> QED
      BY <1>5, <2>1, <3>2 DEF LogInv
  <2>2. CASE phase = 2
    <3>1. PICK f \in 1 .. Known("err"), n \in Nat : HeadFrom(f, n)
      BY <2>2 DEF LogInv
    <3>2. Known("err") = f + n /\ f \in Nat /\ ErrLine(k) \notin Names
      BY <1>5, <2>2, <3>1 DEF HeadFrom, IsHeader
    <3>3. HeadFrom(f, n)'
      BY SMTT(40), <1>1, <1>5, <2>2, <3>1, <3>2, HeaderKept DEF HeadFrom
    <3>4. f \in 1 .. k
      BY <3>2
    <3> QED
      BY <1>5, <2>2, <3>3, <3>4 DEF LogInv
  <2> QED
    BY <1>1, <2>1, <2>2
<1> QED
  BY <1>2, <1>3, <1>4, <1>5 DEF TakeLine, Returns

LEMMA NextLog ==
  ASSUME ClientInv, [HttpNext]_httpVars
  PROVE  LogInv'
<1>1. /\ ClientTypeOK /\ ChannelInv /\ LogInv /\ UNCHANGED plan
      /\ curl \in Children /\ "err" \in Stream
      /\ (told[curl]["err"] => told'[curl]["err"])
  BY PlanKept, StepsOfChannels, ToldStays, HttpClientAssumption DEF ClientInv, Stream
<1>2. /\ got \in [Children -> [Stream -> Seq(Children \X Stream \X Nat)]]
      /\ got[curl]["err"] \in Seq(Children \X Stream \X Nat) /\ Known("err") \in Nat
  <2>1. /\ got \in [Children -> [Stream -> Seq(Children \X Stream \X Nat)]]
        /\ got[curl]["err"] \in Seq(Children \X Stream \X Nat)
    BY <1>1 DEF ChannelInv
  <2> QED
    BY <2>1, LenProperties DEF Known
<1>3. CASE /\ UNCHANGED <<phase, status, headers>> /\ got'[curl]["err"] = got[curl]["err"]
           /\ (at = "stderr" <=> at' = "stderr")
  BY <1>1, <1>3, LogKept
<1>4. ASSUME NEW s \in {"in", "out"}, Read(curl, s) PROVE got'[curl]["err"] = got[curl]["err"]
  BY <1>1, <1>2, <1>4 DEF Read
<1>5. CASE Curl \/ CurlKilled
  <2>1. UNCHANGED <<phase, status, headers, at>>
    BY <1>5 DEF Curl, CurlReads, CurlWrites, CurlExits, CurlKilled, clientVars
  <2>2. got' = got \/ Read(curl, "in")
    BY <1>5 DEF Curl, CurlReads, CurlWrites, CurlExits, CurlKilled, Start, Tell, End, Write
  <2> QED
    BY <1>3, <1>4, <2>1, <2>2
<1>6. CASE BeginWrite \/ close \/ WriteByte \/ Wait \/ UNCHANGED httpVars
  BY <1>3, <1>6 DEF BeginWrite, close, WriteByte, Wait, Returns, Shut, Write, httpVars, vars, clientVars
<1>7. ASSUME NEW m, BeginRead(m) PROVE LogInv'
  <2>1. at = "idle" /\ got' = got /\ UNCHANGED <<status, headers>>
    BY <1>7 DEF BeginRead, StartLog, Shut, vars
  <2>2. CASE phase = 0
    <3>1. /\ phase' = 1 /\ at' = "stderr" /\ Known("err")' = 0
          /\ status' = "none" /\ headers' = NoHeaders
      BY <1>1, <1>7, <2>1, <2>2 DEF BeginRead, LogInv, Known
    <3>2. NoAnswerYet'
      BY <3>1 DEF NoAnswerYet
    <3> QED
      BY <3>1, <3>2 DEF LogInv
  <2>3. CASE phase # 0
    BY <1>3, <1>7, <2>1, <2>3 DEF BeginRead
  <2> QED
    BY <2>2, <2>3
<1>8. CASE ReadLog
  <2> DEFINE k == Known("err") + 1
  <2>0. at = "stderr"
    BY <1>8 DEF ReadLog
  <2>1. CASE Read(curl, "err") /\ TakeLine(ErrLine(k), k)
    <3>1. PICK b : got' = [got EXCEPT ![curl]["err"] = Append(got[curl]["err"], b)]
      BY <2>1 DEF Read
    <3>2. got'[curl]["err"] = Append(got[curl]["err"], b)
      BY <1>1, <1>2, <3>1
    <3>3. Known("err")' = k
      <4>1. Len(Append(got[curl]["err"], b)) = Len(got[curl]["err"]) + 1
        BY <1>2
      <4> QED
        BY <3>2, <4>1 DEF Known
    <3> QED
      BY <1>1, <1>2, <2>0, <2>1, <3>3, LineTaken
  <2>2. CASE Tell(curl, "err") /\ at' = "stdout" /\ UNCHANGED <<phase, status, headers>>
    <3>1. told'[curl]["err"] /\ got' = got
      BY <1>1, <2>2 DEF Tell, ChannelInv
    <3>2. /\ \A j : ErrLine(j)' = ErrLine(j)
          /\ Known("err")' = Known("err") /\ AllRead'
      BY <1>1, <3>1, ErrLineKept DEF Known, AllRead
    <3>3. NoAnswerYet => NoAnswerYet'
      BY <2>0, <2>2, <3>2 DEF NoAnswerYet
    <3>4. ASSUME NEW f \in 1 .. Known("err"), NEW n \in Nat, HeadFrom(f, n) PROVE HeadFrom(f, n)'
      BY <1>1, <2>0, <2>2, <3>2, <3>4, HeaderKept DEF HeadFrom
    <3> QED
      BY <1>1, <2>0, <2>2, <3>2, <3>3, <3>4 DEF LogInv
  <2> QED
    BY <1>8, <2>1, <2>2 DEF ReadLog, Known
<1>9. CASE ReadBody
  <2>1. /\ UNCHANGED <<phase, status, headers>> /\ at = "stdout" /\ at' \in {"stdout", "wait", "idle"}
        /\ got' = got \/ Read(curl, "out")
    BY <1>9 DEF ReadBody, Returns, Tell, vars
  <2> QED
    BY <1>3, <1>4, <2>1
<1> QED
  BY <1>5, <1>6, <1>7, <1>8, <1>9 DEF HttpNext, ScriptGoesOn

LEMMA InitClient ==
  ASSUME HttpInit
  PROVE  ClientInv
<1>0. /\ curl \in Children /\ Room \in Nat \ {0} /\ PlanOK /\ plan \in Plans
      /\ Stream = {"in", "out", "err"}
  BY HttpClientAssumption DEF HttpInit, PlanOK, Stream
<1>1. /\ \A s \in Stream : /\ written[curl][s] = 0 /\ got[curl][s] = <<>> /\ Known(s) = 0
                           /\ told[curl][s] = FALSE
      /\ done = 0 /\ at = "idle" /\ mode = "all" /\ phase = 0 /\ status = "none" /\ headers = NoHeaders
      /\ killed = FALSE /\ result = 0 /\ waits = 0 /\ outcome = "none" /\ closed = FALSE
  BY <1>0 DEF HttpInit, Init, Known
<1>2. ChannelInv
  <2>1. /\ state \in [Children -> {"new", "running", "ended"}] /\ shut \in SUBSET Children
        /\ written \in [Children -> [Stream -> Nat]]
        /\ got \in [Children -> [Stream -> Seq(Children \X Stream \X Nat)]]
        /\ told \in [Children -> [Stream -> BOOLEAN]]
    BY DEF HttpInit, Init
  <2>2. \A s \in Stream : written[curl][s] - Known(s) \in 0..Room
    BY <1>0, <1>1
  <2>3. \A s \in {"out", "err"} : ~told[curl][s]
    BY <1>0, <1>1
  <2> QED
    BY <2>1, <2>2, <2>3 DEF ChannelInv
<1>3. ClientTypeOK
  <2>1. Len(plan.does) \in Nat /\ done \in 0 .. Len(plan.does)
    BY <1>0, <1>1, PlanIs
  <2>2. \A s \in Stream : written[curl][s] - Len(got[curl][s]) \in 0..Room
    BY <1>2 DEF ChannelInv, Known
  <2>3. headers \in [Names -> 0 .. Len(plan.does)] /\ killed \in BOOLEAN
    BY <1>1, <2>1 DEF NoHeaders
  <2>4. /\ at \in {"idle", "write", "stderr", "stdout", "wait", "dead"}
        /\ mode \in {"all", "some", "copy"} /\ phase \in 0..2
        /\ status \in Success \cup {"none"} /\ result \in Nat /\ waits \in 0..2
        /\ outcome \in {"none", "data", "end", "status", "exit", "closed"}
    BY <1>1
  <2>5. closed \in BOOLEAN
    BY <1>1
  <2> QED
    BY <1>0, <2>1, <2>2, <2>3, <2>4, <2>5, Zenon DEF ClientTypeOK
<1>4. LogInv /\ WaitInv
  BY <1>0, <1>1 DEF LogInv, WaitInv
<1>5. PlanInv
  <2>1. state[curl] = "new"
    BY <1>0 DEF HttpInit, Init
  <2> QED
    BY <1>0, <1>1, <2>1, LineNumberZero DEF PlanInv
<1> QED
  BY <1>2, <1>3, <1>4, <1>5 DEF ClientInv

LEMMA NextClient ==
  ASSUME ClientInv, [HttpNext]_httpVars
  PROVE  ClientInv'
<1>1. ChannelInv'
  BY StepsOfChannels, NextChannel DEF ClientInv
<1> QED
  BY <1>1, NextTypes, NextLog, NextWait, NextPlan DEF ClientInv

(* Between its calls, the client knows what the part of the log says that  *)
(* it has read, and it reads all of the log or as far as an answer goes.   *)
THEOREM ClientConsistent == HttpSpec => []ClientInv
<1>1. HttpInit => ClientInv
  BY InitClient
<1>2. ClientInv /\ [HttpNext]_httpVars => ClientInv'
  BY NextClient
<1> QED
  BY <1>1, <1>2, PTL DEF HttpSpec

(* The request and curl's channels have the types and the bounds that      *)
(* ClientTypeOK states.                                                    *)
THEOREM ClientTypesCorrect == HttpSpec => []ClientTypeOK
<1>1. ClientInv => ClientTypeOK
  BY DEF ClientInv
<1> QED
  BY <1>1, ClientConsistent, PTL

(* Of curl's plan, what is no line is body. *)
LEMMA BodyIs ==
  ASSUME PlanOK
  PROVE  LineNumber(Len(plan.does)) + Count(Where({"body"})) = Len(plan.does)
         /\ Count(Where({"body"})) \in Nat
<1> DEFINE N == Len(plan.does)
           L == {j \in Where(Lines) : j <= N}
           B == Where({"body"})
<1>1. /\ N \in Nat /\ DOMAIN plan.does = 1 .. N /\ \A i \in 1 .. N : plan.does[i] \in Items
      /\ N \in 0 .. N
  BY PlanIs
<1>2. L \cup B = 1 .. N /\ L \cap B = {}
  <2>1. \A item \in Items : item \in Lines <=> item # "body"
    BY HttpClientAssumption DEF Items, Lines, Statuses, Success, Failure
  <2> QED
    BY <1>1, <2>1 DEF Where, Items
<1>3. IsFiniteSet(1 .. N) /\ Cardinality(1 .. N) = N
  <2>1. Cardinality(1..N) = IF 1 > N THEN 0 ELSE N - 1 + 1
    BY SMTT(40), <1>1, FS_Interval
  <2> QED
    BY <1>1, <2>1, FS_Interval
<1> HIDE DEF L, B, N
<1>4. IsFiniteSet(L) /\ IsFiniteSet(B)
  BY <1>2, <1>3, FS_Subset
<1>5. Cardinality(L \cup B) = Cardinality(L) + Cardinality(B) - Cardinality({})
  BY <1>2, <1>4, FS_Union
<1>6. Cardinality({}) = 0 /\ Cardinality(L) \in Nat /\ Cardinality(B) \in Nat
  BY <1>4, FS_EmptySet, FS_CardinalityType
<1>7. Cardinality(L) + Cardinality(B) = N
  <2>1. Cardinality(L \cup B) = N
    BY <1>2, <1>3, Zenon
  <2>2. N \in Nat
    BY <1>1
  <2> QED
    BY <1>5, <1>6, <2>1, <2>2
<1>8. LineNumber(N) = Cardinality(L) /\ Count(B) = Cardinality(B)
  BY DEF LineNumber, L, Count
<1> QED
  BY <1>6, <1>7, <1>8 DEF N, B

LEMMA AllIsRead ==
  ASSUME ClientInv, ~killed, told[curl]["out"]
  PROVE  Len(got[curl]["out"]) = Count(Where({"body"}))
<1>1. /\ PlanOK /\ curl \in Children /\ Stream = {"in", "out", "err"}
      /\ written \in [Children -> [Stream -> Nat]] /\ PlanInv
  BY HttpClientAssumption DEF ClientInv, ClientTypeOK, ChannelInv, PlanOK, Stream
<1>2. state[curl] = "ended" /\ Len(got[curl]["out"]) = written[curl]["out"]
  BY DEF ClientInv, ChannelInv, Known
<1>3. /\ done = Len(plan.does) /\ written[curl]["err"] = LineNumber(done)
      /\ written[curl]["out"] + written[curl]["err"] = done
  BY <1>1, <1>2 DEF PlanInv
<1>4. written[curl]["out"] \in Nat /\ written[curl]["err"] \in Nat
  BY <1>1
<1> QED
  BY <1>1, <1>2, <1>3, <1>4, BodyIs

(* A first read() to the end that says the body has ended comes back only  *)
(* when all of the body was read and curl has exited without a failure, if *)
(* no signal ended curl (http-client-engine.js:73-78).                     *)
THEOREM FailuresAreTold == HttpSpec => []FailureTold
<1>1. ClientInv => FailureTold
  BY AllIsRead DEF ClientInv, WaitInv, FailureTold
<1> QED
  BY <1>1, ClientConsistent, PTL

-----------------------------------------------------------------------------
(***************************************************************************)
(* What the client knows when curl has ended.                              *)
(***************************************************************************)
LEMMA NumbersInOrder ==
  ASSUME PlanOK, NEW a \in 1 .. LineNumber(Len(plan.does)),
         NEW b \in 1 .. LineNumber(Len(plan.does)), a < b
  PROVE  LineAt(a) < LineAt(b)
<1> DEFINE N == Len(plan.does)
<1>1. N \in Nat /\ N \in 0 .. N /\ Where(Lines) \subseteq 1 .. N
  BY PlanIs
<1>2. /\ LineAt(a) \in Where(Lines) /\ LineNumber(LineAt(a)) = a
      /\ LineAt(b) \in Where(Lines) /\ LineNumber(LineAt(b)) = b
  BY <1>1, LineAtIs
<1>3. LineNumber(N) \in Nat
  BY <1>1, LinesCount
<1> DEFINE p == LineAt(a)
           q == LineAt(b)
<1> HIDE DEF p, q
<1>4. p \in 1 .. N /\ q \in 1 .. N /\ LineNumber(p) = a /\ LineNumber(q) = b
  BY <1>1, <1>2 DEF p, q
<1> SUFFICES ASSUME q <= p PROVE FALSE
  BY <1>1, <1>4 DEF p, q
<1>5. q \in 0 .. N /\ p \in q .. N
  BY <1>1, <1>4
<1>6. LineNumber(q) <= LineNumber(p)
  BY <1>5, LineNumberGrows
<1> QED
  BY <1>3, <1>4, <1>6

LEMMA LastOfIs ==
  ASSUME NEW S \in SUBSET Nat, NEW i \in S, \A j \in S : j <= i
  PROVE  LastOf(S) = i
<1>1. ASSUME NEW j \in S, \A g \in S : g <= j PROVE j = i
  <2>1. j <= i /\ i <= j
    BY <1>1
  <2> QED
    BY <2>1
<1> QED
  BY <1>1, Zenon DEF LastOf

(* If curl logs no "100", a line with an answer is the last status.        *)
LEMMA OneAnswer ==
  ASSUME PlanOK, plan \in Plans, Where({"100"}) = {}, Where(Statuses) # {},
         NEW k \in 1 .. LineNumber(Len(plan.does)), ErrLine(k) \in Success \cup Failure
  PROVE  LineAt(k) = LastStatus
<1> DEFINE N == Len(plan.does)
           i == LineAt(k)
<1>1. /\ N \in Nat /\ N \in 0 .. N /\ DOMAIN plan.does = 1 .. N
      /\ Where(Statuses) \subseteq 1 .. N /\ LogsResponses(plan.does)
  BY PlanIs, HttpClientAssumption
<1>2. i \in 1 .. N /\ i \in Where(Lines)
  BY <1>1, LineAtIs, PlanIs
<1> HIDE DEF i
<1>3. plan.does[i] \in Failure \cup {"200"} /\ i \in Where(Statuses)
  <2>1. plan.does[i] \in Success \cup Failure
    BY DEF ErrLine, i
  <2>2. plan.does[i] # "100"
    BY <1>1, <1>2 DEF Where
  <2> QED
    BY <1>1, <1>2, <2>1, <2>2 DEF Success, Statuses, Where
<1>4. ASSUME NEW j \in Where(Statuses) PROVE j <= i
  <2>1. j \in 1 .. N /\ plan.does[j] \in Statuses
    BY <1>1 DEF Where
  <2>2. ~(i < j)
    BY <1>1, <1>2, <1>3, <2>1 DEF LogsResponses
  <2> QED
    BY <1>1, <1>2, <2>1, <2>2
<1>5. Where(Statuses) \in SUBSET Nat
  BY <1>1
<1>6. LastStatus = i
  BY <1>3, <1>4, <1>5, LastOfIs DEF LastStatus
<1> QED
  BY <1>6 DEF i

LEMMA LastStatusIs ==
  ASSUME PlanOK, Where(Statuses) # {}
  PROVE  LastStatus \in Where(Statuses) /\ \A j \in Where(Statuses) : j <= LastStatus
<1>1. Len(plan.does) \in Nat /\ Where(Statuses) \subseteq 1 .. Len(plan.does)
  BY PlanIs
<1>2. Where(Statuses) \in SUBSET Nat /\ \A s \in Where(Statuses) : s <= Len(plan.does)
  BY <1>1
<1>3. \E s \in Where(Statuses) : \A g \in Where(Statuses) : g <= s
  BY <1>1, <1>2, GreatestNumber
<1> QED
  BY <1>3, Zenon DEF LastStatus, LastOf

(* The headers of the response at line f are the next n lines, if what     *)
(* comes then is no header and f has the last status.                      *)
LEMMA HeadersAre ==
  ASSUME PlanOK, HeadersTogether, Where(Statuses) # {},
         NEW f \in 1 .. LineNumber(Len(plan.does)), LineAt(f) = LastStatus,
         NEW n \in Nat, f + n <= LineNumber(Len(plan.does)),
         \A j \in 1..n : ErrLine(f + j) \in Names,
         f + n = LineNumber(Len(plan.does)) \/ ErrLine(f + n + 1) \notin Names,
         NEW name \in Names
  PROVE  /\ \A j \in 1..n : LineNumber(LineAt(f + j)) = f + j
         /\ \A j \in 1..n : ErrLine(f + j) = name => LineAt(f + j) \in HeadersOf(LastStatus, name)
         /\ \A i \in HeadersOf(LastStatus, name) :
              \E j \in 1..n : LineAt(f + j) = i /\ ErrLine(f + j) = name
<1> DEFINE N == Len(plan.does)
           W == LineNumber(N)
<1>1. /\ N \in Nat /\ N \in 0 .. N /\ DOMAIN plan.does = 1 .. N
      /\ \A S : Where(S) \subseteq 1 .. N
      /\ W \in Nat /\ f \in Nat
  <2>1. N \in Nat /\ DOMAIN plan.does = 1 .. N /\ \A S : Where(S) \subseteq 1 .. N
    BY PlanIs
  <2>2. N \in 0 .. N
    BY <2>1
  <2>3. W \in Nat
    BY <2>2, LinesCount
  <2> QED
    BY <2>1, <2>2, <2>3
<1>2. \A k \in 1 .. W : LineAt(k) \in Where(Lines) /\ LineNumber(LineAt(k)) = k
  BY <1>1, LineAtIs
<1>3. \A j \in Where(Statuses) : j <= LastStatus
  BY LastStatusIs
<1>4. LastStatus \in Where(Lines) /\ LastStatus \in 1 .. N
  BY <1>1, <1>2
<1>5. ASSUME NEW j \in 1..n
      PROVE  /\ LineNumber(LineAt(f + j)) = f + j
             /\ ErrLine(f + j) = name => LineAt(f + j) \in HeadersOf(LastStatus, name)
  <2>1. f + j \in 1 .. W /\ f < f + j
    BY <1>1
  <2>2. LineAt(f + j) \in Where(Lines) /\ LineAt(f) < LineAt(f + j)
    BY <1>2, <2>1, NumbersInOrder
  <2>3. plan.does[LineAt(f + j)] = ErrLine(f + j)
    BY DEF ErrLine
  <2> QED
    BY <1>2, <2>1, <2>2, <2>3 DEF HeadersOf, Where
<1>6. ASSUME NEW i \in HeadersOf(LastStatus, name)
      PROVE  \E j \in 1..n : LineAt(f + j) = i /\ ErrLine(f + j) = name
  <2> DEFINE g == LineNumber(i)
  <2>1. /\ i \in Where(Lines) /\ i \in 1 .. N /\ i > LastStatus /\ plan.does[i] = name
    BY <1>1 DEF HeadersOf, Where, Lines
  <2>2. g \in 1 .. W /\ LineAt(g) = i
    BY <2>1, LineAtNumber
  <2>3. f < g
    <3>1. LastStatus \in 0 .. N /\ LastStatus < i
      BY <1>4, <2>1
    <3>2. LineNumber(LastStatus) < LineNumber(i)
      BY <2>1, <3>1, LinesInOrder
    <3>3. LineNumber(LastStatus) = f
      BY <1>2
    <3> QED
      BY <3>2, <3>3
  <2> HIDE DEF g
  <2>4. CASE g <= f + n
    <3>1. g - f \in 1..n /\ f + (g - f) = g
      BY <1>1, <2>2, <2>3, <2>4
    <3>2. ErrLine(g) = name
      BY <2>1, <2>2 DEF ErrLine
    <3> QED
      BY <2>2, <3>1, <3>2
  <2>5. CASE g > f + n
    <3> DEFINE e == LineAt(f + n + 1)
    <3>1. f + n + 1 \in 1 .. W /\ ErrLine(f + n + 1) \notin Names /\ g # f + n + 1
      <4>1. f + n # W /\ f + n + 1 \in 1 .. W
        BY <1>1, <2>2, <2>5
      <4>2. ErrLine(g) \in Names
        BY <2>1, <2>2 DEF ErrLine
      <4> QED
        BY <4>1, <4>2
    <3>2. f + n + 1 < g /\ f < f + n + 1
      BY <1>1, <2>2, <2>5, <3>1
    <3>3. e < i /\ LastStatus < e /\ e \in Where(Lines)
      <4>1. LineAt(f + n + 1) < LineAt(g)
        BY <2>2, <3>1, <3>2, NumbersInOrder
      <4>2. LineAt(f) < LineAt(f + n + 1)
        BY <3>1, <3>2, NumbersInOrder
      <4> QED
        BY <1>2, <2>2, <3>1, <4>1, <4>2
    <3>4. plan.does[e] \notin Names
      BY <3>1 DEF ErrLine
    <3> HIDE DEF e
    <3>5. e \in 1 .. N /\ plan.does[e] \in Lines
      BY <1>1, <3>3 DEF Where
    <3>6. plan.does[e] \notin Statuses
      <4> SUFFICES ASSUME plan.does[e] \in Statuses PROVE FALSE
        OBVIOUS
      <4>1. e \in Where(Statuses)
        BY <1>1, <3>5 DEF Where
      <4> QED
        BY <1>3, <1>4, <3>3, <3>5, <4>1
    <3>7. plan.does[e] \in {"blank", "info"}
      BY <3>4, <3>5, <3>6 DEF Lines
    <3>8. e \in Where({"blank", "info"}) /\ i \in Where(Names)
      BY <1>1, <2>1, <3>5, <3>7 DEF Where
    <3>9. PICK k \in Where(Statuses) : e < k /\ k < i
      BY <3>3, <3>8 DEF HeadersTogether
    <3>10. k \in 1 .. N
      BY <1>1
    <3> QED
      BY <1>3, <1>4, <3>3, <3>5, <3>9, <3>10
  <2> QED
    BY <1>1, <2>2, <2>4, <2>5
<1> QED
  BY <1>5, <1>6

(* ... so the last of a name that the client took is the last there is.    *)
LEMMA HeaderIs ==
  ASSUME PlanOK, HeadersTogether, Where(Statuses) # {},
         NEW f \in 1 .. LineNumber(Len(plan.does)), LineAt(f) = LastStatus,
         NEW n \in Nat, f + n <= LineNumber(Len(plan.does)),
         \A j \in 1..n : ErrLine(f + j) \in Names,
         f + n = LineNumber(Len(plan.does)) \/ ErrLine(f + n + 1) \notin Names,
         NEW name \in Names, HeaderKnown(f, n, name)
  PROVE  LET all == HeadersOf(LastStatus, name) IN
         headers[name] = IF all = {} THEN 0 ELSE LineNumber(LastOf(all))
<1> DEFINE all == HeadersOf(LastStatus, name)
           W == LineNumber(Len(plan.does))
<1>1. /\ \A j \in 1..n : LineNumber(LineAt(f + j)) = f + j
      /\ \A j \in 1..n : ErrLine(f + j) = name => LineAt(f + j) \in all
      /\ \A i \in all : \E j \in 1..n : LineAt(f + j) = i /\ ErrLine(f + j) = name
  BY HeadersAre
<1>2. all \in SUBSET Nat /\ W \in Nat
  <2>1. Where({name}) \subseteq 1 .. Len(plan.does) /\ Len(plan.does) \in Nat
    BY PlanIs
  <2>2. Len(plan.does) \in 0 .. Len(plan.does)
    BY <2>1
  <2>4. W \in Nat
    BY <2>2, LinesCount
  <2>5. ASSUME NEW i \in all PROVE i \in Nat
    <3>1. i \in Where({name})
      BY Zenon DEF HeadersOf
    <3>2. i \in 1 .. Len(plan.does)
      BY <2>1, <3>1, Zenon
    <3> QED
      BY <2>1, <3>2
  <2> QED
    BY <2>4, <2>5
<1> HIDE DEF all
<1>3. ASSUME \A j \in 1..n : ErrLine(f + j) # name PROVE all = {}
  BY <1>1, <1>3
<1>4. ASSUME NEW j \in 1..n, headers[name] = f + j, IsLast(f, n, name, j)
      PROVE  all # {} /\ headers[name] = LineNumber(LastOf(all))
  <2>1. LineAt(f + j) \in all /\ LineNumber(LineAt(f + j)) = f + j
    BY <1>1, <1>4 DEF IsLast
  <2>2. ASSUME NEW i \in all PROVE i <= LineAt(f + j)
    <3>1. PICK m \in 1..n : LineAt(f + m) = i /\ ErrLine(f + m) = name
      BY <1>1
    <3>2. m <= j
      BY <1>4, <3>1 DEF IsLast
    <3>3. CASE m = j
      BY <1>2, <3>1, <3>3
    <3>4. CASE m < j
      <4>1. f + m \in 1 .. W /\ f + j \in 1 .. W /\ f + m < f + j
        BY <1>2, <3>4
      <4>2. LineAt(f + m) < LineAt(f + j)
        BY <4>1, NumbersInOrder
      <4>3. LineAt(f + m) \in Nat /\ LineAt(f + j) \in Nat
        BY <1>2, <2>1, <3>1
      <4> QED
        BY <3>1, <4>2, <4>3
    <3> QED
      BY <3>2, <3>3, <3>4
  <2>3. LastOf(all) = LineAt(f + j)
    BY <1>2, <2>1, <2>2, LastOfIs
  <2> QED
    BY <1>4, <2>1, <2>3
<1>5. headers[name] = IF all = {} THEN 0 ELSE LineNumber(LastOf(all))
  <2>1. \/ headers[name] = 0 /\ \A j \in 1..n : ErrLine(f + j) # name
        \/ \E j \in 1..n : headers[name] = f + j /\ IsLast(f, n, name, j)
    BY DEF HeaderKnown
  <2>2. CASE \E j \in 1..n : headers[name] = f + j /\ IsLast(f, n, name, j)
    <3>1. all # {} /\ headers[name] = LineNumber(LastOf(all))
      BY <1>4, <2>2
    <3> QED
      BY <3>1
  <2> QED
    BY <1>3, <2>1, <2>2
<1> QED
  BY <1>5 DEF all

LEMMA KnownAtEnd ==
  ASSUME ClientInv, phase # 0, at \in {"idle", "stdout", "wait"}, Where(Statuses) # {},
         Where({"100"}) = {}, HeadersTogether, done = Len(plan.does)
  PROVE  IF plan.does[LastStatus] \in Success
         THEN /\ status = plan.does[LastStatus]
              /\ \A name \in Names :
                   LET all == HeadersOf(LastStatus, name) IN
                   headers[name] = IF all = {} THEN 0 ELSE LineNumber(LastOf(all))
         ELSE status = "none" /\ headers = NoHeaders
<1> DEFINE N == Len(plan.does)
           W == LineNumber(N)
           l == LineNumber(LastStatus)
<1>1. /\ PlanOK /\ plan \in Plans /\ LogInv /\ N \in Nat /\ W \in Nat
      /\ Known("err") \in 0 .. W /\ (AllRead => Known("err") = W)
      /\ phase \in {1, 2} /\ at # "stderr"
  <2>1. /\ PlanOK /\ plan \in Plans /\ LogInv /\ phase \in 0..2 /\ written[curl]["err"] = W
    BY HttpClientAssumption DEF ClientInv, ClientTypeOK, PlanOK, PlanInv
  <2>2. N \in Nat /\ N \in 0 .. N
    BY <2>1, PlanIs
  <2>3. W \in Nat
    BY <2>1, <2>2, LinesCount
  <2>4. curl \in Children /\ "err" \in Stream
    BY HttpClientAssumption DEF Stream
  <2>5. written[curl]["err"] - Known("err") \in 0 .. Room /\ Known("err") \in Nat
        /\ (AllRead => Known("err") = W) /\ Room \in Nat
    BY <2>1, <2>4, LenProperties, HttpClientAssumption DEF ClientInv, ChannelInv, Known, AllRead
  <2> QED
    BY <2>1, <2>2, <2>3, <2>5
<1>2. /\ LastStatus \in Where(Lines) /\ l \in 1 .. W /\ LineAt(l) = LastStatus
      /\ ErrLine(l) = plan.does[LastStatus]
  <2>1. LastStatus \in Where(Statuses)
    BY <1>1, LastStatusIs
  <2>2. LastStatus \in Where(Lines)
    BY <2>1 DEF Where, Lines
  <2>3. l \in 1 .. W /\ LineAt(l) = LastStatus
    BY <1>1, <2>2, LineAtNumber
  <2> QED
    BY <2>2, <2>3 DEF ErrLine
<1>3. ASSUME NEW k \in 1 .. W, ErrLine(k) \in Success \cup Failure
      PROVE  LineAt(k) = LastStatus /\ ErrLine(k) = plan.does[LastStatus]
  <2>1. LineAt(k) = LastStatus
    BY <1>1, <1>3, OneAnswer
  <2> QED
    BY <2>1 DEF ErrLine
<1>4. CASE phase = 1
  <2>1. NoAnswerYet /\ status = "none" /\ headers = NoHeaders
    BY <1>1, <1>4 DEF LogInv
  <2>2. plan.does[LastStatus] \notin Success
    <3>1. CASE AllRead
      <4>1. l \in 1 .. Known("err")
        BY <1>1, <1>2, <3>1
      <4> QED
        BY <1>2, <2>1, <4>1 DEF NoAnswerYet
    <3>2. CASE \E j \in 1 .. Known("err") : ErrLine(j) \in Failure
      <4>1. PICK j \in 1 .. Known("err") : ErrLine(j) \in Failure
        BY <3>2
      <4>2. j \in 1 .. W
        BY <1>1
      <4>3. plan.does[LastStatus] \in Failure
        BY <1>3, <4>1, <4>2
      <4> QED
        BY <4>3 DEF Success, Failure
    <3> QED
      BY <1>1, <2>1, <3>1, <3>2 DEF NoAnswerYet
  <2> QED
    BY <2>1, <2>2
<1>5. CASE phase = 2
  <2>1. PICK f \in 1 .. Known("err"), n \in Nat : HeadFrom(f, n)
    BY <1>1, <1>5 DEF LogInv
  <2>2. f \in 1 .. W /\ ErrLine(f) \in Success /\ status = ErrLine(f)
    BY <1>1, <2>1 DEF HeadFrom
  <2>3. LineAt(f) = LastStatus /\ plan.does[LastStatus] \in Success /\ status = plan.does[LastStatus]
    BY <1>3, <2>2
  <2>4. /\ f + n <= W /\ \A j \in 1..n : ErrLine(f + j) \in Names
        /\ f + n = W \/ ErrLine(f + n + 1) \notin Names
        /\ \A name \in Names : HeaderKnown(f, n, name)
    BY <1>1, <2>1 DEF HeadFrom
  <2> QED
    BY <1>1, <2>2, <2>3, <2>4, HeaderIs
<1> QED
  BY <1>1, <1>4, <1>5

(* Once a read has come back from the log of a transfer that has ended,    *)
(* the request has the status of the last response and, under each name,   *)
(* the last of its headers of that name and no other, or neither if that   *)
(* response is not a success, if curl logged no "100 Continue" and nothing *)
(* but headers between a status and its headers                            *)
(* (http-client-engine.js:44-69).                                          *)
THEOREM ResponseIsKnown == HttpSpec => []ResponseKnown
<1>1. ClientInv => ResponseKnown
  BY KnownAtEnd DEF ResponseKnown
<1> QED
  BY <1>1, ClientConsistent, PTL
=============================================================================
