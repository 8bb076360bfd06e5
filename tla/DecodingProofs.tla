--------------------------- MODULE DecodingProofs ---------------------------
(***************************************************************************)
(* Proofs about a script that moves a text (Decoding): that a ByteIO is a  *)
(* queue of bytes, what iconv() does however its source is cut, that a     *)
(* TextInputStream loses nothing and ends where the text does, that its    *)
(* lines are the text's, and that a text comes through iconv() twice.      *)
(***************************************************************************)
EXTENDS Decoding, SequenceTheorems, NaturalsInduction, WellFoundedInduction, TLAPS

Segment == [bytes : Seq(Int), offset : Nat, length : Nat]

(* The ByteString s has the bytes that were written after first, up to to.  *)
Has(s, first, to) ==
  /\ to = first + s.length
  /\ s.offset + s.length <= Len(s.bytes)
  /\ \A j \in 1..s.length : s.bytes[s.offset + j] = first + j

(* The list has the bytes up to all; ends[i] is the last byte of the first *)
(* i ByteStrings.                                                          *)
Cuts(list, ends, all) ==
  /\ ends \in [0..Len(list) -> 0..all]
  /\ ends[Len(list)] = all
  /\ \A i \in 1..Len(list) : Has(list[i], ends[i - 1], ends[i])

(* It has those after first. *)
Lies(list, first, all) == \E ends : Cuts(list, ends, all) /\ ends[0] = first

(* What a read() that is running has copied are the bytes after the last   *)
(* that was taken; toByteString() asks for all there are.                  *)
ReadInv ==
  IF reading = "no" THEN position = 0
  ELSE /\ want \in Nat \ {0} /\ Len(dst) = want /\ position <= want
       /\ \A i \in 1..position : dst[i] = taken + i
       /\ reading = "read" => want \in Wants \/ want = written - taken
       /\ reading = "keep" => want = written - taken

ByteInv ==
  /\ ByteTypeOK
  /\ length = written - taken - position
  /\ Lies(buffer, taken + position, written)  \* what was not now
  /\ ReadInv

-----------------------------------------------------------------------------
(* The sequence that a function on 1..k is. *)
LEMMA FunctionIsSeq ==
  ASSUME NEW S, NEW k \in Nat, NEW f \in [1..k -> S]
  PROVE  f \in Seq(S) /\ Len(f) = k /\ DOMAIN f = 1..k
BY SMT

(* The empty list, and a list of one. *)
LEMMA NothingLies ==
  ASSUME NEW all \in Nat
  PROVE  Lies(<<>>, all, all)
<1> DEFINE ends == [i \in 0..0 |-> all]
<1>1. ends \in [0..0 -> 0..all] /\ ends[0] = all
  OBVIOUS
<1>2. Cuts(<<>>, ends, all)
  BY <1>1 DEF Cuts
<1> QED
  BY <1>1, <1>2 DEF Lies

(* A ByteString with the next bytes may be put behind a list. *)
LEMMA MoreLies ==
  ASSUME NEW list \in Seq(Segment), NEW first \in Nat, NEW all \in Nat, Lies(list, first, all),
         NEW s \in Segment, Has(s, all, all + s.length)
  PROVE  Lies(Append(list, s), first, all + s.length)
<1> DEFINE m == Len(list)
           longer == Append(list, s)
<1>1. PICK ends : Cuts(list, ends, all) /\ ends[0] = first
  BY DEF Lies
<1> DEFINE next == [i \in 0..(m + 1) |-> IF i <= m THEN ends[i] ELSE all + s.length]
<1>2. m \in Nat /\ s.length \in Nat
  BY DEF Segment
<1>3. /\ longer \in Seq(Segment) /\ Len(longer) = m + 1
      /\ \A i \in 1..m : longer[i] = list[i]
      /\ longer[m + 1] = s
  BY AppendProperties
<1>4. /\ ends \in [0..m -> 0..all] /\ ends[m] = all
      /\ \A i \in 1..m : Has(list[i], ends[i - 1], ends[i])
  BY <1>1 DEF Cuts
<1>5. \A i \in 0..m : ends[i] \in 0..(all + s.length)
  BY SMTT(40), <1>2, <1>4
<1>6. /\ next \in [0..(m + 1) -> 0..(all + s.length)]
      /\ next[m + 1] = all + s.length /\ next[0] = first
  BY <1>1, <1>2, <1>5
<1>7. \A i \in 1..m : next[i] = ends[i] /\ next[i - 1] = ends[i - 1]
  BY <1>2
<1>8. next[m] = all
  BY <1>2, <1>4
<1> HIDE DEF next, longer
<1>9. ASSUME NEW i \in 1..(m + 1) PROVE Has(longer[i], next[i - 1], next[i])
  <2>1. CASE i \in 1..m
    BY <2>1, <1>3, <1>4, <1>7
  <2>2. CASE i = m + 1
    <3>1. i - 1 = m
      BY <2>2, <1>2
    <3> QED
      BY <2>2, <3>1, <1>3, <1>6, <1>8
  <2> QED
    BY <2>1, <2>2, <1>2
<1>10. Cuts(longer, next, all + s.length)
  BY <1>3, <1>6, <1>9 DEF Cuts
<1> QED
  BY <1>6, <1>10 DEF Lies, longer

(* The first ByteString of a list, if anything is in the list. *)
LEMMA FirstLies ==
  ASSUME NEW list \in Seq(Segment), NEW first \in Nat, NEW all \in Nat, Lies(list, first, all),
         first < all
  PROVE  /\ list # <<>> /\ Head(list) \in Segment /\ Head(list) = list[1]
         /\ Has(Head(list), first, first + Head(list).length)
         /\ first + Head(list).length <= all
<1>1. PICK ends : Cuts(list, ends, all) /\ ends[0] = first
  BY DEF Lies
<1>2. Len(list) # 0 /\ Len(list) \in Nat
  BY <1>1 DEF Cuts
<1>3. list # <<>> /\ Head(list) \in Segment /\ Head(list) = list[1]
  BY <1>2
<1>4. Has(list[1], ends[0], ends[1]) /\ ends[1] \in 0..all
  <2>1. 1 \in 1..Len(list) /\ 1 \in 0..Len(list) /\ 1 - 1 = 0
    BY <1>2
  <2> QED
    BY <1>1, <2>1 DEF Cuts
<1> QED
  BY <1>1, <1>3, <1>4 DEF Has

(* A list without its first ByteString. *)
LEMMA TailLies ==
  ASSUME NEW list \in Seq(Segment), NEW first \in Nat, NEW all \in Nat, Lies(list, first, all),
         first < all
  PROVE  Lies(Tail(list), first + Head(list).length, all)
<1> DEFINE m == Len(list)
           rest == Tail(list)
<1>1. PICK ends : Cuts(list, ends, all) /\ ends[0] = first
  BY DEF Lies
<1>2. /\ list # <<>> /\ Head(list) = list[1]
  BY FirstLies
<1>3. m \in Nat \ {0}
  BY <1>2
<1>4. /\ rest \in Seq(Segment) /\ Len(rest) = m - 1
      /\ \A i \in 1..(m - 1) : rest[i] = list[i + 1]
  BY <1>2, HeadTailProperties
<1>5. /\ ends \in [0..m -> 0..all] /\ ends[m] = all
      /\ \A i \in 1..m : Has(list[i], ends[i - 1], ends[i])
  BY <1>1 DEF Cuts
<1> DEFINE next == [i \in 0..(m - 1) |-> ends[i + 1]]
<1>6. next \in [0..(m - 1) -> 0..all] /\ next[m - 1] = all
  BY <1>3, <1>5
<1>7. next[0] = first + Head(list).length
  <2>1. 1 \in 1..m /\ 1 - 1 = 0 /\ 0 \in 0..(m - 1)
    BY <1>3
  <2>2. Has(list[1], ends[0], ends[1]) /\ next[0] = ends[1]
    BY <2>1, <1>5
  <2> QED
    BY <2>2, <1>1, <1>2 DEF Has
<1>8. \A i \in 1..(m - 1) : next[i] = ends[i + 1] /\ next[i - 1] = ends[i]
  BY <1>3
<1> HIDE DEF next, rest
<1>9. ASSUME NEW i \in 1..(m - 1) PROVE Has(rest[i], next[i - 1], next[i])
  <2>1. i + 1 \in 1..m /\ (i + 1) - 1 = i
    BY <1>3
  <2>2. Has(list[i + 1], ends[(i + 1) - 1], ends[i + 1])
    BY <2>1, <1>5
  <2> QED
    BY <2>1, <2>2, <1>4, <1>8
<1>10. Cuts(rest, next, all)
  BY <1>4, <1>6, <1>9 DEF Cuts
<1> QED
  BY <1>7, <1>10 DEF Lies, rest

(* A list whose first ByteString was cut in two. *)
LEMMA RestLies ==
  ASSUME NEW list \in Seq(Segment), NEW first \in Nat, NEW all \in Nat, Lies(list, first, all),
         first < all, NEW k \in Nat, k < Head(list).length
  PROVE  LET rest == Rest(Head(list), k) IN
         /\ rest \in Segment
         /\ Lies([list EXCEPT ![1] = rest], first + k, all)
<1> DEFINE m == Len(list)
           s == Head(list)
           rest == Rest(s, k)
           shorter == [list EXCEPT ![1] = rest]
<1>1. PICK ends : Cuts(list, ends, all) /\ ends[0] = first
  BY DEF Lies
<1>2. /\ list # <<>> /\ s \in Segment /\ s = list[1]
      /\ Has(s, first, first + s.length) /\ first + s.length <= all
  BY FirstLies
<1>3. m \in Nat \ {0}
  BY <1>2
<1>4. rest = [bytes |-> s.bytes, offset |-> s.offset + k, length |-> s.length - k]
  BY <1>2 DEF Rest, Segment
<1>5. /\ s.bytes \in Seq(Int) /\ s.offset \in Nat /\ s.length \in Nat
  BY <1>2 DEF Segment
<1>6. rest \in Segment
  BY SMTT(40), <1>4, <1>5 DEF Segment
<1>7. Has(rest, first + k, first + s.length)
  <2>1. ASSUME NEW j \in 1..(s.length - k)
        PROVE  s.bytes[(s.offset + k) + j] = (first + k) + j
    <3>1. k + j \in 1..s.length /\ (s.offset + k) + j = s.offset + (k + j)
          /\ (first + k) + j = first + (k + j)
      BY <1>5
    <3> QED
      BY <3>1, <1>2 DEF Has
  <2> HIDE DEF rest, s
  <2>2. first + s.length = (first + k) + (s.length - k)
        /\ (s.offset + k) + (s.length - k) <= Len(s.bytes)
    <3>1. s.offset + s.length <= Len(s.bytes)
      BY <1>2, Zenon DEF Has
    <3>2. s.offset \in Nat /\ s.length \in Nat /\ k \in Nat /\ first \in Nat
      BY <1>5
    <3>3. first + s.length = (first + k) + (s.length - k)
      BY <3>2
    <3>4. (s.offset + k) + (s.length - k) = s.offset + s.length
      BY <3>2
    <3> QED
      BY <3>1, <3>3, <3>4
  <2>3. /\ rest.bytes = s.bytes /\ rest.offset = s.offset + k
        /\ rest.length = s.length - k
    BY <1>4
  <2> QED
    BY <2>1, <2>2, <2>3 DEF Has
<1>8. /\ Len(shorter) = m /\ shorter[1] = rest
      /\ \A i \in 2..m : shorter[i] = list[i]
  <2>1. 1 \in 1..m
    BY <1>3
  <2>2. /\ Len(shorter) = m
        /\ \A i \in 1..m : shorter[i] = IF i = 1 THEN rest ELSE list[i]
    BY <1>6, <2>1, ExceptSeq
  <2> HIDE DEF shorter, rest
  <2> QED
    BY <2>1, <2>2
<1>9. /\ ends \in [0..m -> 0..all] /\ ends[m] = all
      /\ \A i \in 1..m : Has(list[i], ends[i - 1], ends[i])
  BY <1>1 DEF Cuts
<1>10. ends[1] = first + s.length
  <2>1. 1 \in 1..m /\ 1 - 1 = 0
    BY <1>3
  <2> QED
    BY <2>1, <1>1, <1>2, <1>9 DEF Has
<1> DEFINE next == [ends EXCEPT ![0] = first + k]
<1>11. first + k \in 0..all
  BY <1>2, <1>5
<1>12. /\ next \in [0..m -> 0..all] /\ next[0] = first + k /\ next[m] = all
      /\ \A i \in 1..m : next[i] = ends[i]
  BY <1>3, <1>9, <1>11
<1> HIDE DEF next, shorter, rest, s
<1>13. ASSUME NEW i \in 1..m PROVE Has(shorter[i], next[i - 1], next[i])
  <2>1. CASE i = 1
    <3>1. i - 1 = 0
      BY <2>1
    <3> QED
      BY <2>1, <3>1, <1>7, <1>8, <1>10, <1>12
  <2>2. CASE i # 1
    <3>1. i \in 2..m /\ i - 1 \in 1..m
      BY <2>2, <1>3
    <3> QED
      BY <3>1, <1>8, <1>9, <1>12
  <2> QED
    BY <2>1, <2>2
<1>14. Cuts(shorter, next, all)
  BY <1>8, <1>12, <1>13 DEF Cuts
<1> QED
  BY <1>6, <1>12, <1>14 DEF Lies, shorter, rest, s

-----------------------------------------------------------------------------
(* Everything is at rest between the calls. *)
LEMMA InitByteInv == ByteInit => ByteInv
BY NothingLies DEF ByteInit, ByteInv, ByteTypeOK, ReadInv

(* The ByteString that write() is given has the next k bytes. *)
LEMMA ByteStringHas ==
  ASSUME ByteTypeOK, NEW k \in Nat, NEW a \in Nat, NEW b \in Nat
  PROVE  LET s == ByteString(k, a, b) IN
         s \in Segment /\ s.length = k /\ Has(s, written, written + k)
<1> DEFINE f == [i \in 1..(a + k + b) |->
                   IF i \in (a + 1)..(a + k) THEN written + i - a ELSE -1]
<1>1. f \in [1..(a + k + b) -> Int]
  BY DEF ByteTypeOK
<1>2. f \in Seq(Int) /\ Len(f) = a + k + b
  BY <1>1, FunctionIsSeq
<1>3. \A j \in 1..k : f[a + j] = written + j
  BY DEF ByteTypeOK
<1> HIDE DEF f
<1>4. ByteString(k, a, b) = [bytes |-> f, offset |-> a, length |-> k]
  BY DEF ByteString, f
<1> QED
  BY <1>2, <1>3, <1>4 DEF Segment, Has

(* write() adds the bytes after the last. *)
LEMMA WriteByteInv ==
  ASSUME ByteInv, NEW k \in Nat, NEW a \in Nat, NEW b \in Nat, ByteWrite(k, a, b)
  PROVE  ByteInv'
<1>1. ByteTypeOK /\ length = written - taken - position /\ ReadInv
      /\ Lies(buffer, taken + position, written)
  BY DEF ByteInv
<1> DEFINE s == ByteString(k, a, b)
<1>2. s \in Segment /\ s.length = k /\ Has(s, written, written + k)
  BY <1>1, ByteStringHas
<1>3. /\ reading = "no" /\ buffer' = Append(buffer, s)
      /\ length' = length + k /\ written' = written + k
      /\ UNCHANGED <<reading, want, dst, position, result, taken>>
  BY DEF ByteWrite
<1> HIDE DEF s
<1>4. buffer \in Seq(Segment) /\ taken + position \in Nat /\ written \in Nat
  BY <1>1 DEF ByteTypeOK, Segment
<1>5. Lies(buffer', taken + position, written + k)
  BY <1>1, <1>2, <1>3, <1>4, MoreLies
<1>6. buffer' \in Seq(Segment)
  BY <1>2, <1>3, <1>4, AppendProperties
<1>7. ByteTypeOK'
  BY <1>1, <1>3, <1>6 DEF ByteTypeOK, Segment
<1>8. ReadInv'
  BY <1>1, <1>3 DEF ReadInv
<1> QED
  BY <1>1, <1>3, <1>5, <1>7, <1>8 DEF ByteInv, ByteTypeOK

(* The cleared array that B_ALLOC returns. *)
LEMMA Cleared ==
  ASSUME NEW w \in Nat
  PROVE  [i \in 1..w |-> 0] \in Seq(Int) /\ Len([i \in 1..w |-> 0]) = w
<1>1. [i \in 1..w |-> 0] \in [1..w -> Int]
  OBVIOUS
<1> QED
  BY <1>1, FunctionIsSeq

(* read() up to the loop changes nothing of what is held. *)
LEMMA BeginByteInv ==
  ASSUME ByteInv, NEW w \in Int, NEW for \in {"read", "keep"}, BeginByteRead(w, for),
         w \in Wants \/ w = length
  PROVE  ByteInv'
<1>1. ByteTypeOK /\ length = written - taken - position /\ ReadInv
      /\ Lies(buffer, taken + position, written)
  BY DEF ByteInv
<1>2. reading = "no" /\ position = 0 /\ (for = "keep" => w = length)
      /\ UNCHANGED <<written, taken>>
  BY <1>1 DEF BeginByteRead, ReadInv
<1>3. CASE w <= 0 /\ for = "keep" /\ result' = <<>> /\ length' = 0
           /\ buffer' = << [bytes |-> <<>>, offset |-> 0, length |-> 0] >>
           /\ UNCHANGED <<reading, want, dst, position>>
  <2>1. length = 0 /\ written = taken + position /\ written \in Nat
    BY <1>1, <1>2, <1>3 DEF ByteTypeOK
  <2> DEFINE s == [bytes |-> <<>>, offset |-> 0, length |-> 0]
  <2>2. s \in Segment /\ s.length = 0 /\ Has(s, written, written)
    BY <2>1 DEF Segment, Has
  <2> HIDE DEF s
  <2>3. buffer' = Append(<<>>, s) /\ <<>> \in Seq(Segment)
    BY <1>3 DEF s
  <2>4. Lies(<<>>, written, written)
    BY <2>1, NothingLies
  <2>5. written + s.length = written
    BY <2>1, <2>2
  <2>6. Lies(buffer', written, written)
    BY <2>1, <2>2, <2>3, <2>4, <2>5, MoreLies
  <2>7. buffer' \in Seq(Segment)
    BY <2>2, <2>3, AppendProperties
  <2>8. ByteTypeOK'
    BY <1>1, <1>2, <1>3, <2>7 DEF ByteTypeOK, Segment
  <2>9. ReadInv'
    BY <1>2, <1>3 DEF ReadInv
  <2> QED
    BY <1>2, <1>3, <2>1, <2>6, <2>8, <2>9 DEF ByteInv
<1>4. CASE result' \in {<<>>, Error} /\ UNCHANGED <<buffer, length, reading, want, dst, position>>
  <2>1. ByteTypeOK'
    <3>1. <<>> \in Seq(Int)
      OBVIOUS
    <3>2. result' \in Seq(Int) \cup {Error}
      BY <3>1, <1>4
    <3> QED
      BY <3>2, <1>1, <1>2, <1>4 DEF ByteTypeOK
  <2>2. ReadInv'
    BY <1>2, <1>4 DEF ReadInv
  <2> QED
    BY <1>1, <1>2, <1>4, <2>1, <2>2 DEF ByteInv
<1>5. CASE w > 0 /\ reading' = for /\ want' = w /\ position' = 0
           /\ dst' = [i \in 1..w |-> 0] /\ UNCHANGED <<buffer, length, result>>
  <2>1. w \in Nat \ {0} /\ dst' \in Seq(Int) /\ Len(dst') = w
    BY <1>5, Cleared
  <2>2. ByteTypeOK'
    BY <1>1, <1>2, <1>5, <2>1 DEF ByteTypeOK
  <2>3. w = length => w = written - taken
    BY <1>1, <1>2 DEF ByteTypeOK
  <2>4. ReadInv'
    BY <1>2, <1>5, <2>1, <2>3 DEF ReadInv
  <2> QED
    BY <1>1, <1>2, <1>5, <2>2, <2>4 DEF ByteInv
<1> QED
  BY <1>3, <1>4, <1>5 DEF BeginByteRead

(* What a turn of the loop copies lies within both arrays, and is the next *)
(* bytes.                                                                  *)
LEMMA CopyGood ==
  ASSUME ByteInv, reading # "no", position < want, length > 0
  PROVE  LET segment == Head(buffer)
             len == Smaller(segment.length, want - position)
             now == Copied(segment.bytes, segment.offset, position, len) IN
         /\ segment \in Segment /\ len \in Nat
         /\ taken + position + segment.length <= written
         /\ len <= segment.length /\ position + len <= want
         /\ InBounds(segment.bytes, segment.offset, position, len)
         /\ now \in Seq(Int) /\ Len(now) = want
         /\ \A i \in 1..(position + len) : now[i] = taken + i
<1> DEFINE segment == Head(buffer)
           len == Smaller(segment.length, want - position)
           now == Copied(segment.bytes, segment.offset, position, len)
<1>1. ByteTypeOK /\ length = written - taken - position /\ ReadInv
      /\ Lies(buffer, taken + position, written)
  BY DEF ByteInv
<1>2. /\ buffer \in Seq(Segment) /\ taken \in Nat /\ position \in Nat /\ written \in Nat
      /\ taken + position \in Nat /\ taken + position < written
      /\ dst \in Seq(Int)
  BY <1>1 DEF ByteTypeOK, Segment
<1>3. /\ segment \in Segment
      /\ Has(segment, taken + position, taken + position + segment.length)
      /\ taken + position + segment.length <= written
  BY <1>1, <1>2, FirstLies
<1>4. /\ segment.bytes \in Seq(Int) /\ segment.offset \in Nat /\ segment.length \in Nat
  BY <1>3 DEF Segment
<1>5. /\ want \in Nat /\ Len(dst) = want
      /\ \A i \in 1..position : dst[i] = taken + i
  BY <1>1 DEF ReadInv
<1> HIDE DEF segment
<1>6. len \in Nat /\ len <= segment.length /\ position + len <= want
  BY <1>2, <1>4, <1>5 DEF Smaller
<1> HIDE DEF len
<1>7. InBounds(segment.bytes, segment.offset, position, len)
  BY <1>3, <1>4, <1>5, <1>6 DEF InBounds, Has
<1>8. DOMAIN dst = 1..want
  BY <1>2, <1>5
<1>9. ASSUME NEW i \in (position + 1)..(position + len)
      PROVE  segment.bytes[segment.offset + i - position] = taken + i
  <2>1. i - position \in 1..segment.length
        /\ segment.offset + i - position = segment.offset + (i - position)
        /\ (taken + position) + (i - position) = taken + i
    BY <1>2, <1>4, <1>6
  <2> QED
    BY <2>1, <1>3 DEF Has
<1>10. \A i \in 1..want : dst[i] \in Int
  BY <1>2, <1>5
<1>11. now = [i \in 1..want |-> IF i \in (position + 1)..(position + len)
                                  THEN taken + i ELSE dst[i]]
  BY <1>8, <1>9 DEF Copied
<1> HIDE DEF now
<1>12. now \in [1..want -> Int]
  BY <1>2, <1>10, <1>11
<1>13. now \in Seq(Int) /\ Len(now) = want
  BY <1>5, <1>12, FunctionIsSeq
<1>14. ASSUME NEW i \in 1..(position + len) PROVE now[i] = taken + i
  <2>1. i \in 1..want
    BY <1>2, <1>5, <1>6
  <2>2. CASE i \in 1..position
    BY <2>1, <2>2, <1>2, <1>5, <1>11
  <2>3. CASE i \in (position + 1)..(position + len)
    BY <2>1, <2>3, <1>11
  <2> QED
    BY <2>2, <2>3, <1>2, <1>6
<1> QED
  BY <1>3, <1>6, <1>7, <1>13, <1>14 DEF segment, len, now

(* A turn of the loop. *)
LEMMA CopyByteInv ==
  ASSUME ByteInv, CopySegment
  PROVE  ByteInv' /\ UNCHANGED result
<1> DEFINE segment == Head(buffer)
           len == Smaller(segment.length, want - position)
           now == Copied(segment.bytes, segment.offset, position, len)
<1>1. ByteTypeOK /\ length = written - taken - position /\ ReadInv
      /\ Lies(buffer, taken + position, written)
  BY DEF ByteInv
<1>2. reading # "no" /\ position < want /\ length > 0
  BY DEF CopySegment
<1>3. /\ segment \in Segment /\ len \in Nat
      /\ taken + position + segment.length <= written
      /\ len <= segment.length /\ position + len <= want
      /\ InBounds(segment.bytes, segment.offset, position, len)
      /\ now \in Seq(Int) /\ Len(now) = want
      /\ \A i \in 1..(position + len) : now[i] = taken + i
  BY <1>2, CopyGood
<1>4. /\ dst' = now /\ position' = position + len /\ length' = length - len
      /\ buffer' = IF len < segment.length THEN [buffer EXCEPT ![1] = Rest(segment, len)]
                   ELSE Tail(buffer)
      /\ UNCHANGED <<reading, result, want, written, taken>>
  BY <1>3 DEF CopySegment
<1> HIDE DEF segment, len, now
<1>5. /\ buffer \in Seq(Segment) /\ taken \in Nat /\ position \in Nat /\ written \in Nat
      /\ taken + position \in Nat /\ taken + position < written
      /\ segment.length \in Nat
  BY <1>1, <1>2, <1>3 DEF ByteTypeOK, Segment
<1>6. buffer' \in Seq(Segment) /\ Lies(buffer', taken + position + len, written)
  <2>0. buffer # <<>> /\ 1 \in 1..Len(buffer)
    <3>1. buffer # <<>>
      BY <1>1, <1>5, FirstLies
    <3> QED
      BY <3>1, <1>5
  <2>1. CASE len < segment.length
    <3>1. /\ Rest(segment, len) \in Segment
          /\ Lies([buffer EXCEPT ![1] = Rest(segment, len)], taken + position + len, written)
      BY <2>1, <1>1, <1>3, <1>5, RestLies DEF segment
    <3>2. [buffer EXCEPT ![1] = Rest(segment, len)] \in Seq(Segment)
      BY <2>0, <3>1, <1>5, ExceptSeq
    <3> QED
      BY <2>1, <3>1, <3>2, <1>4
  <2>2. CASE ~(len < segment.length)
    <3>1. len = segment.length /\ buffer' = Tail(buffer)
      BY <2>2, <1>3, <1>4, <1>5
    <3>2. Lies(Tail(buffer), taken + position + segment.length, written)
      BY <1>1, <1>5, TailLies DEF segment
    <3>3. Tail(buffer) \in Seq(Segment)
      BY <2>0, <1>5, HeadTailProperties
    <3> QED
      BY <3>1, <3>2, <3>3
  <2> QED
    BY <2>1, <2>2
<1>7. taken + position + len = taken' + position'
  BY <1>3, <1>4, <1>5
<1>8. length' = written' - taken' - position' /\ length' \in Nat
  BY <1>1, <1>3, <1>4, <1>5 DEF ByteTypeOK
<1>9. ByteTypeOK'
  BY <1>1, <1>3, <1>4, <1>5, <1>6, <1>8 DEF ByteTypeOK, Segment
<1>10. ReadInv'
  BY <1>1, <1>2, <1>3, <1>4, <1>5 DEF ReadInv
<1> QED
  BY <1>4, <1>6, <1>7, <1>8, <1>9, <1>10 DEF ByteInv

(* What a read() that ends has copied. *)
LEMMA EndGood ==
  ASSUME ByteInv, EndByteRead
  PROVE  LET m == IF want < written - taken THEN want ELSE written - taken IN
         /\ m = position /\ m \in Nat /\ taken + m <= written
         /\ SubSeq(dst, 1, m) \in Seq(Int) /\ Len(SubSeq(dst, 1, m)) = m
         /\ \A i \in 1..m : SubSeq(dst, 1, m)[i] = taken + i
<1>1. ByteTypeOK /\ length = written - taken - position /\ ReadInv
  BY DEF ByteInv
<1>2. reading # "no" /\ ~(position < want /\ length > 0)
  BY DEF EndByteRead
<1>3. /\ want \in Nat /\ Len(dst) = want /\ position <= want
      /\ \A i \in 1..position : dst[i] = taken + i
  BY <1>1, <1>2 DEF ReadInv
<1>4. /\ taken \in Nat /\ position \in Nat /\ written \in Nat /\ length \in Nat
      /\ dst \in Seq(Int)
  BY <1>1 DEF ByteTypeOK
<1>5. position = (IF want < written - taken THEN want ELSE written - taken)
      /\ taken + position <= written
  BY <1>1, <1>2, <1>3, <1>4
<1>6. \A i \in 1..position : dst[i] \in Int
  BY <1>3, <1>4
<1>7. /\ SubSeq(dst, 1, position) \in Seq(Int) /\ Len(SubSeq(dst, 1, position)) = position
      /\ \A i \in 1..position : SubSeq(dst, 1, position)[i] = dst[i]
  <2>1. /\ SubSeq(dst, 1, position) \in Seq(Int)
        /\ Len(SubSeq(dst, 1, position)) = IF 1 <= position THEN position - 1 + 1 ELSE 0
        /\ \A i \in 1..(position - 1 + 1) : SubSeq(dst, 1, position)[i] = dst[1 + i - 1]
    BY <1>4, <1>6, SubSeqProperties
  <2> QED
    BY <2>1, <1>4
<1> QED
  BY <1>3, <1>4, <1>5, <1>7

(* The end of read(): the bytes are taken, or put back as one ByteString.  *)
LEMMA EndByteInv ==
  ASSUME ByteInv, EndByteRead
  PROVE  ByteInv'
<1>1. ByteTypeOK /\ length = written - taken - position /\ ReadInv
      /\ Lies(buffer, taken + position, written)
  BY DEF ByteInv
<1>2. /\ reading' = "no" /\ want' = 0 /\ dst' = <<>> /\ position' = 0
      /\ result' = SubSeq(dst, 1, position) /\ written' = written
  BY DEF EndByteRead
<1>3. /\ taken \in Nat /\ position \in Nat /\ written \in Nat /\ dst \in Seq(Int)
      /\ taken + position <= written
      /\ result' \in Seq(Int)
  BY <1>1, <1>2, EndGood DEF ByteTypeOK
<1>4. ReadInv'
  BY <1>2 DEF ReadInv
<1>5. CASE reading = "keep"
  <2> DEFINE s == [bytes |-> dst, offset |-> 0, length |-> position]
  <2>1. buffer' = << s >> /\ length' = position /\ taken' = taken
    BY <1>5 DEF EndByteRead
  <2>2. /\ want = written - taken /\ Len(dst) = want
        /\ \A i \in 1..position : dst[i] = taken + i
    BY <1>1, <1>5 DEF ReadInv
  <2>3. position = written - taken
    BY <1>3, <2>2, EndGood
  <2>4. s \in Segment /\ s.length = position /\ Has(s, taken, taken + s.length)
    BY <1>3, <2>2, <2>3 DEF Segment, Has
  <2> HIDE DEF s
  <2>5. buffer' = Append(<<>>, s) /\ <<>> \in Seq(Segment)
    BY <2>1
  <2>6. Lies(<<>>, taken, taken)
    BY <1>3, NothingLies
  <2>7. Lies(buffer', taken, taken + s.length)
    BY <1>3, <2>4, <2>5, <2>6, MoreLies
  <2>8. taken + s.length = written' /\ taken' + position' = taken
    BY <1>2, <1>3, <2>1, <2>3, <2>4
  <2>9. buffer' \in Seq(Segment)
    BY <2>4, <2>5, AppendProperties
  <2>10. ByteTypeOK'
    BY <1>2, <1>3, <2>1, <2>9 DEF ByteTypeOK, Segment
  <2>11. length' = written' - taken' - position'
    BY <1>2, <1>3, <2>1, <2>3
  <2> QED
    BY <1>4, <2>7, <2>8, <2>10, <2>11 DEF ByteInv
<1>6. CASE reading = "read"
  <2>1. buffer' = buffer /\ length' = length /\ taken' = taken + position
    BY <1>6 DEF EndByteRead
  <2>2. ByteTypeOK'
    BY <1>1, <1>2, <1>3, <2>1 DEF ByteTypeOK
  <2>3. taken' + position' = taken + position /\ length' = written' - taken' - position'
    BY <1>1, <1>2, <1>3, <2>1
  <2> QED
    BY <1>1, <1>2, <1>4, <2>1, <2>2, <2>3 DEF ByteInv
<1>7. reading \in {"read", "keep"}
  BY <1>1 DEF ByteTypeOK, EndByteRead
<1> QED
  BY <1>5, <1>6, <1>7

-----------------------------------------------------------------------------
(* One case for each call and step. *)
LEMMA NextByteInv ==
  ASSUME ByteInv, [ByteNext]_byteVars
  PROVE  ByteInv'
<1>1. CASE \E k \in 0..MaxBytes, a, b \in 0..MaxAround : ByteRoom(k) /\ ByteWrite(k, a, b)
  <2> PICK k \in 0..MaxBytes, a \in 0..MaxAround, b \in 0..MaxAround : ByteWrite(k, a, b)
    BY <1>1
  <2> k \in Nat /\ a \in Nat /\ b \in Nat
    BY ByteIOAssumption
  <2> QED
    BY WriteByteInv
<1>2. CASE \E w \in Wants : BeginByteRead(w, "read")
  BY <1>2, BeginByteInv, ByteIOAssumption
<1>3. CASE BeginByteRead(length, "read") \/ BeginByteRead(length, "keep")
  <2>1. length \in Int
    BY DEF ByteInv, ByteTypeOK
  <2> QED
    BY <1>3, <2>1, BeginByteInv
<1>4. CASE CopySegment
  BY <1>4, CopyByteInv
<1>5. CASE EndByteRead
  BY <1>5, EndByteInv
<1>6. CASE UNCHANGED byteVars
  BY <1>6 DEF byteVars, ByteInv, ByteTypeOK, ReadInv
<1> QED
  BY <1>1, <1>2, <1>3, <1>4, <1>5, <1>6 DEF ByteNext

(* The list, the length and the bytes of a read() that is running agree    *)
(* in every reachable state (io-engine.js:114-173).                        *)
THEOREM ByteIOConsistent == ByteSpec => []ByteInv
<1>1. ByteInit => ByteInv
  BY InitByteInv
<1>2. ByteInv /\ [ByteNext]_byteVars => ByteInv'
  BY NextByteInv
<1> QED
  BY <1>1, <1>2, PTL DEF ByteSpec

(* What a ByteIO keeps has its type, and this.length is never negative     *)
(* (io-engine.js:128-141).                                                 *)
THEOREM ByteTypesCorrect == ByteSpec => []ByteTypeOK
<1>1. ByteInv => ByteTypeOK
  BY DEF ByteInv
<1> QED
  BY <1>1, ByteIOConsistent, PTL

-----------------------------------------------------------------------------
(* What is held, as a sequence. *)
LEMMA HeldIsSeq ==
  ASSUME ByteInv
  PROVE  /\ taken \in Nat /\ written \in Nat /\ taken <= written
         /\ Held \in Seq(Int) /\ Len(Held) = written - taken
         /\ \A i \in 1..(written - taken) : Held[i] = taken + i
<1>1. taken \in Nat /\ written \in Nat /\ taken <= written
  BY DEF ByteInv, ByteTypeOK
<1>2. Held \in [1..(written - taken) -> Int]
  BY <1>1 DEF Held
<1>3. \A i \in 1..(written - taken) : Held[i] = taken + i
  BY <1>1 DEF Held
<1>4. Held \in Seq(Int) /\ Len(Held) = written - taken
  BY <1>1, <1>2, FunctionIsSeq
<1> QED
  BY <1>1, <1>3, <1>4

(* The same of what is held after a step. *)
LEMMA HeldIsSeqNext ==
  ByteInv' => (/\ Held \in Seq(Int) /\ Len(Held) = written - taken
               /\ \A i \in 1..(written - taken) : Held[i] = taken + i)'
<1>1. ByteInv => /\ Held \in Seq(Int) /\ Len(Held) = written - taken
                 /\ \A i \in 1..(written - taken) : Held[i] = taken + i
  BY HeldIsSeq
<1> QED
  BY <1>1, PTL

(* The refinement of the queue of bytes: it begins empty. *)
LEMMA InitFifo == ByteInit => Fifo!FifoInit
<1> SUFFICES ASSUME ByteInit PROVE Fifo!FifoInit
  OBVIOUS
<1>1. Held \in Seq(Int) /\ Len(Held) = 0
  BY InitByteInv, HeldIsSeq DEF ByteInit
<1>2. Held = <<>>
  BY <1>1
<1> QED
  BY <1>2 DEF Fifo!FifoInit, ByteInit

(* write() puts. *)
LEMMA WriteFifo ==
  ASSUME ByteInv, ByteInv', NEW k \in 0..MaxBytes, NEW a, NEW b, ByteWrite(k, a, b)
  PROVE  Fifo!FifoNext
<1> DEFINE more == [i \in 1..k |-> written + i]
<1>1. written' = written + k /\ UNCHANGED <<taken, result>>
  BY DEF ByteWrite
<1>2. k \in Nat
  BY ByteIOAssumption
<1>3. /\ taken \in Nat /\ written \in Nat /\ taken <= written
      /\ Held \in Seq(Int) /\ Len(Held) = written - taken
      /\ \A i \in 1..(written - taken) : Held[i] = taken + i
  BY HeldIsSeq
<1>4. /\ Held' \in Seq(Int) /\ Len(Held') = written' - taken'
      /\ \A i \in 1..(written' - taken') : Held'[i] = taken' + i
  BY HeldIsSeqNext
<1>5. more \in Seq(Int) /\ Len(more) = k /\ \A i \in 1..k : more[i] = written + i
  <2>1. more \in [1..k -> Int]
    BY <1>3
  <2> QED
    BY <2>1, <1>2, FunctionIsSeq
<1> HIDE DEF more
<1>6. /\ Held \o more \in Seq(Int) /\ Len(Held \o more) = Len(Held) + k
      /\ \A i \in 1..(Len(Held) + k) : (Held \o more)[i] =
            IF i <= Len(Held) THEN Held[i] ELSE more[i - Len(Held)]
  BY <1>3, <1>5, ConcatProperties
<1>7. Len(Held') = Len(Held \o more)
  BY <1>1, <1>2, <1>3, <1>4, <1>6
<1>8. ASSUME NEW i \in 1..Len(Held') PROVE Held'[i] = (Held \o more)[i]
  <2>1. i \in 1..(Len(Held) + k) /\ i \in 1..(written' - taken')
    BY <1>1, <1>2, <1>3, <1>4
  <2>2. Held'[i] = taken + i
    BY <2>1, <1>1, <1>4
  <2>3. CASE i <= Len(Held)
    BY <2>1, <2>2, <2>3, <1>3, <1>6
  <2>4. CASE ~(i <= Len(Held))
    <3>1. i - Len(Held) \in 1..k /\ written + (i - Len(Held)) = taken + i
      BY <2>1, <2>4, <1>2, <1>3
    <3> QED
      BY <2>1, <2>2, <2>4, <3>1, <1>5, <1>6
  <2> QED
    BY <2>3, <2>4
<1>9. Held' = Held \o more
  BY <1>4, <1>6, <1>7, <1>8, SeqEqual
<1>10. Fifo!Put(k)
  BY <1>1, <1>9 DEF Fifo!Put, more
<1> QED
  BY <1>10 DEF Fifo!FifoNext

(* A step that changes neither what is held nor the result. *)
LEMMA StutterFifo ==
  ASSUME UNCHANGED <<written, taken, result>>
  PROVE  UNCHANGED Fifo!fifoVars
BY DEF Fifo!fifoVars, Held

(* read() with nothing to copy gets nothing; an allocation that fails is a *)
(* call that throws.                                                       *)
LEMMA BeginFifo ==
  ASSUME ByteInv, NEW w \in Int, NEW for \in {"read", "keep"}, BeginByteRead(w, for),
         w \in Wants \/ w = length
  PROVE  [Fifo!FifoNext]_(Fifo!fifoVars)
<1>1. /\ taken \in Nat /\ written \in Nat /\ taken <= written
      /\ Held \in Seq(Int) /\ Len(Held) = written - taken
  BY HeldIsSeq
<1>2. UNCHANGED <<written, taken>> /\ Held' = Held
  BY DEF BeginByteRead, Held
<1>3. length = Len(Held)
  BY <1>1 DEF BeginByteRead, ByteInv, ReadInv, ByteTypeOK
<1>4. CASE w <= 0 /\ result' = <<>>
  <2> DEFINE m == IF w < 0 THEN 0 ELSE IF w < Len(Held) THEN w ELSE Len(Held)
  <2>1. m = 0
    BY <1>1, <1>4
  <2>2. SubSeq(Held, 1, m) = <<>>
    BY <2>1, SubSeqEmpty
  <2>3. SubSeq(Held, m + 1, Len(Held)) = Held
    BY <2>1, <1>1, SubSeqFull
  <2>4. Fifo!Get(w, for = "keep")
    BY <1>2, <1>4, <2>2, <2>3 DEF Fifo!Get
  <2>5. for = "keep" => w = Len(Held)
    BY <1>3 DEF BeginByteRead
  <2> QED
    BY <1>3, <2>4, <2>5 DEF Fifo!FifoNext
<1>5. CASE UNCHANGED result
  BY <1>2, <1>5, StutterFifo
<1>6. CASE result' = Error
  BY <1>2, <1>6 DEF Fifo!FifoNext, Fifo!Fails
<1> QED
  BY <1>4, <1>5, <1>6 DEF BeginByteRead

(* The end of read() is the point at which it gets. *)
LEMMA EndFifo ==
  ASSUME ByteInv, ByteInv', EndByteRead
  PROVE  Fifo!FifoNext
<1> DEFINE m == IF want < 0 THEN 0 ELSE IF want < Len(Held) THEN want ELSE Len(Held)
<1>1. /\ taken \in Nat /\ written \in Nat /\ taken <= written
      /\ Held \in Seq(Int) /\ Len(Held) = written - taken
      /\ \A i \in 1..(written - taken) : Held[i] = taken + i
  BY HeldIsSeq
<1>2. /\ want \in Nat
      /\ reading = "keep" => want = Len(Held)
      /\ reading = "read" => want \in Wants \/ want = Len(Held)
  BY <1>1 DEF ByteInv, ReadInv, EndByteRead
<1>3. /\ m = position /\ m \in Nat /\ taken + m <= written
      /\ SubSeq(dst, 1, m) \in Seq(Int) /\ Len(SubSeq(dst, 1, m)) = m
      /\ \A i \in 1..m : SubSeq(dst, 1, m)[i] = taken + i
  BY <1>1, <1>2, EndGood
<1>4. written' = written /\ result' = SubSeq(dst, 1, m)
  BY <1>3 DEF EndByteRead
<1> HIDE DEF m
<1>5. \A i \in 1..Len(Held) : Held[i] \in Int
  BY <1>1
<1>6. /\ SubSeq(Held, 1, m) \in Seq(Int) /\ Len(SubSeq(Held, 1, m)) = m
      /\ \A i \in 1..m : SubSeq(Held, 1, m)[i] = Held[i]
  <2>1. \A i \in 1..m : Held[i] \in Int
    BY <1>1, <1>3, <1>5
  <2>2. /\ SubSeq(Held, 1, m) \in Seq(Int)
        /\ Len(SubSeq(Held, 1, m)) = IF 1 <= m THEN m - 1 + 1 ELSE 0
        /\ \A i \in 1..(m - 1 + 1) : SubSeq(Held, 1, m)[i] = Held[1 + i - 1]
    BY <1>3, <2>1, SubSeqProperties
  <2> QED
    BY <2>2, <1>3
<1>7. \A i \in 1..m : SubSeq(dst, 1, m)[i] = SubSeq(Held, 1, m)[i]
  BY <1>1, <1>3, <1>6
<1>8. result' = SubSeq(Held, 1, m)
  BY <1>3, <1>4, <1>6, <1>7, SeqEqual
<1>9. CASE reading = "keep"
  <2>1. taken' = taken
    BY <1>9 DEF EndByteRead
  <2>2. Held' = Held
    BY <1>4, <2>1 DEF Held
  <2>3. Fifo!Get(want, TRUE)
    BY <1>4, <1>8, <2>2 DEF Fifo!Get, m
  <2> QED
    BY <1>2, <1>9, <2>3 DEF Fifo!FifoNext
<1>10. CASE reading = "read"
  <2>1. taken' = taken + m
    BY <1>3, <1>10 DEF EndByteRead
  <2> DEFINE rest == SubSeq(Held, m + 1, Len(Held))
  <2>2. /\ rest \in Seq(Int) /\ Len(rest) = written - taken - m
        /\ \A i \in 1..(written - taken - m) : rest[i] = taken + m + i
    <3>1. \A i \in (m + 1)..Len(Held) : Held[i] \in Int
      BY <1>3, <1>5
    <3>2. /\ rest \in Seq(Int)
          /\ Len(rest) = IF m + 1 <= Len(Held) THEN Len(Held) - (m + 1) + 1 ELSE 0
          /\ \A i \in 1..(Len(Held) - (m + 1) + 1) : rest[i] = Held[(m + 1) + i - 1]
      BY <1>1, <1>3, <3>1, SubSeqProperties
    <3> HIDE DEF rest
    <3>3. Len(rest) = written - taken - m
      BY <1>1, <1>3, <3>2
    <3>4. ASSUME NEW i \in 1..(written - taken - m) PROVE rest[i] = taken + m + i
      <4>1. i \in 1..(Len(Held) - (m + 1) + 1) /\ (m + 1) + i - 1 \in 1..(written - taken)
            /\ taken + ((m + 1) + i - 1) = taken + m + i
        BY <1>1, <1>3
      <4> QED
        BY <4>1, <3>2, <1>1
    <3> QED
      BY <3>2, <3>3, <3>4
  <2> HIDE DEF rest
  <2>3. /\ Held' \in Seq(Int) /\ Len(Held') = written' - taken'
        /\ \A i \in 1..(written' - taken') : Held'[i] = taken' + i
    BY HeldIsSeqNext
  <2>4. written' - taken' = written - taken - m
    BY <1>1, <1>3, <1>4, <2>1
  <2>5. \A i \in 1..Len(rest) : Held'[i] = rest[i]
    BY <1>1, <1>3, <2>1, <2>2, <2>3, <2>4
  <2>6. Held' = rest
    BY <2>2, <2>3, <2>4, <2>5, SeqEqual
  <2>7. Fifo!Get(want, FALSE)
    BY <1>4, <1>8, <2>6 DEF Fifo!Get, m, rest
  <2> QED
    BY <1>2, <1>10, <2>7 DEF Fifo!FifoNext
<1>11. reading \in {"read", "keep"}
  BY DEF ByteInv, ByteTypeOK, EndByteRead
<1> QED
  BY <1>9, <1>10, <1>11

(* One case for each call and step. *)
LEMMA NextFifo ==
  ASSUME ByteInv, ByteInv', [ByteNext]_byteVars
  PROVE  [Fifo!FifoNext]_(Fifo!fifoVars)
<1>1. CASE \E k \in 0..MaxBytes, a, b \in 0..MaxAround : ByteRoom(k) /\ ByteWrite(k, a, b)
  BY <1>1, WriteFifo
<1>2. CASE \E w \in Wants : BeginByteRead(w, "read")
  BY <1>2, BeginFifo, ByteIOAssumption
<1>3. CASE BeginByteRead(length, "read") \/ BeginByteRead(length, "keep")
  <2>1. length \in Int
    BY DEF ByteInv, ByteTypeOK
  <2> QED
    BY <1>3, <2>1, BeginFifo
<1>4. CASE CopySegment
  <2>1. UNCHANGED <<written, taken, result>>
    BY <1>4, CopyByteInv DEF CopySegment
  <2> QED
    BY <2>1, StutterFifo
<1>5. CASE EndByteRead
  BY <1>5, EndFifo
<1>6. CASE UNCHANGED byteVars
  BY <1>6, StutterFifo DEF byteVars
<1> QED
  BY <1>1, <1>2, <1>3, <1>4, <1>5, <1>6 DEF ByteNext

(* A ByteIO implements a queue of bytes, whatever is written and asked for *)
(* (io-engine.js:114-173, binary-engine.cc:115-140).                       *)
THEOREM ByteIOImplementsFifo == ByteSpec => ImplementsFifo
<1>1. ByteInit => Fifo!FifoInit
  BY InitFifo
<1>2. ByteInv /\ ByteInv' /\ [ByteNext]_byteVars => [Fifo!FifoNext]_(Fifo!fifoVars)
  BY NextFifo
<1> QED
  BY <1>1, <1>2, ByteIOConsistent, PTL DEF ByteSpec, ImplementsFifo

-----------------------------------------------------------------------------
Less == {q \in Nat \X Nat : q[1] < q[2]}

(* Every set of numbers has a least one. *)
LEMMA LeastNumber ==
  ASSUME NEW S \in SUBSET Nat, S # {}
  PROVE  \E s \in S : \A t \in S : s <= t
<1>1. IsWellFoundedOn(Less, Nat)
  BY NatLessThanWellFounded, Zenon DEF OpToRel, Less
<1>2. PICK s \in S : \A t \in S : <<t, s>> \notin Less
  BY <1>1, WFMin
<1>3. ASSUME NEW t \in S PROVE s <= t
  <2>1. s \in Nat /\ t \in Nat
    OBVIOUS
  <2>2. <<t, s>> \notin Less
    BY <1>2
  <2>3. ~(t < s)
    BY <2>1, <2>2, Zenon DEF Less
  <2>. QED BY <2>1, <2>3
<1>. QED BY <1>3

(* A character has one to four pieces. *)
LEMMA WidthIs == \A kind, encoding : Width(kind, encoding) \in 1..4
BY DEF Width

(* A text has pieces, and the pieces behind its first ones are fewer. *)
LEMMA Shorter ==
  ASSUME NEW s \in Seq(Piece), s # <<>>, NEW w \in Nat \ {0}
  PROVE  /\ Tail(s) \in Seq(Piece) /\ Len(Tail(s)) < Len(s)
         /\ SubSeq(s, w + 1, Len(s)) \in Seq(Piece)
         /\ Len(SubSeq(s, w + 1, Len(s))) < Len(s)
OBVIOUS

(* What becomes of a text depends on what becomes of shorter ones. *)
LEMMA TurnedLocal ==
  ASSUME NEW txt, NEW s \in Seq(Piece), NEW enc, NEW r \in Nat, NEW skip, NEW g, NEW h,
         \A t \in Seq(Piece) : Len(t) < Len(s) => g[t] = h[t]
  PROVE  Turned(txt, s, enc, r, skip, g) = Turned(txt, s, enc, r, skip, h)
<1>. DEFINE w == Width(txt[Head(s)[1]], enc)
<1>1. CASE s = <<>>
  <2>1. Front(txt, s, enc) = "done"
    BY <1>1 DEF Front
  <2>. QED BY <2>1 DEF Turned
<1>2. CASE s # <<>>
  <2>1. w \in Nat \ {0}
    BY WidthIs
  <2>. HIDE DEF w
  <2>2. g[Tail(s)] = h[Tail(s)] /\ g[SubSeq(s, w + 1, Len(s))] = h[SubSeq(s, w + 1, Len(s))]
    BY <1>2, <2>1, Shorter
  <2>. QED BY <2>2 DEF Turned, w
<1>. QED BY <1>1, <1>2

(* Convert is what its recursive definition says of it. *)
Short(p) == {s \in Seq(Piece) : Len(s) <= p}
Converts(txt, enc, skip, g, p) ==
  g = [s \in Short(p) |-> [r \in Nat |-> Turned(txt, s, enc, r, skip, g)]]

(* There is a function that does what Convert says, on texts up to any     *)
(* length,                                                                 *)
LEMMA ConvertsOn ==
  ASSUME NEW txt, NEW enc, NEW skip, NEW p \in Nat
  PROVE  \E g : Converts(txt, enc, skip, g, p)
<1>. DEFINE Of(g, m) == Converts(txt, enc, skip, g, m)
            Missing == {m \in Nat : ~\E g : Of(g, m)}
            Row(g, s) == [r \in Nat |-> Turned(txt, s, enc, r, skip, g)]
<1>1. Missing = {}
  <2>. SUFFICES ASSUME Missing # {} PROVE FALSE
    OBVIOUS
  <2>1. PICK m \in Missing : \A t \in Missing : m <= t
    <3>. HIDE DEF Missing
    <3>1. Missing \in SUBSET Nat
      BY DEF Missing
    <3>. QED BY <3>1, LeastNumber
  <2>2. m \in Nat /\ ~\E g : Of(g, m)
    BY <2>1
  <2>3. \E g : \A s \in Short(m) : Len(s) < m => s \in DOMAIN g /\ g[s] = Row(g, s)
    <3>1. CASE m = 0
      <4>1. \A s \in Short(m) : ~(Len(s) < m)
        BY <3>1 DEF Short
      <4>. QED BY <4>1
    <3>2. CASE m # 0
      <4>1. m - 1 \in Nat /\ m - 1 \notin Missing
        <5>. HIDE DEF Missing
        <5>. QED BY <2>1, <2>2, <3>2
      <4>2. PICK g : Of(g, m - 1)
        BY <4>1
      <4>3. \A s \in Short(m) : Len(s) < m => s \in Short(m - 1)
        BY <2>2 DEF Short
      <4>4. DOMAIN g = Short(m - 1) /\ \A s \in Short(m - 1) : g[s] = Row(g, s)
        BY <4>2 DEF Converts
      <4>. QED BY <4>3, <4>4
    <3>. QED BY <3>1, <3>2
  <2>4. PICK g : \A s \in Short(m) : Len(s) < m => s \in DOMAIN g /\ g[s] = Row(g, s)
    BY <2>3
  <2>. DEFINE h == [s \in Short(m) |-> Row(g, s)]
  <2>5. ASSUME NEW s \in Short(m) PROVE Row(h, s) = Row(g, s)
    <3>1. s \in Seq(Piece) /\ Len(s) <= m /\ Len(s) \in Nat
      BY DEF Short
    <3>2. ASSUME NEW t \in Seq(Piece), Len(t) < Len(s) PROVE h[t] = g[t]
      <4>1. t \in Short(m) /\ Len(t) < m
        BY <2>2, <3>1, <3>2 DEF Short
      <4>. QED BY <2>4, <4>1
    <3>. HIDE DEF h
    <3>3. ASSUME NEW r \in Nat
          PROVE  Turned(txt, s, enc, r, skip, h) = Turned(txt, s, enc, r, skip, g)
      BY <3>1, <3>2, TurnedLocal
    <3>. QED BY <3>3
  <2>6. Of(h, m)
    <3>1. h = [s \in Short(m) |-> Row(h, s)]
      BY <2>5
    <3>. QED BY <3>1 DEF Converts
  <2>. QED BY <2>2, <2>6
<1>. QED BY <1>1

(* and two of them agree where both are defined, *)
LEMMA ConvertsOne ==
  ASSUME NEW txt, NEW enc, NEW skip, NEW p \in Nat, NEW m \in Nat, NEW g, NEW h,
         Converts(txt, enc, skip, g, p), Converts(txt, enc, skip, h, m),
         NEW s \in Seq(Piece), Len(s) <= p, Len(s) <= m
  PROVE  g[s] = h[s]
<1>. DEFINE Differ == {k \in Nat : \E t \in Seq(Piece) : Len(t) = k /\ k <= p /\ k <= m /\ g[t] # h[t]}
<1>. SUFFICES ASSUME Differ # {} PROVE FALSE
  <2>1. Len(s) \in Nat
    OBVIOUS
  <2>. QED BY <2>1
<1>1. PICK k \in Differ : \A t \in Differ : k <= t
  <2>. HIDE DEF Differ
  <2>1. Differ \in SUBSET Nat
    BY DEF Differ
  <2>. QED BY <2>1, LeastNumber
<1>2. PICK t \in Seq(Piece) : Len(t) = k /\ k <= p /\ k <= m /\ g[t] # h[t]
  OBVIOUS
<1>3. ASSUME NEW u \in Seq(Piece), Len(u) < Len(t) PROVE g[u] = h[u]
  <2>1. Len(u) \in Nat /\ Len(u) < k /\ Len(u) <= p /\ Len(u) <= m
    BY <1>2, <1>3
  <2>2. Len(u) \notin Differ
    <3>. HIDE DEF Differ
    <3>. QED BY <1>1, <1>2, <2>1
  <2>. QED BY <2>1, <2>2
<1>4. g[t] = [r \in Nat |-> Turned(txt, t, enc, r, skip, g)]
  BY <1>2 DEF Converts, Short
<1>5. h[t] = [r \in Nat |-> Turned(txt, t, enc, r, skip, h)]
  BY <1>2 DEF Converts, Short
<1>6. ASSUME NEW r \in Nat
      PROVE  Turned(txt, t, enc, r, skip, g) = Turned(txt, t, enc, r, skip, h)
  BY <1>3, TurnedLocal
<1>. QED BY <1>2, <1>4, <1>5, <1>6

Converter(txt, enc, skip) ==
  CHOOSE f : f = [s \in Seq(Piece) |-> [r \in Nat |-> Turned(txt, s, enc, r, skip, f)]]

(* so that there is one on all texts, and Convert is it. *)
LEMMA ConvertStep ==
  ASSUME NEW txt, NEW enc, NEW skip, NEW s \in Seq(Piece), NEW r \in Nat
  PROVE  /\ Convert(txt, s, enc, r, skip) = Converter(txt, enc, skip)[s][r]
         /\ Converter(txt, enc, skip)[s][r]
              = Turned(txt, s, enc, r, skip, Converter(txt, enc, skip))
<1>. DEFINE Of(g, p) == Converts(txt, enc, skip, g, p)
            Row(g, v) == [q \in Nat |-> Turned(txt, v, enc, q, skip, g)]
            Best(p) == CHOOSE g : Of(g, p)
            G == [v \in Seq(Piece) |-> Best(Len(v))[v]]
<1>1. \A p \in Nat : Of(Best(p), p)
  BY ConvertsOn
<1>2. ASSUME NEW u \in Seq(Piece) PROVE G[u] = Row(G, u)
  <2>1. Len(u) \in Nat
    OBVIOUS
  <2>2. Best(Len(u))[u] = Row(Best(Len(u)), u)
    <3>1. Of(Best(Len(u)), Len(u))
      BY <1>1, <2>1
    <3>. HIDE DEF Best
    <3>2. u \in Short(Len(u))
      BY <2>1 DEF Short
    <3>. QED BY <3>1, <3>2, Zenon DEF Converts
  <2>3. ASSUME NEW t \in Seq(Piece), Len(t) < Len(u) PROVE Best(Len(u))[t] = G[t]
    <3>1. Len(t) \in Nat /\ Len(t) <= Len(u) /\ Len(t) <= Len(t)
      BY <2>1, <2>3
    <3>. HIDE DEF Best
    <3>2. Best(Len(u))[t] = Best(Len(t))[t]
      BY <1>1, <2>1, <3>1, ConvertsOne
    <3>. QED BY <3>2
  <2>. HIDE DEF G, Best
  <2>4. ASSUME NEW q \in Nat
        PROVE  Turned(txt, u, enc, q, skip, Best(Len(u))) = Turned(txt, u, enc, q, skip, G)
    BY <2>3, TurnedLocal
  <2>5. Row(Best(Len(u)), u) = Row(G, u)
    BY <2>4
  <2>. QED BY <2>2, <2>5 DEF G
<1>. DEFINE Whole(f) == f = [u \in Seq(Piece) |-> Row(f, u)]
            f == Converter(txt, enc, skip)
<1>3. Whole(G)
  <2>1. G = [u \in Seq(Piece) |-> G[u]]
    OBVIOUS
  <2>. HIDE DEF G
  <2>. QED BY <1>2, <2>1
<1>4. Whole(f)
  <2>1. f = CHOOSE g : Whole(g)
    BY DEF Converter
  <2>. HIDE DEF G, Whole, f
  <2>. QED BY <1>3, <2>1
<1>5. Convert(txt, s, enc, r, skip) = f[s][r]
  BY DEF Convert, Converter
<1>. HIDE DEF f
<1>6. f[s] = Row(f, s)
  BY <1>4, Zenon
<1>7. f[s][r] = Turned(txt, s, enc, r, skip, f)
  BY <1>6
<1>. QED BY <1>5, <1>7 DEF f

-----------------------------------------------------------------------------
(* What is in front of iconv() becomes Made, and Behind is left.           *)
Made(txt, s, enc) == Character(txt, Head(s)[1], Other(enc))
Behind(txt, s, enc) == SubSeq(s, Width(txt[Head(s)[1]], enc) + 1, Len(s))

(* What can be in front of iconv(). *)
LEMMA FrontIs ==
  ASSUME NEW txt, NEW enc, NEW s \in Seq(Piece)
  PROVE  /\ Front(txt, s, enc) \in {"done", "EILSEQ", "EINVAL", "character"}
         /\ Front(txt, s, enc) = "done" <=> s = <<>>
         /\ Front(txt, s, enc) = "character" =>
              /\ Head(s)[2] = 1 /\ Len(s) >= Width(txt[Head(s)[1]], enc)
              /\ txt[Head(s)[1]] \notin {"bad", "cut"}
BY WidthIs DEF Front

(* What a character becomes. *)
LEMMA MadeIs ==
  ASSUME NEW txt, NEW enc, NEW s \in Seq(Piece), s # <<>>
  PROVE  /\ Made(txt, s, enc) \in Seq(Piece)
         /\ Len(Made(txt, s, enc)) = Width(txt[Head(s)[1]], Other(enc))
         /\ Len(Made(txt, s, enc)) \in 1..4
         /\ Len(Made(txt, s, enc)) <= 2 * Width(txt[Head(s)[1]], enc)
<1>. DEFINE i == Head(s)[1]
            w == Width(txt[i], Other(enc))
<1>1. i \in Nat /\ w \in 1..4
  <2>1. Head(s) \in Piece
    OBVIOUS
  <2>. QED BY <2>1, WidthIs DEF Piece
<1>2. w <= 2 * Width(txt[i], enc)
  BY DEF Width, Other
<1>. HIDE DEF w
<1>3. [j \in 1..w |-> <<i, j>>] \in Seq(Piece) /\ Len([j \in 1..w |-> <<i, j>>]) = w
  <2>1. \A j \in 1..w : <<i, j>> \in Piece
    BY <1>1 DEF Piece
  <2>2. [j \in 1..w |-> <<i, j>>] \in [1..w -> Piece]
    BY <2>1
  <2>. QED BY <1>1, <2>2
<1>. QED BY <1>1, <1>2, <1>3 DEF Made, Character, w

(* What is behind a character is shorter. *)
LEMMA BehindIs ==
  ASSUME NEW txt, NEW enc, NEW s \in Seq(Piece), Front(txt, s, enc) = "character"
  PROVE  /\ s # <<>> /\ Behind(txt, s, enc) \in Seq(Piece)
         /\ Len(Behind(txt, s, enc)) = Len(s) - Width(txt[Head(s)[1]], enc)
         /\ Len(Behind(txt, s, enc)) < Len(s) /\ Len(Behind(txt, s, enc)) \in Nat
<1>. DEFINE w == Width(txt[Head(s)[1]], enc)
<1>1. w \in 1..4 /\ s # <<>> /\ w <= Len(s)
  BY WidthIs, FrontIs DEF Front
<1>. HIDE DEF w
<1>2. SubSeq(s, w + 1, Len(s)) \in Seq(Piece) /\ Len(SubSeq(s, w + 1, Len(s))) = Len(s) - w
  BY <1>1
<1>. QED BY <1>1, <1>2 DEF Behind, w

(* One turn of iconv(). *)
Turns(txt, enc, skip, s, r) ==
  LET front == Front(txt, s, enc)
      made == Made(txt, s, enc)
      x == Convert(txt, s, enc, r, skip)
      y == Convert(txt, Behind(txt, s, enc), enc, r - Len(made), skip) IN
  /\ front = "EILSEQ" /\ skip => x = Convert(txt, Tail(s), enc, r, skip)
  /\ front # "character" /\ ~(front = "EILSEQ" /\ skip) =>
       x = [out |-> <<>>, left |-> s, stop |-> front]
  /\ front = "character" /\ r < Len(made) =>
       x = [out |-> <<>>, left |-> s, stop |-> "E2BIG"]
  /\ front = "character" /\ r >= Len(made) =>
       x = [out |-> made \o y.out, left |-> y.left, stop |-> y.stop]

(* Every turn of iconv(). *)
LEMMA ConvertIs ==
  ASSUME NEW txt, NEW enc, NEW skip \in BOOLEAN, NEW s \in Seq(Piece), NEW r \in Nat
  PROVE  Turns(txt, enc, skip, s, r)
<1>. DEFINE f == Converter(txt, enc, skip)
<1>1. ASSUME NEW t \in Seq(Piece), NEW q \in Nat
      PROVE  Convert(txt, t, enc, q, skip) = f[t][q]
  BY ConvertStep
<1>. DEFINE front == Front(txt, s, enc)
            made == Made(txt, s, enc)
            x == Convert(txt, s, enc, r, skip)
            rest == Behind(txt, s, enc)
            y == Convert(txt, rest, enc, r - Len(made), skip)
<1>2. x = Turned(txt, s, enc, r, skip, f)
  <2>1. Convert(txt, s, enc, r, skip) = Converter(txt, enc, skip)[s][r]
    BY ConvertStep
  <2>2. Converter(txt, enc, skip)[s][r] = Turned(txt, s, enc, r, skip, Converter(txt, enc, skip))
    BY ConvertStep
  <2>. HIDE DEF Converter
  <2>. QED BY ONLY <2>1, <2>2 DEF f, x
<1>. HIDE DEF f
<1>3. CASE front = "EILSEQ" /\ skip
  <2>1. s # <<>> /\ Tail(s) \in Seq(Piece)
    BY <1>3, FrontIs
  <2>2. x = f[Tail(s)][r]
    BY <1>2, <1>3 DEF Turned
  <2>. QED BY <1>1, <1>3, <2>1, <2>2 DEF Turns
<1>4. CASE front # "character" /\ ~(front = "EILSEQ" /\ skip)
  BY <1>2, <1>4 DEF Turned, Turns
<1>5. CASE front = "character" /\ r < Len(made)
  BY <1>2, <1>5 DEF Turned, Made, Turns
<1>6. CASE front = "character" /\ r >= Len(made)
  <2>1. s # <<>> /\ rest \in Seq(Piece) /\ Len(made) \in 1..4
    BY <1>6, BehindIs, MadeIs
  <2>2. r - Len(made) \in Nat
    BY SMTT(40), <1>6, <2>1
  <2>3. y = f[rest][r - Len(made)]
    BY SMTT(40), <1>1, <2>1, <2>2
  <2>4. ~(r < Len(made))
    BY SMTT(40), <1>6, <2>1
  <2>5. x = [out |-> made \o f[rest][r - Len(made)].out, left |-> f[rest][r - Len(made)].left,
             stop |-> f[rest][r - Len(made)].stop]
    BY <1>2, <1>6, <2>4 DEF Turned, Made, Behind
  <2>. QED BY ZenonT(40), <1>6, <2>3, <2>4, <2>5 DEF Turns
<1>7. r < Len(made) \/ r >= Len(made) \/ front # "character"
  <2>1. front = "character" => Len(made) \in 1..4
    BY BehindIs, MadeIs
  <2>. QED BY <2>1
<1>. QED BY <1>3, <1>4, <1>5, <1>6, <1>7 DEF Turns

(* Of a set of texts one is the shortest. *)
LEMMA ShortestOne ==
  ASSUME NEW S \in SUBSET Seq(Piece), S # {}
  PROVE  \E s \in S : \A t \in Seq(Piece) : Len(t) < Len(s) => t \notin S
<1>. DEFINE L == {k \in Nat : \E s \in S : Len(s) = k}
<1>1. L # {}
  <2>1. PICK s \in S : TRUE
    OBVIOUS
  <2>2. Len(s) \in L
    BY <2>1
  <2>. QED BY <2>2
<1>2. PICK k \in L : \A m \in L : k <= m
  <2>1. L \in SUBSET Nat
    OBVIOUS
  <2>. HIDE DEF L
  <2>. QED BY <1>1, <2>1, LeastNumber
<1>3. PICK s \in S : Len(s) = k
  BY <1>2
<1>4. ASSUME NEW t \in Seq(Piece), Len(t) < Len(s) PROVE t \notin S
  <2>1. Len(t) \in Nat /\ ~(k <= Len(t)) /\ k \in Nat
    BY <1>3, <1>4
  <2>2. Len(t) \notin L
    <3>. HIDE DEF L
    <3>. QED BY <1>2, <2>1
  <2>. QED BY <2>1, <2>2
<1>. QED BY <1>4

-----------------------------------------------------------------------------
(* A character that begins in s goes on to its end. *)
Complete(txt, enc, s) ==
  \A k \in 1..Len(s) :
    s[k][2] < Width(txt[s[k][1]], enc) => k < Len(s) /\ s[k + 1] = <<s[k][1], s[k][2] + 1>>

(* Texts without half a character joined have no half a character, *)
LEMMA CompleteConcat ==
  ASSUME NEW txt, NEW enc, NEW a \in Seq(Piece), NEW b \in Seq(Piece),
         Complete(txt, enc, a), Complete(txt, enc, b)
  PROVE  Complete(txt, enc, a \o b)
<1>. DEFINE c == a \o b
            Next(s, k) == k < Len(s) /\ s[k + 1] = <<s[k][1], s[k][2] + 1>>
            Amid(s, k) == s[k][2] < Width(txt[s[k][1]], enc)
<1>1. /\ c \in Seq(Piece) /\ Len(c) = Len(a) + Len(b) /\ Len(a) \in Nat /\ Len(b) \in Nat
      /\ \A i \in 1..Len(c) : c[i] = IF i <= Len(a) THEN a[i] ELSE b[i - Len(a)]
  OBVIOUS
<1>2. (\A k \in 1..Len(a) : Amid(a, k) => Next(a, k)) /\ (\A k \in 1..Len(b) : Amid(b, k) => Next(b, k))
  BY DEF Complete
<1>. HIDE DEF c
<1>. SUFFICES ASSUME NEW k \in 1..Len(c), Amid(c, k) PROVE Next(c, k)
  BY DEF Complete, c
<1>3. CASE k <= Len(a)
  <2>1. k \in 1..Len(a) /\ c[k] = a[k]
    BY <1>1, <1>3
  <2>2. Next(a, k)
    BY <1>2, <2>1
  <2>3. k + 1 \in 1..Len(c) /\ c[k + 1] = a[k + 1] /\ k < Len(c)
    BY <1>1, <2>1, <2>2
  <2>. QED BY <2>1, <2>2, <2>3
<1>4. CASE ~(k <= Len(a))
  <2>. DEFINE j == k - Len(a)
  <2>1. j \in 1..Len(b) /\ c[k] = b[j]
    BY <1>1, <1>4
  <2>2. Next(b, j)
    BY <1>2, <2>1
  <2>3. k + 1 \in 1..Len(c) /\ (k + 1) - Len(a) = j + 1 /\ ~(k + 1 <= Len(a)) /\ k < Len(c)
    BY <1>1, <1>4, <2>1, <2>2
  <2>4. c[k + 1] = b[j + 1]
    BY <1>1, <2>3
  <2>. HIDE DEF j
  <2>. QED BY <2>1, <2>2, <2>3, <2>4
<1>. QED BY <1>3, <1>4

(* nor has the end of one, *)
LEMMA CompleteEnd ==
  ASSUME NEW txt, NEW enc, NEW s \in Seq(Piece), NEW m \in 0..Len(s), Complete(txt, enc, s)
  PROVE  Complete(txt, enc, SubSeq(s, m + 1, Len(s)))
<1>. DEFINE c == SubSeq(s, m + 1, Len(s))
<1>1. /\ c \in Seq(Piece) /\ Len(c) = Len(s) - m /\ Len(s) \in Nat
      /\ \A i \in 1..Len(c) : c[i] = s[m + i]
  OBVIOUS
<1>. HIDE DEF c
<1>. SUFFICES ASSUME NEW k \in 1..Len(c), c[k][2] < Width(txt[c[k][1]], enc)
              PROVE  k < Len(c) /\ c[k + 1] = <<c[k][1], c[k][2] + 1>>
  BY DEF Complete, c
<1>2. m + k \in 1..Len(s) /\ c[k] = s[m + k]
  BY <1>1
<1>3. m + k < Len(s) /\ s[(m + k) + 1] = <<s[m + k][1], s[m + k][2] + 1>>
  BY <1>2 DEF Complete
<1>4. k < Len(c) /\ k + 1 \in 1..Len(c) /\ m + (k + 1) = (m + k) + 1
  BY <1>1, <1>2, <1>3
<1>5. c[k + 1] = s[(m + k) + 1]
  BY <1>1, <1>4
<1>. QED BY <1>2, <1>3, <1>4, <1>5

(* nor has a character. *)
LEMMA CharacterIs ==
  ASSUME NEW txt, NEW enc, NEW i \in Nat
  PROVE  /\ Character(txt, i, enc) \in Seq(Piece)
         /\ Len(Character(txt, i, enc)) = Width(txt[i], enc)
         /\ \A j \in 1..Width(txt[i], enc) : Character(txt, i, enc)[j] = <<i, j>>
         /\ Complete(txt, enc, Character(txt, i, enc))
<1>. DEFINE w == Width(txt[i], enc)
            c == [j \in 1..w |-> <<i, j>>]
<1>1. w \in 1..4
  BY WidthIs
<1>. HIDE DEF w
<1>2. c \in Seq(Piece) /\ Len(c) = w
  <2>1. \A j \in 1..w : <<i, j>> \in Piece
    BY <1>1 DEF Piece
  <2>2. c \in [1..w -> Piece]
    BY <2>1
  <2>. QED BY <1>1, <2>2
<1>3. \A j \in 1..w : c[j] = <<i, j>>
  OBVIOUS
<1>4. Character(txt, i, enc) = c
  BY DEF Character, w
<1>. HIDE DEF c
<1>5. Complete(txt, enc, c)
  <2>. SUFFICES ASSUME NEW k \in 1..Len(c), c[k][2] < Width(txt[c[k][1]], enc)
                PROVE  k < Len(c) /\ c[k + 1] = <<c[k][1], c[k][2] + 1>>
    BY DEF Complete
  <2>1. k \in 1..w /\ c[k] = <<i, k>> /\ c[k][1] = i /\ c[k][2] = k
    BY <1>2, <1>3
  <2>2. k < w
    BY <2>1 DEF w
  <2>3. k + 1 \in 1..w
    BY <1>1, <2>1, <2>2
  <2>. QED BY <1>2, <1>3, <2>1, <2>2, <2>3
<1>. QED BY <1>2, <1>3, <1>4, <1>5 DEF w

(* The pieces of a text, one character after the other. *)
Step(txt, enc, f, i) == IF i = 0 THEN <<>> ELSE f[i - 1] \o Character(txt, i, enc)
UpTo(txt, enc) == CHOOSE f : f = [i \in 0..Len(txt) |-> Step(txt, enc, f, i)]

(* The pieces of a text are those of its characters, one after the other. *)
LEMMA PiecesStep ==
  ASSUME NEW txt, NEW enc, Len(txt) \in Nat
  PROVE  /\ Pieces(txt, enc) = UpTo(txt, enc)[Len(txt)]
         /\ UpTo(txt, enc)[0] = <<>>
         /\ \A i \in 1..Len(txt) : UpTo(txt, enc)[i] = UpTo(txt, enc)[i - 1] \o Character(txt, i, enc)
<1>. DEFINE Is(f, k) == f = [i \in 0..k |-> Step(txt, enc, f, i)]
            Missing == {k \in Nat : ~\E f : Is(f, k)}
<1>1. Missing = {}
  <2>. SUFFICES ASSUME Missing # {} PROVE FALSE
    OBVIOUS
  <2>1. PICK m \in Missing : \A t \in Missing : m <= t
    <3>1. Missing \in SUBSET Nat
      OBVIOUS
    <3>. HIDE DEF Missing
    <3>. QED BY <3>1, LeastNumber
  <2>2. m \in Nat /\ ~\E f : Is(f, m)
    BY <2>1
  <2>3. CASE m = 0
    <3>. DEFINE g == [i \in 0..0 |-> <<>>]
    <3>1. Is(g, 0)
      <4>1. \A i \in 0..0 : Step(txt, enc, g, i) = <<>>
        BY DEF Step
      <4>. HIDE DEF Step
      <4>2. [i \in 0..0 |-> Step(txt, enc, g, i)] = g
        BY <4>1
      <4>. QED BY <4>2
    <3>. HIDE DEF Is
    <3>. QED BY <2>2, <2>3, <3>1
  <2>4. CASE m # 0
    <3>1. m - 1 \in Nat /\ m - 1 \notin Missing
      <4>. HIDE DEF Missing
      <4>. QED BY <2>1, <2>2, <2>4
    <3>2. PICK f : Is(f, m - 1)
      BY <3>1
    <3>. DEFINE g == [i \in 0..m |-> Step(txt, enc, f, i)]
    <3>3. ASSUME NEW i \in 0..(m - 1) PROVE g[i] = f[i]
      <4>1. i \in 0..m
        BY <3>1, <2>2
      <4>2. f[i] = Step(txt, enc, f, i)
        <5>. HIDE DEF Step
        <5>. QED BY <3>2
      <4>. HIDE DEF Step
      <4>. QED BY <4>1, <4>2
    <3>. HIDE DEF g
    <3>4. ASSUME NEW i \in 0..m PROVE Step(txt, enc, g, i) = Step(txt, enc, f, i)
      <4>1. i # 0 => i - 1 \in 0..(m - 1)
        BY <2>2
      <4>2. i # 0 => g[i - 1] = f[i - 1]
        BY <3>3, <4>1
      <4>. QED BY <4>2 DEF Step
    <3>5. Is(g, m)
      <4>. HIDE DEF Step
      <4>1. [i \in 0..m |-> Step(txt, enc, g, i)] = [i \in 0..m |-> Step(txt, enc, f, i)]
        BY <3>4
      <4>. QED BY <4>1 DEF g
    <3>. QED BY <2>2, <3>5
  <2>. QED BY <2>3, <2>4
<1>2. Is(UpTo(txt, enc), Len(txt))
  <2>1. \E f : Is(f, Len(txt))
    <3>. HIDE DEF Is
    <3>. QED BY <1>1
  <2>2. UpTo(txt, enc) = CHOOSE f : Is(f, Len(txt))
    BY DEF UpTo
  <2>. HIDE DEF Is
  <2>. QED BY <2>1, <2>2
<1>3. Pieces(txt, enc) = UpTo(txt, enc)[Len(txt)]
  BY DEF Pieces, UpTo, Step
<1>. DEFINE f == UpTo(txt, enc)
<1>4. ASSUME NEW i \in 0..Len(txt) PROVE f[i] = Step(txt, enc, f, i)
  <2>. HIDE DEF f, Step
  <2>1. f = [q \in 0..Len(txt) |-> Step(txt, enc, f, q)]
    BY <1>2 DEF f
  <2>. QED BY <2>1
<1>. HIDE DEF f
<1>5. f[0] = <<>>
  <2>1. 0 \in 0..Len(txt)
    OBVIOUS
  <2>. QED BY <1>4, <2>1 DEF Step
<1>6. ASSUME NEW i \in 1..Len(txt) PROVE f[i] = f[i - 1] \o Character(txt, i, enc)
  <2>1. i \in 0..Len(txt) /\ i # 0
    OBVIOUS
  <2>. QED BY <1>4, <2>1 DEF Step
<1>. QED BY <1>3, <1>5, <1>6 DEF f

(* They are pieces, and each belongs to a character. *)
Whole(txt, enc, k, s) ==
  /\ s \in Seq(Piece) /\ Complete(txt, enc, s)
  /\ \A p \in 1..Len(s) : s[p][1] \in 1..k

(* One more character keeps a text whole, and comes at its end. *)
LEMMA WholeOn ==
  ASSUME NEW txt, NEW enc, NEW k \in Nat, k # 0, NEW s, Whole(txt, enc, k - 1, s)
  PROVE  /\ Whole(txt, enc, k, s \o Character(txt, k, enc))
         /\ \A p \in 1..Len(s \o Character(txt, k, enc)) :
              (s \o Character(txt, k, enc))[p][1] = k => p > Len(s)
<1>. DEFINE c == Character(txt, k, enc)
            w == Width(txt[k], enc)
            u == s \o c
<1>1. c \in Seq(Piece) /\ Len(c) = w /\ Complete(txt, enc, c) /\ \A j \in 1..w : c[j] = <<k, j>>
  BY CharacterIs
<1>2. s \in Seq(Piece) /\ Complete(txt, enc, s) /\ \A p \in 1..Len(s) : s[p][1] \in 1..(k - 1)
  BY DEF Whole
<1>. HIDE DEF c, w
<1>3. /\ u \in Seq(Piece) /\ Len(u) = Len(s) + Len(c) /\ Len(s) \in Nat /\ Len(c) \in Nat
      /\ \A i \in 1..Len(u) : u[i] = IF i <= Len(s) THEN s[i] ELSE c[i - Len(s)]
  <2>1. s \in Seq(Piece) /\ c \in Seq(Piece)
    BY <1>1, <1>2
  <2>. QED BY ONLY <2>1, ConcatProperties
<1>4. Complete(txt, enc, u)
  BY <1>1, <1>2, CompleteConcat
<1>. HIDE DEF u
<1>5. ASSUME NEW p \in 1..Len(u) PROVE u[p][1] \in 1..k /\ (u[p][1] = k => p > Len(s))
  <2>1. CASE p <= Len(s)
    <3>1. u[p] = s[p] /\ p \in 1..Len(s)
      BY <1>3, <2>1
    <3>2. u[p][1] \in 1..(k - 1)
      BY <1>2, <3>1
    <3>. QED BY <3>2
  <2>2. CASE ~(p <= Len(s))
    <3>1. u[p] = c[p - Len(s)] /\ p - Len(s) \in 1..w
      BY <1>1, <1>3, <2>2
    <3>2. u[p] = <<k, p - Len(s)>>
      BY <1>1, <3>1
    <3>. QED BY <1>3, <2>2, <3>2
  <2>. QED BY <2>1, <2>2
<1>. QED BY <1>3, <1>4, <1>5 DEF Whole, u, c

(* Only the last piece of a text is of a character that is cut off.        *)
LEMMA PiecesAre ==
  ASSUME NEW txt, NEW enc, Len(txt) \in Nat
  PROVE  /\ Whole(txt, enc, Len(txt), Pieces(txt, enc))
         /\ \A p \in 1..Len(Pieces(txt, enc)) :
              Pieces(txt, enc)[p][1] = Len(txt) /\ txt[Len(txt)] = "cut" => p = Len(Pieces(txt, enc))
<1>. DEFINE f == UpTo(txt, enc)
            Wrong == {k \in 0..Len(txt) : ~Whole(txt, enc, k, f[k])}
<1>1. f[0] = <<>> /\ \A i \in 1..Len(txt) : f[i] = f[i - 1] \o Character(txt, i, enc)
  BY PiecesStep
<1>. HIDE DEF f
<1>2. Wrong = {}
  <2>. SUFFICES ASSUME Wrong # {} PROVE FALSE
    OBVIOUS
  <2>1. PICK k \in Wrong : \A t \in Wrong : k <= t
    <3>1. Wrong \in SUBSET Nat
      OBVIOUS
    <3>. HIDE DEF Wrong
    <3>. QED BY <3>1, LeastNumber
  <2>2. k \in 0..Len(txt) /\ ~Whole(txt, enc, k, f[k])
    OBVIOUS
  <2>3. CASE k = 0
    <3>1. Whole(txt, enc, 0, <<>>)
      BY DEF Whole, Complete
    <3>. QED BY <1>1, <2>2, <2>3, <3>1
  <2>4. CASE k # 0
    <3>1. k - 1 \in 0..Len(txt) /\ k - 1 \notin Wrong
      <4>1. k - 1 \in Nat /\ ~(k <= k - 1) /\ k - 1 \in 0..Len(txt)
        BY <2>2, <2>4
      <4>. HIDE DEF Wrong
      <4>. QED BY <2>1, <4>1
    <3>2. Whole(txt, enc, k - 1, f[k - 1])
      BY <3>1
    <3>3. f[k] = f[k - 1] \o Character(txt, k, enc) /\ k \in Nat
      BY <1>1, <2>2, <2>4
    <3>4. Whole(txt, enc, k, f[k - 1] \o Character(txt, k, enc))
      BY <2>4, <3>2, <3>3, WholeOn
    <3>. QED BY <2>2, <3>3, <3>4
  <2>. QED BY <2>3, <2>4
<1>3. Pieces(txt, enc) = f[Len(txt)]
  BY PiecesStep DEF f
<1>4. \A k \in 0..Len(txt) : Whole(txt, enc, k, f[k])
  BY <1>2
<1>5. Whole(txt, enc, Len(txt), Pieces(txt, enc))
  BY <1>3, <1>4
<1>6. ASSUME NEW p \in 1..Len(Pieces(txt, enc)), Pieces(txt, enc)[p][1] = Len(txt), txt[Len(txt)] = "cut"
      PROVE  p = Len(Pieces(txt, enc))
  <2>. DEFINE k == Len(txt)
              s == f[k - 1]
              c == Character(txt, k, enc)
  <2>1. CASE k = 0
    <3>1. Len(Pieces(txt, enc)) = 0
      BY <1>1, <1>3, <2>1
    <3>. QED BY <3>1
  <2>2. CASE k # 0
    <3>. HIDE DEF k
    <3>0. k \in Nat
      BY DEF k
    <3>1. Whole(txt, enc, k - 1, s) /\ Pieces(txt, enc) = s \o c
      BY <1>1, <1>3, <1>4, <2>2, <3>0 DEF k
    <3>2. p > Len(s)
      BY <1>6, <2>2, <3>0, <3>1, WholeOn DEF k
    <3>3. Len(c) = 1 /\ c \in Seq(Piece)
      BY <1>6, <3>0, CharacterIs DEF k, Width
    <3>4. Len(Pieces(txt, enc)) = Len(s) + 1 /\ Len(s) \in Nat
      <4>1. s \in Seq(Piece) /\ c \in Seq(Piece)
        BY <3>1, <3>3 DEF Whole
      <4>. HIDE DEF s, c
      <4>2. Len(s \o c) = Len(s) + Len(c) /\ Len(s) \in Nat
        BY ONLY <4>1, ConcatProperties
      <4>3. Pieces(txt, enc) = s \o c
        BY <3>1 DEF s, c
      <4>. QED BY ONLY <3>3, <4>2, <4>3
    <3>. QED BY <3>2, <3>4
  <2>. QED BY <2>1, <2>2
<1>. QED BY <1>5, <1>6

-----------------------------------------------------------------------------
(* What iconv() leaves is the end of its source, and why it stops says     *)
(* what is in front of that.                                               *)
Sound(txt, enc, s, r, skip, x) ==
  /\ x.out \in Seq(Piece) /\ x.left \in Seq(Piece)
  /\ Len(x.left) <= Len(s) /\ x.left = SubSeq(s, Len(s) - Len(x.left) + 1, Len(s))
  /\ Len(x.out) <= r /\ Len(x.out) <= 2 * (Len(s) - Len(x.left))
  /\ x.stop \in {"done", "EILSEQ", "EINVAL", "E2BIG"}
  /\ x.stop # "E2BIG" => Front(txt, x.left, enc) = x.stop
  /\ x.stop = "E2BIG" => /\ Front(txt, x.left, enc) = "character"
                         /\ r < Len(x.out) + Len(Made(txt, x.left, enc))
  /\ skip => x.stop # "EILSEQ"
  /\ Complete(txt, Other(enc), x.out)

(* What is left of the end of a text is the end of that text. *)
LEMMA TailIs ==
  ASSUME NEW s \in Seq(Piece), NEW k \in 1..Len(s), NEW l \in Seq(Piece),
         Len(l) <= Len(s) - k,
         l = SubSeq(SubSeq(s, k + 1, Len(s)), Len(s) - k - Len(l) + 1, Len(s) - k)
  PROVE  l = SubSeq(s, Len(s) - Len(l) + 1, Len(s))
<1>. DEFINE u == SubSeq(s, k + 1, Len(s))
            v == SubSeq(s, Len(s) - Len(l) + 1, Len(s))
            m == Len(s) - k
<1>1. Len(s) \in Nat /\ Len(l) \in Nat /\ m \in Nat /\ k \in Nat
  OBVIOUS
<1>2. u \in Seq(Piece) /\ Len(u) = m /\ \A i \in 1..m : u[i] = s[k + i]
  BY <1>1
<1>3. Len(v) = Len(l) /\ v \in Seq(Piece) /\ \A i \in 1..Len(l) : v[i] = s[Len(s) - Len(l) + i]
  BY <1>1
<1>. HIDE DEF u
<1>4. l = SubSeq(u, m - Len(l) + 1, m)
  BY DEF u
<1>5. \A i \in 1..Len(l) : l[i] = u[m - Len(l) + i]
  <2>. DEFINE a == m - Len(l)
  <2>1. a \in Nat /\ a <= m
    BY <1>1
  <2>. HIDE DEF a, m
  <2>2. \A i \in 1..(m - a) : SubSeq(u, a + 1, m)[i] = u[a + i]
    BY ONLY <1>1, <1>2, <2>1
  <2>3. l = SubSeq(u, a + 1, m) /\ m - a = Len(l)
    BY <1>1, <1>4 DEF a
  <2>. QED BY <2>2, <2>3 DEF a
<1>6. \A i \in 1..Len(l) : l[i] = v[i]
  <2>. SUFFICES ASSUME NEW i \in 1..Len(l) PROVE l[i] = v[i]
    OBVIOUS
  <2>1. m - Len(l) + i \in 1..m /\ k + (m - Len(l) + i) = Len(s) - Len(l) + i
    BY <1>1
  <2>. QED BY <1>2, <1>3, <1>5, <2>1
<1>. HIDE DEF v
<1>7. l = v
  BY ONLY <1>3, <1>6, l \in Seq(Piece), SeqEqual
<1>. QED BY <1>7 DEF v

(* An illegal piece that is skipped is one less. *)
LEMMA SoundSkips ==
  ASSUME NEW txt, NEW enc, NEW skip, NEW t \in Seq(Piece), NEW q \in Nat, NEW x,
         t # <<>>, Sound(txt, enc, Tail(t), q, skip, x)
  PROVE  Sound(txt, enc, t, q, skip, x)
<1>. DEFINE l == Len(x.left)
            o == Len(x.out)
            k == Len(t)
<1>1. Tail(t) \in Seq(Piece) /\ Len(Tail(t)) = k - 1 /\ 1 \in 1..k /\ k \in Nat
      /\ Tail(t) = SubSeq(t, 1 + 1, k)
  OBVIOUS
<1>2. x.left \in Seq(Piece) /\ x.out \in Seq(Piece) /\ l \in Nat /\ o \in Nat
  BY DEF Sound
<1>. HIDE DEF l, o, k
<1>3. l <= k - 1 /\ o <= 2 * (k - 1 - l)
  BY <1>1 DEF Sound, l, o
<1>4. l <= k /\ o <= 2 * (k - l)
  BY <1>1, <1>2, <1>3
<1>5. x.left = SubSeq(SubSeq(t, 1 + 1, k), k - 1 - l + 1, k - 1)
  BY <1>1 DEF Sound, l
<1>6. x.left = SubSeq(t, k - l + 1, k)
  BY <1>1, <1>2, <1>3, <1>5, TailIs DEF l, k
<1>. QED BY <1>4, <1>6 DEF Sound, l, o, k

(* So is a character that is made. *)
LEMMA SoundMakes ==
  ASSUME NEW txt, NEW enc, NEW skip, NEW t \in Seq(Piece), NEW q \in Nat, NEW y, NEW made \in Seq(Piece),
         NEW w \in 1..Len(t), Len(made) <= 2 * w, Len(made) <= q, Complete(txt, Other(enc), made),
         Sound(txt, enc, SubSeq(t, w + 1, Len(t)), q - Len(made), skip, y)
  PROVE  Sound(txt, enc, t, q, skip, [out |-> made \o y.out, left |-> y.left, stop |-> y.stop])
<1>. DEFINE l == Len(y.left)
            o == Len(y.out)
            k == Len(t)
            m == Len(made)
            next == Len(Made(txt, y.left, enc))
            x == [out |-> made \o y.out, left |-> y.left, stop |-> y.stop]
            u == SubSeq(t, w + 1, k)
<1>1. k \in Nat /\ m \in Nat /\ w \in 1..k
  OBVIOUS
<1>2. u \in Seq(Piece) /\ Len(u) = k - w
  BY <1>1
<1>3. y.left \in Seq(Piece) /\ y.out \in Seq(Piece) /\ l \in Nat /\ o \in Nat
  BY DEF Sound
<1>4. x.out = made \o y.out /\ x.left = y.left /\ x.stop = y.stop
  OBVIOUS
<1>5. x.out \in Seq(Piece) /\ Len(x.out) = m + o
  BY <1>3, <1>4
<1>6. m <= 2 * w /\ m <= q
  OBVIOUS
<1>7. Sound(txt, enc, u, q - m, skip, y)
  OBVIOUS
<1>. HIDE DEF l, o, k, m, next, x, u
<1>8. l <= k - w /\ o <= 2 * (k - w - l) /\ o <= q - m
  BY <1>2, <1>7 DEF Sound, l, o
<1>9. l <= k /\ m + o <= 2 * (k - l) /\ m + o <= q
  BY <1>1, <1>3, <1>6, <1>8
<1>10. y.left = SubSeq(SubSeq(t, w + 1, k), k - w - l + 1, k - w)
  BY <1>2, <1>7 DEF Sound, l, u
<1>11. y.left = SubSeq(t, k - l + 1, k)
  BY <1>1, <1>3, <1>8, <1>10, TailIs DEF l, k
<1>12. y.stop = "E2BIG" => q < m + o + next
  <2>. SUFFICES ASSUME y.stop = "E2BIG" PROVE q < m + o + next
    OBVIOUS
  <2>1. Front(txt, y.left, enc) = "character" /\ q - m < o + next
    BY <1>7 DEF Sound, o, next
  <2>2. next \in Nat
    BY <1>3, <2>1, BehindIs, MadeIs DEF next
  <2>. QED BY <1>1, <1>3, <2>1, <2>2
<1>13. Complete(txt, Other(enc), x.out)
  BY <1>3, <1>4, <1>7, CompleteConcat DEF Sound
<1>14. Sound(txt, enc, t, q, skip, x)
  BY <1>3, <1>4, <1>5, <1>7, <1>9, <1>11, <1>12, <1>13 DEF Sound, l, o, k, m, next
<1>. QED BY <1>14 DEF x

(* iconv() is sound: for every text, cut anywhere, and every room. *)
LEMMA ConvertTypes ==
  ASSUME NEW txt, NEW enc, NEW skip \in BOOLEAN, NEW s \in Seq(Piece), NEW r \in Nat
  PROVE  Sound(txt, enc, s, r, skip, Convert(txt, s, enc, r, skip))
<1>. DEFINE C(t, q) == Convert(txt, t, enc, q, skip)
            Fine(t) == \A q \in Nat : Sound(txt, enc, t, q, skip, C(t, q))
            Wrong == {t \in Seq(Piece) : ~Fine(t)}
<1>. SUFFICES ASSUME Wrong # {} PROVE FALSE
  OBVIOUS
<1>1. PICK t \in Wrong : \A u \in Seq(Piece) : Len(u) < Len(t) => u \notin Wrong
  <2>1. Wrong \in SUBSET Seq(Piece)
    OBVIOUS
  <2>. HIDE DEF Wrong
  <2>. QED BY <2>1, ShortestOne
<1>2. t \in Seq(Piece) /\ ~Fine(t) /\ Len(t) \in Nat
  OBVIOUS
<1>3. ASSUME NEW u \in Seq(Piece), Len(u) < Len(t) PROVE Fine(u)
  BY <1>1, <1>3
<1>. HIDE DEF Wrong
<1>. SUFFICES ASSUME NEW q \in Nat PROVE Sound(txt, enc, t, q, skip, C(t, q))
  BY <1>2
<1>. DEFINE front == Front(txt, t, enc)
            made == Made(txt, t, enc)
            behind == Behind(txt, t, enc)
            x == C(t, q)
            y == C(behind, q - Len(made))
<1>t. Turns(txt, enc, skip, t, q)
  BY <1>2, ConvertIs
<1>c. Complete(txt, Other(enc), <<>>)
  BY DEF Complete
<1>4. front \in {"done", "EILSEQ", "EINVAL", "character"} /\ (front = "done" <=> t = <<>>)
  BY <1>2, FrontIs
<1>5. CASE front = "EILSEQ" /\ skip
  <2>1. Tail(t) \in Seq(Piece) /\ Len(Tail(t)) < Len(t) /\ t # <<>>
    BY <1>2, <1>4, <1>5
  <2>2. x = C(Tail(t), q)
    BY <1>5, <1>t DEF Turns
  <2>3. Fine(Tail(t))
    BY <1>3, <2>1
  <2>. HIDE DEF x
  <2>4. Sound(txt, enc, Tail(t), q, skip, x)
    BY <2>2, <2>3
  <2>5. Sound(txt, enc, t, q, skip, x)
    BY <1>2, <2>1, <2>4, SoundSkips
  <2>. QED BY <2>5 DEF x
<1>6. CASE front # "character" /\ ~(front = "EILSEQ" /\ skip)
  <2>1. x = [out |-> <<>>, left |-> t, stop |-> front]
    BY <1>6, <1>t DEF Turns
  <2>2. t = SubSeq(t, Len(t) - Len(t) + 1, Len(t)) /\ <<>> \in Seq(Piece) /\ Len(<<>>) = 0
    BY <1>2
  <2>. HIDE DEF x
  <2>3. Sound(txt, enc, t, q, skip, x)
    BY <1>2, <1>4, <1>6, <1>c, <2>1, <2>2 DEF Sound
  <2>. QED BY <2>3 DEF x
<1>7. CASE front = "character" /\ q < Len(made)
  <2>1. x = [out |-> <<>>, left |-> t, stop |-> "E2BIG"]
    BY <1>7, <1>t DEF Turns
  <2>2. t = SubSeq(t, Len(t) - Len(t) + 1, Len(t)) /\ <<>> \in Seq(Piece) /\ Len(<<>>) = 0
    BY <1>2
  <2>3. Len(made) \in Nat
    BY <1>2, <1>7, BehindIs, MadeIs
  <2>. HIDE DEF x
  <2>4. Sound(txt, enc, t, q, skip, x)
    BY <1>2, <1>4, <1>7, <1>c, <2>1, <2>2, <2>3 DEF Sound
  <2>. QED BY <2>4 DEF x
<1>8. CASE front = "character" /\ q >= Len(made)
  <2>. DEFINE w == Width(txt[Head(t)[1]], enc)
  <2>1. /\ t # <<>> /\ behind \in Seq(Piece) /\ Len(behind) = Len(t) - w
        /\ Len(behind) < Len(t) /\ w \in 1..4 /\ w <= Len(t) /\ behind = SubSeq(t, w + 1, Len(t))
        /\ made \in Seq(Piece) /\ Len(made) \in 1..4 /\ Len(made) <= 2 * w
    <3>1. t # <<>> /\ behind \in Seq(Piece) /\ Len(behind) = Len(t) - w /\ Len(behind) < Len(t)
      BY <1>2, <1>8, BehindIs
    <3>2. w \in 1..4 /\ behind = SubSeq(t, w + 1, Len(t))
      BY WidthIs DEF Behind
    <3>3. w <= Len(t)
      BY <1>2, <1>8, FrontIs, <3>2
    <3>4. made \in Seq(Piece) /\ Len(made) \in 1..4 /\ Len(made) <= 2 * w
      BY <1>2, <3>1, MadeIs
    <3>. QED BY <3>1, <3>2, <3>3, <3>4
  <2>2. x = [out |-> made \o y.out, left |-> y.left, stop |-> y.stop]
    BY <1>8, <1>t DEF Turns
  <2>3. q - Len(made) \in Nat
    BY SMTT(40), <1>8, <2>1
  <2>4. Sound(txt, enc, behind, q - Len(made), skip, y)
    BY <1>3, <2>1, <2>3
  <2>5. Len(made) <= q /\ w \in 1..Len(t)
    BY <1>2, <1>8, <2>1
  <2>c. Complete(txt, Other(enc), made)
    <3>1. Head(t)[1] \in Nat
      <4>1. Head(t) \in Piece
        BY <1>2, <2>1
      <4>. QED BY <4>1 DEF Piece
    <3>. QED BY <3>1, CharacterIs DEF Made
  <2>6. Sound(txt, enc, SubSeq(t, w + 1, Len(t)), q - Len(made), skip, y)
    BY <2>1, <2>4
  <2>. HIDE DEF x, y, w, made
  <2>7. Sound(txt, enc, t, q, skip, x)
    BY <1>2, <2>1, <2>2, <2>5, <2>6, <2>c, SoundMakes
  <2>. QED BY <2>7 DEF x
<1>9. front = "character" => Len(made) \in Nat
  BY <1>2, BehindIs, MadeIs
<1>. QED BY <1>4, <1>5, <1>6, <1>7, <1>8, <1>9

-----------------------------------------------------------------------------
(* What lies in front and behind is less. *)
Divides(txt, enc, s) ==
  /\ s # <<>> => Tail(s) \in Seq(Piece) /\ Len(Tail(s)) = Len(s) - 1 /\ Len(Tail(s)) \in Nat
  /\ Front(txt, s, enc) = "character" =>
       /\ s # <<>> /\ Behind(txt, s, enc) \in Seq(Piece) /\ Made(txt, s, enc) \in Seq(Piece)
       /\ Len(Behind(txt, s, enc)) < Len(s) /\ Len(Behind(txt, s, enc)) \in Nat
       /\ Len(Made(txt, s, enc)) \in 1..4
       /\ Len(Made(txt, s, enc)) <= 2 * (Len(s) - Len(Behind(txt, s, enc)))

(* What is behind is shorter by what is in front. *)
LEMMA DividesIs ==
  ASSUME NEW txt, NEW enc, NEW s \in Seq(Piece)
  PROVE  Divides(txt, enc, s)
<1>1. s # <<>> => Tail(s) \in Seq(Piece) /\ Len(Tail(s)) = Len(s) - 1 /\ Len(Tail(s)) \in Nat
  OBVIOUS
<1>2. ASSUME Front(txt, s, enc) = "character"
      PROVE  /\ s # <<>> /\ Behind(txt, s, enc) \in Seq(Piece) /\ Made(txt, s, enc) \in Seq(Piece)
             /\ Len(Behind(txt, s, enc)) < Len(s) /\ Len(Behind(txt, s, enc)) \in Nat
             /\ Len(Made(txt, s, enc)) \in 1..4
             /\ Len(Made(txt, s, enc)) <= 2 * (Len(s) - Len(Behind(txt, s, enc)))
  <2>. DEFINE w == Width(txt[Head(s)[1]], enc)
              b == Len(Behind(txt, s, enc))
              k == Len(s)
  <2>1. s # <<>> /\ Behind(txt, s, enc) \in Seq(Piece) /\ b = k - w /\ b < k /\ b \in Nat
    BY <1>2, BehindIs
  <2>2. Made(txt, s, enc) \in Seq(Piece) /\ Len(Made(txt, s, enc)) \in 1..4
        /\ Len(Made(txt, s, enc)) <= 2 * w
    BY <2>1, MadeIs
  <2>3. w \in 1..4 /\ k \in Nat
    BY WidthIs
  <2>. HIDE DEF w, b, k
  <2>4. 2 * w = 2 * (k - b)
    BY <2>1, <2>3
  <2>5. Len(Made(txt, s, enc)) <= 2 * (k - b)
    BY <2>2, <2>4
  <2>. QED BY <2>1, <2>2, <2>5 DEF b, k
<1>. QED BY <1>1, <1>2 DEF Divides

(* iconv() that skips does the same, where there is nothing to skip. *)
LEMMA ConvertAgrees ==
  ASSUME NEW txt, NEW enc, NEW s \in Seq(Piece), NEW r \in Nat,
         Convert(txt, s, enc, r, FALSE).stop # "EILSEQ"
  PROVE  Convert(txt, s, enc, r, TRUE) = Convert(txt, s, enc, r, FALSE)
<1>. DEFINE N(t, q) == Convert(txt, t, enc, q, FALSE)
            Y(t, q) == Convert(txt, t, enc, q, TRUE)
            Fine(t) == \A q \in Nat : N(t, q).stop # "EILSEQ" => Y(t, q) = N(t, q)
            Wrong == {t \in Seq(Piece) : ~Fine(t)}
<1>. SUFFICES ASSUME Wrong # {} PROVE FALSE
  <2>1. N(s, r).stop # "EILSEQ" /\ (Y(s, r) = N(s, r) => Convert(txt, s, enc, r, TRUE) = Convert(txt, s, enc, r, FALSE))
    OBVIOUS
  <2>2. Wrong = {} => Fine(s)
    <3>. HIDE DEF Fine
    <3>. QED OBVIOUS
  <2>. HIDE DEF N, Y, Wrong
  <2>. QED BY <2>1, <2>2
<1>1. PICK t \in Wrong : \A u \in Seq(Piece) : Len(u) < Len(t) => u \notin Wrong
  <2>1. Wrong \in SUBSET Seq(Piece)
    OBVIOUS
  <2>. HIDE DEF Wrong
  <2>. QED BY <2>1, ShortestOne
<1>2. t \in Seq(Piece) /\ ~Fine(t) /\ Len(t) \in Nat
  <2>. HIDE DEF Fine
  <2>. QED OBVIOUS
<1>3. ASSUME NEW u \in Seq(Piece), Len(u) < Len(t) PROVE Fine(u)
  BY <1>1, <1>3
<1>. HIDE DEF Wrong
<1>. SUFFICES ASSUME NEW q \in Nat, N(t, q).stop # "EILSEQ" PROVE Y(t, q) = N(t, q)
  BY <1>2
<1>. DEFINE front == Front(txt, t, enc)
            made == Made(txt, t, enc)
            behind == Behind(txt, t, enc)
<1>4. Turns(txt, enc, FALSE, t, q) /\ Turns(txt, enc, TRUE, t, q) /\ Divides(txt, enc, t)
  BY <1>2, ConvertIs, DividesIs
<1>5. CASE front # "character"
  <2>1. N(t, q) = [out |-> <<>>, left |-> t, stop |-> front]
    BY <1>4, <1>5 DEF Turns
  <2>2. front # "EILSEQ"
    <3>. HIDE DEF N
    <3>. QED BY <2>1
  <2>3. Y(t, q) = [out |-> <<>>, left |-> t, stop |-> front]
    BY <1>4, <1>5, <2>2 DEF Turns
  <2>. QED BY <2>1, <2>3
<1>6. CASE front = "character" /\ q < Len(made)
  <2>1. N(t, q) = [out |-> <<>>, left |-> t, stop |-> "E2BIG"]
    BY <1>4, <1>6 DEF Turns
  <2>2. Y(t, q) = [out |-> <<>>, left |-> t, stop |-> "E2BIG"]
    BY <1>4, <1>6 DEF Turns
  <2>. QED BY <2>1, <2>2
<1>7. CASE front = "character" /\ ~(q < Len(made))
  <2>. DEFINE m == q - Len(made)
  <2>1. behind \in Seq(Piece) /\ Len(behind) < Len(t) /\ m \in Nat /\ q >= Len(made)
    BY <1>4, <1>7 DEF Divides
  <2>2. N(t, q) = [out |-> made \o N(behind, m).out, left |-> N(behind, m).left, stop |-> N(behind, m).stop]
    BY <1>4, <1>7, <2>1 DEF Turns
  <2>3. Y(t, q) = [out |-> made \o Y(behind, m).out, left |-> Y(behind, m).left, stop |-> Y(behind, m).stop]
    BY <1>4, <1>7, <2>1 DEF Turns
  <2>4. N(behind, m).stop # "EILSEQ"
    <3>. HIDE DEF N, behind, m
    <3>. QED BY <2>2
  <2>5. Fine(behind)
    BY <1>3, <2>1
  <2>6. Y(behind, m) = N(behind, m)
    <3>. HIDE DEF N, Y, behind, m
    <3>. QED BY <2>1, <2>4, <2>5
  <2>. QED BY <2>2, <2>3, <2>6
<1>. QED BY <1>5, <1>6, <1>7

(* With two pieces of room for one there is room enough. *)
LEMMA RoomEnough ==
  ASSUME NEW txt, NEW enc, NEW skip \in BOOLEAN, NEW s \in Seq(Piece), NEW r \in Nat, r >= 2 * Len(s)
  PROVE  /\ Convert(txt, s, enc, r, skip) = Convert(txt, s, enc, 2 * Len(s), skip)
         /\ Convert(txt, s, enc, r, skip).stop # "E2BIG"
<1>. DEFINE C(t, q) == Convert(txt, t, enc, q, skip)
            Fine(t) == \A q \in Nat : q >= 2 * Len(t) => C(t, q) = C(t, 2 * Len(t)) /\ C(t, q).stop # "E2BIG"
            Wrong == {t \in Seq(Piece) : ~Fine(t)}
<1>. SUFFICES ASSUME Wrong # {} PROVE FALSE
  OBVIOUS
<1>1. PICK t \in Wrong : \A u \in Seq(Piece) : Len(u) < Len(t) => u \notin Wrong
  <2>1. Wrong \in SUBSET Seq(Piece)
    OBVIOUS
  <2>. HIDE DEF Wrong
  <2>. QED BY <2>1, ShortestOne
<1>2. t \in Seq(Piece) /\ ~Fine(t) /\ Len(t) \in Nat
  OBVIOUS
<1>3. ASSUME NEW u \in Seq(Piece), Len(u) < Len(t) PROVE Fine(u)
  BY <1>1, <1>3
<1>. HIDE DEF Wrong
<1>. DEFINE least == 2 * Len(t)
<1>4. least \in Nat
  BY <1>2
<1>. SUFFICES ASSUME NEW q \in Nat, q >= least PROVE C(t, q) = C(t, least) /\ C(t, q).stop # "E2BIG"
  BY <1>2
<1>. HIDE DEF least
<1>. DEFINE front == Front(txt, t, enc)
            made == Made(txt, t, enc)
            behind == Behind(txt, t, enc)
<1>5. Turns(txt, enc, skip, t, q) /\ Turns(txt, enc, skip, t, least) /\ Divides(txt, enc, t)
  BY <1>2, <1>4, ConvertIs, DividesIs
<1>6. front \in {"done", "EILSEQ", "EINVAL", "character"} /\ (front = "done" <=> t = <<>>)
  BY <1>2, FrontIs
<1>7. CASE front = "EILSEQ" /\ skip
  <2>. DEFINE u == Tail(t)
  <2>1. u \in Seq(Piece) /\ Len(u) < Len(t) /\ q >= 2 * Len(u) /\ least >= 2 * Len(u)
    BY <1>2, <1>4, <1>5, <1>6, <1>7 DEF Divides, least
  <2>2. C(t, q) = C(u, q) /\ C(t, least) = C(u, least)
    BY <1>5, <1>7 DEF Turns
  <2>3. Fine(u)
    BY <1>3, <2>1
  <2>. HIDE DEF u, C
  <2>4. C(u, q) = C(u, 2 * Len(u)) /\ C(u, least) = C(u, 2 * Len(u)) /\ C(u, q).stop # "E2BIG"
    BY <1>4, <2>1, <2>3
  <2>. QED BY <2>2, <2>4
<1>8. CASE front # "character" /\ ~(front = "EILSEQ" /\ skip)
  <2>1. /\ C(t, q) = [out |-> <<>>, left |-> t, stop |-> front]
        /\ C(t, least) = [out |-> <<>>, left |-> t, stop |-> front]
    BY <1>5, <1>8 DEF Turns
  <2>. QED BY <1>6, <2>1
<1>9. CASE front = "character"
  <2>. DEFINE u == behind
              m == Len(made)
  <2>1. u \in Seq(Piece) /\ Len(u) < Len(t) /\ Len(u) \in Nat /\ m \in 1..4 /\ m <= 2 * (Len(t) - Len(u))
    BY <1>5, <1>9 DEF Divides
  <2>. HIDE DEF u, m
  <2>2. q - m \in Nat /\ least - m \in Nat /\ q >= m /\ least >= m
        /\ q - m >= 2 * Len(u) /\ least - m >= 2 * Len(u)
    BY <1>2, <1>4, <2>1 DEF least
  <2>3. Fine(u)
    BY <1>3, <2>1
  <2>4. /\ C(t, q) = [out |-> made \o C(u, q - m).out, left |-> C(u, q - m).left, stop |-> C(u, q - m).stop]
        /\ C(t, least) = [out |-> made \o C(u, least - m).out, left |-> C(u, least - m).left,
                          stop |-> C(u, least - m).stop]
    BY <1>5, <1>9, <2>2 DEF Turns, u, m
  <2>. HIDE DEF C
  <2>5. C(u, q - m) = C(u, 2 * Len(u)) /\ C(u, least - m) = C(u, 2 * Len(u)) /\ C(u, q - m).stop # "E2BIG"
    BY <2>2, <2>3
  <2>6. C(t, q).stop = C(u, q - m).stop
    BY <2>4
  <2>. QED BY ONLY <2>4, <2>5, <2>6
<1>. QED BY <1>6, <1>7, <1>8, <1>9

-----------------------------------------------------------------------------
(* Joining texts is associative. *)
LEMMA JoinedThrice ==
  ASSUME NEW a, NEW b, NEW c, a \in Seq(Piece), b \in Seq(Piece), c \in Seq(Piece)
  PROVE  a \o (b \o c) = (a \o b) \o c
BY SMTT(40), ConcatAssociative

(* All that iconv() makes of a text, given room. *)
All(txt, enc, skip, s) == Convert(txt, s, enc, 2 * Len(s), skip)

(* What comes after a character, or after no character, does not change it. *)
LEMMA FrontOn ==
  ASSUME NEW txt, NEW enc, NEW s \in Seq(Piece), NEW more \in Seq(Piece)
  PROVE  /\ Front(txt, s, enc) = "EILSEQ" =>
              Front(txt, s \o more, enc) = "EILSEQ" /\ Tail(s \o more) = Tail(s) \o more
         /\ Front(txt, s, enc) = "character" =>
              /\ Front(txt, s \o more, enc) = "character"
              /\ Made(txt, s \o more, enc) = Made(txt, s, enc)
              /\ Behind(txt, s \o more, enc) = Behind(txt, s, enc) \o more
<1>. DEFINE u == s \o more
<1>1. CASE s = <<>>
  BY <1>1, FrontIs
<1>2. CASE s # <<>>
  <2>1. u \in Seq(Piece) /\ u # <<>> /\ Len(u) = Len(s) + Len(more) /\ Head(u) = Head(s)
        /\ Tail(u) = Tail(s) \o more /\ Len(s) \in Nat /\ Len(more) \in Nat
    BY <1>2
  <2>. DEFINE w == Width(txt[Head(s)[1]], enc)
  <2>2. w \in 1..4
    BY WidthIs
  <2>3. w <= Len(s) => SubSeq(u, w + 1, Len(u)) = SubSeq(s, w + 1, Len(s)) \o more
    <3>. HIDE DEF w
    <3>. SUFFICES ASSUME w <= Len(s) PROVE SubSeq(u, w + 1, Len(u)) = SubSeq(s, w + 1, Len(s)) \o more
      OBVIOUS
    <3>. DEFINE a == SubSeq(u, w + 1, Len(u))
                c == SubSeq(s, w + 1, Len(s))
                b == c \o more
    <3>1. a \in Seq(Piece) /\ Len(a) = Len(u) - w /\ \A i \in 1..Len(a) : a[i] = u[w + i]
      BY <2>1, <2>2
    <3>2. c \in Seq(Piece) /\ Len(c) = Len(s) - w /\ \A i \in 1..Len(c) : c[i] = s[w + i]
      BY <2>1, <2>2
    <3>. HIDE DEF a, c
    <3>3. b \in Seq(Piece) /\ Len(b) = Len(s) - w + Len(more)
          /\ \A i \in 1..Len(b) : b[i] = IF i <= Len(c) THEN c[i] ELSE more[i - Len(c)]
      BY <3>2
    <3>4. \A i \in 1..Len(u) : u[i] = IF i <= Len(s) THEN s[i] ELSE more[i - Len(s)]
      BY <2>1
    <3>. HIDE DEF b, u
    <3>5. ASSUME NEW i \in 1..Len(a) PROVE a[i] = b[i]
      <4>1. w + i \in 1..Len(u) /\ a[i] = u[w + i] /\ i \in 1..Len(b)
        BY <2>1, <2>2, <3>1, <3>3
      <4>2. CASE i <= Len(s) - w
        <5>1. b[i] = c[i] /\ i \in 1..Len(c) /\ w + i <= Len(s)
          BY <2>1, <2>2, <3>2, <3>3, <4>1, <4>2
        <5>. QED BY <3>2, <3>4, <4>1, <5>1
      <4>3. CASE ~(i <= Len(s) - w)
        <5>1. b[i] = more[i - (Len(s) - w)] /\ ~(w + i <= Len(s)) /\ i - (Len(s) - w) = (w + i) - Len(s)
          BY <2>1, <2>2, <3>2, <3>3, <4>1, <4>3
        <5>2. u[w + i] = more[(w + i) - Len(s)]
          <6>. DEFINE j == w + i
          <6>1. j \in 1..Len(u) /\ ~(j <= Len(s))
            BY <4>1, <5>1
          <6>. HIDE DEF j
          <6>2. u[j] = more[j - Len(s)]
            BY ONLY <3>4, <6>1
          <6>. QED BY ONLY <6>2 DEF j
        <5>. QED BY ONLY <4>1, <5>1, <5>2
      <4>. QED BY <4>2, <4>3
    <3>6. Len(a) = Len(b)
      BY <2>1, <2>2, <3>1, <3>3
    <3>7. a = b
      BY ONLY <3>1, <3>3, <3>5, <3>6, SeqEqual
    <3>. QED BY <3>7 DEF a, b, c
  <2>4. w <= Len(s) => w <= Len(u)
    BY <2>1, <2>2
  <2>. HIDE DEF u
  <2>5. Front(txt, s, enc) = "EILSEQ" => Front(txt, u, enc) = "EILSEQ"
    BY <1>2, <2>1 DEF Front
  <2>6. Front(txt, s, enc) = "character" => Front(txt, u, enc) = "character" /\ w <= Len(s)
    BY SMTT(40), <1>2, <2>1, <2>2, <2>4 DEF Front
  <2>7. Made(txt, u, enc) = Made(txt, s, enc)
    BY SMTT(40), <2>1 DEF Made
  <2>8. Front(txt, s, enc) = "character" => Behind(txt, u, enc) = Behind(txt, s, enc) \o more
    BY <2>1, <2>3, <2>6 DEF Behind
  <2>9. Tail(u) = Tail(s) \o more
    BY <2>1
  <2>. QED BY <2>5, <2>6, <2>7, <2>8, <2>9 DEF u
<1>. QED BY <1>1, <1>2

(* A text may be converted in two calls: what the first leaves goes before *)
(* what comes.                                                             *)
SplitAt(txt, enc, skip, s, more, x) ==
  LET whole == All(txt, enc, skip, s \o more)
      rest == All(txt, enc, skip, x.left \o more) IN
  x.stop # "EILSEQ" =>
    whole.out = x.out \o rest.out /\ whole.left = rest.left /\ whole.stop = rest.stop

(* A text may be cut anywhere: what iconv() leaves, joined with what       *)
(* follows, becomes what the whole would have become.                      *)
LEMMA ConvertSplit ==
  ASSUME NEW txt, NEW enc, NEW skip \in BOOLEAN, NEW s \in Seq(Piece), NEW r \in Nat, NEW more \in Seq(Piece)
  PROVE  SplitAt(txt, enc, skip, s, more, Convert(txt, s, enc, r, skip))
<1>. DEFINE C(t, q) == Convert(txt, t, enc, q, skip)
            A(t) == All(txt, enc, skip, t)
            Fine(t) == \A q \in Nat : SplitAt(txt, enc, skip, t, more, C(t, q))
            Wrong == {t \in Seq(Piece) : ~Fine(t)}
<1>. SUFFICES ASSUME Wrong # {} PROVE FALSE
  OBVIOUS
<1>1. PICK t \in Wrong : \A u \in Seq(Piece) : Len(u) < Len(t) => u \notin Wrong
  <2>1. Wrong \in SUBSET Seq(Piece)
    OBVIOUS
  <2>. HIDE DEF Wrong
  <2>. QED BY <2>1, ShortestOne
<1>2. t \in Seq(Piece) /\ ~Fine(t) /\ Len(t) \in Nat
  <2>. HIDE DEF Fine
  <2>. QED OBVIOUS
<1>3. ASSUME NEW u \in Seq(Piece), Len(u) < Len(t) PROVE Fine(u)
  BY <1>1, <1>3
<1>. HIDE DEF Wrong
<1>. SUFFICES ASSUME NEW q \in Nat PROVE SplitAt(txt, enc, skip, t, more, C(t, q))
  BY <1>2
<1>. DEFINE front == Front(txt, t, enc)
            made == Made(txt, t, enc)
            behind == Behind(txt, t, enc)
            long == t \o more
            twice == 2 * Len(long)
            x == C(t, q)
<1>4. long \in Seq(Piece) /\ Len(long) = Len(t) + Len(more) /\ twice \in Nat /\ Len(more) \in Nat
      /\ twice >= 2 * Len(long)
  BY <1>2
<1>5. /\ Turns(txt, enc, skip, t, q) /\ Divides(txt, enc, t) 
      /\ Turns(txt, enc, skip, long, twice) /\ Divides(txt, enc, long)
  BY <1>2, <1>4, ConvertIs, DividesIs
<1>6. front \in {"done", "EILSEQ", "EINVAL", "character"} /\ (front = "done" <=> t = <<>>)
  BY <1>2, FrontIs
<1>7. ASSUME NEW u \in Seq(Piece), NEW p \in Nat, p >= 2 * Len(u) PROVE C(u, p) = A(u)
  BY <1>7, RoomEnough DEF All
<1>8. CASE x.out = <<>> /\ x.left = t
  <2>1. A(long).out \in Seq(Piece)
    BY <1>4, ConvertTypes DEF All, Sound
  <2>2. A(long).out = <<>> \o A(long).out
    BY <2>1
  <2>. HIDE DEF x
  <2>3. SplitAt(txt, enc, skip, t, more, x)
    BY <1>8, <2>2 DEF SplitAt
  <2>. QED BY <2>3 DEF x
<1>9. CASE front = "EILSEQ" /\ skip
  <2>. DEFINE u == Tail(t)
  <2>1. u \in Seq(Piece) /\ Len(u) < Len(t) /\ Len(u) = Len(t) - 1
    BY <1>2, <1>5, <1>6, <1>9 DEF Divides
  <2>2. Front(txt, long, enc) = "EILSEQ" /\ Tail(long) = u \o more
    BY <1>2, <1>9, FrontOn
  <2>3. x = C(u, q) /\ C(long, twice) = C(u \o more, twice)
    BY <1>5, <1>9, <2>2 DEF Turns
  <2>. HIDE DEF u, C, A
  <2>4. u \o more \in Seq(Piece) /\ twice >= 2 * Len(u \o more)
    BY <1>4, <2>1
  <2>5. C(u \o more, twice) = A(u \o more) /\ C(long, twice) = A(long)
    <3>. HIDE DEF long, twice
    <3>. QED BY <1>4, <1>7, <2>4
  <2>6. SplitAt(txt, enc, skip, u, more, x)
    BY <1>3, <2>1, <2>3
  <2>7. A(long) = A(u \o more)
    BY <2>3, <2>5
  <2>. HIDE DEF x
  <2>8. SplitAt(txt, enc, skip, t, more, x)
    BY <2>6, <2>7 DEF SplitAt, A
  <2>. QED BY <2>8 DEF x
<1>10. CASE front # "character" /\ ~(front = "EILSEQ" /\ skip)
  <2>1. x = [out |-> <<>>, left |-> t, stop |-> front]
    BY <1>5, <1>10 DEF Turns
  <2>. QED BY <1>8, <2>1
<1>11. CASE front = "character" /\ q < Len(made)
  <2>1. x = [out |-> <<>>, left |-> t, stop |-> "E2BIG"]
    BY <1>5, <1>11 DEF Turns
  <2>. QED BY <1>8, <2>1
<1>12. CASE front = "character" /\ ~(q < Len(made))
  <2>. DEFINE u == behind
              m == Len(made)
              v == u \o more
              y == C(u, q - m)
  <2>1. /\ u \in Seq(Piece) /\ Len(u) < Len(t) /\ Len(u) \in Nat /\ made \in Seq(Piece)
        /\ m \in 1..4 /\ m <= 2 * (Len(t) - Len(u))
    BY <1>5, <1>12 DEF Divides
  <2>2. Front(txt, long, enc) = "character" /\ Made(txt, long, enc) = made /\ Behind(txt, long, enc) = v
    BY <1>2, <1>12, FrontOn
  <2>3. v \in Seq(Piece) /\ Len(v) = Len(u) + Len(more)
    BY <2>1
  <2>. HIDE DEF u, v, m
  <2>4. /\ q - m \in Nat /\ q >= m
        /\ twice - m \in Nat /\ twice >= m /\ twice - m >= 2 * Len(v)
    BY <1>2, <1>4, <1>12, <2>1, <2>3 DEF m
  <2>5. x = [out |-> made \o y.out, left |-> y.left, stop |-> y.stop]
    BY <1>5, <1>12, <2>4 DEF Turns, u, m
  <2>6. C(long, twice) = [out |-> made \o C(v, twice - m).out, left |-> C(v, twice - m).left,
                          stop |-> C(v, twice - m).stop]
    BY <1>5, <2>2, <2>4 DEF Turns, m
  <2>. HIDE DEF C, A
  <2>7. C(v, twice - m) = A(v) /\ C(long, twice) = A(long)
    <3>. HIDE DEF long, twice
    <3>. QED BY <1>4, <1>7, <2>3, <2>4
  <2>8. SplitAt(txt, enc, skip, u, more, y)
    BY <1>3, <2>1, <2>4
  <2>9. y.out \in Seq(Piece) /\ y.left \in Seq(Piece)
    BY <2>1, <2>4, ConvertTypes DEF Sound, C
  <2>10. y.left \o more \in Seq(Piece)
    BY <2>9
  <2>11. A(y.left \o more).out \in Seq(Piece)
    <3>1. 2 * Len(y.left \o more) \in Nat
      BY <2>10
    <3>. QED BY <2>10, <3>1, ConvertTypes DEF Sound, A, All
  <2>. HIDE DEF x, y, made
  <2>12. x.stop # "EILSEQ" => /\ A(v).out = y.out \o A(x.left \o more).out
                              /\ A(v).left = A(x.left \o more).left /\ A(v).stop = A(x.left \o more).stop
    BY <2>5, <2>8 DEF SplitAt, A, v
  <2>13. made \o (y.out \o A(y.left \o more).out) = (made \o y.out) \o A(y.left \o more).out
    <3>. DEFINE a == y.out
                c == A(y.left \o more).out
    <3>1. made \in Seq(Piece) /\ a \in Seq(Piece) /\ c \in Seq(Piece)
      BY <2>1, <2>9, <2>11
    <3>. HIDE DEF a, c
    <3>2. made \o (a \o c) = (made \o a) \o c
      BY SMTT(40), <3>1, JoinedThrice
    <3>. QED BY <3>2 DEF a, c
  <2>14. SplitAt(txt, enc, skip, t, more, x)
    <3>1. x.out = made \o y.out /\ x.left = y.left /\ x.stop = y.stop
      BY <2>5
    <3>2. A(long).out = made \o A(v).out /\ A(long).left = A(v).left /\ A(long).stop = A(v).stop
      BY <2>6, <2>7
    <3>. HIDE DEF long
    <3>3. x.stop # "EILSEQ" =>
            /\ A(long).out = x.out \o A(x.left \o more).out
            /\ A(long).left = A(x.left \o more).left /\ A(long).stop = A(x.left \o more).stop
      BY ONLY <2>12, <2>13, <3>1, <3>2
    <3>. QED BY <3>3 DEF SplitAt, A, long
  <2>. QED BY <2>14 DEF x
<1>. QED BY <1>6, <1>9, <1>10, <1>11, <1>12

-----------------------------------------------------------------------------
(* Decoded, these bytes are these units. *)
Faithful(txt, skip, bytes, units) ==
  /\ bytes \in Seq(Piece) /\ units \in Seq(Piece)
  /\ All(txt, "bytes", skip, bytes).out = units
  /\ All(txt, "bytes", skip, bytes).left = <<>>
  /\ All(txt, "bytes", skip, bytes).stop = "done"

(* Nothing is decoded to nothing, *)
LEMMA FaithfulNothing ==
  ASSUME NEW txt, NEW skip \in BOOLEAN
  PROVE  Faithful(txt, skip, <<>>, <<>>)
<1>. DEFINE s == <<>>
<1>1. s \in Seq(Piece) /\ 2 * Len(s) \in Nat
  OBVIOUS
<1>2. Front(txt, s, "bytes") = "done"
  BY DEF Front
<1>. HIDE DEF s
<1>3. All(txt, "bytes", skip, s) = [out |-> <<>>, left |-> s, stop |-> "done"]
  <2>1. Turns(txt, "bytes", skip, s, 2 * Len(s))
    BY <1>1, ConvertIs
  <2>. QED BY <1>2, <2>1 DEF Turns, All
<1>4. <<>> \in Seq(Piece) /\ s = <<>>
  BY DEF s
<1>. QED BY <1>1, <1>3, <1>4 DEF Faithful

(* two texts to both, *)
LEMMA FaithfulConcat ==
  ASSUME NEW txt, NEW skip \in BOOLEAN, NEW a, NEW b, NEW u, NEW v,
         Faithful(txt, skip, a, u), Faithful(txt, skip, b, v)
  PROVE  Faithful(txt, skip, a \o b, u \o v)
<1>. DEFINE x == Convert(txt, a, "bytes", 2 * Len(a), skip)
            all == All(txt, "bytes", skip, a \o b)
<1>1. a \in Seq(Piece) /\ b \in Seq(Piece) /\ u \in Seq(Piece) /\ v \in Seq(Piece)
  BY DEF Faithful
<1>2. 2 * Len(a) \in Nat /\ a \o b \in Seq(Piece) /\ u \o v \in Seq(Piece)
  BY <1>1
<1>3. x.out = u /\ x.left = <<>> /\ x.stop = "done"
  BY DEF Faithful, All
<1>4. SplitAt(txt, "bytes", skip, a, b, x)
  BY <1>1, <1>2, ConvertSplit
<1>5. <<>> \o b = b
  BY <1>1
<1>. HIDE DEF x
<1>6. all.out = u \o v /\ all.left = <<>> /\ all.stop = "done"
  BY <1>3, <1>4, <1>5 DEF SplitAt, Faithful
<1>. QED BY <1>2, <1>6 DEF Faithful

(* and the bytes of a character to its units. *)
LEMMA FaithfulCharacter ==
  ASSUME NEW txt, NEW skip \in BOOLEAN, NEW i \in Nat, txt[i] \notin {"bad", "cut"}
  PROVE  Faithful(txt, skip, Character(txt, i, "bytes"), Character(txt, i, "units"))
<1>. DEFINE s == Character(txt, i, "bytes")
            u == Character(txt, i, "units")
            w == Width(txt[i], "bytes")
            r == 2 * Len(s)
<1>1. /\ s \in Seq(Piece) /\ Len(s) = w /\ w \in 1..4 /\ \A j \in 1..w : s[j] = <<i, j>>
      /\ u \in Seq(Piece) /\ Len(u) = Width(txt[i], "units")
  BY CharacterIs, WidthIs
<1>. HIDE DEF s, u, w
<1>2. s # <<>> /\ Head(s) = <<i, 1>> /\ Head(s)[1] = i /\ Head(s)[2] = 1 /\ r \in Nat
  <2>1. 1 \in 1..w /\ s # <<>> /\ Head(s) = s[1]
    BY <1>1
  <2>. QED BY <1>1, <2>1
<1>3. Front(txt, s, "bytes") = "character"
  BY <1>1, <1>2 DEF Front, w
<1>4. Made(txt, s, "bytes") = u
  BY <1>2 DEF Made, Other, u
<1>5. Behind(txt, s, "bytes") = <<>>
  BY <1>1, <1>2 DEF Behind, w
<1>6. Turns(txt, "bytes", skip, s, r) /\ Divides(txt, "bytes", s)
  BY <1>1, <1>2, ConvertIs, DividesIs
<1>7. Len(u) \in Nat /\ Len(u) <= r
  BY <1>1, <1>3, <1>4, <1>5, <1>6 DEF Divides
<1>. DEFINE y == Convert(txt, <<>>, "bytes", r - Len(u), skip)
            x == All(txt, "bytes", skip, s)
<1>8. x = [out |-> u \o y.out, left |-> y.left, stop |-> y.stop]
  <2>. HIDE DEF r
  <2>1. r >= Len(u)
    BY <1>2, <1>7
  <2>. QED BY <1>3, <1>4, <1>5, <1>6, <2>1 DEF Turns, All, r
<1>9. y.out = <<>> /\ y.left = <<>> /\ y.stop = "done"
  <2>. HIDE DEF r
  <2>1. r - Len(u) \in Nat /\ r - Len(u) >= 2 * Len(<<>>) /\ <<>> \in Seq(Piece)
    BY <1>2, <1>7
  <2>2. y = All(txt, "bytes", skip, <<>>)
    BY <2>1, RoomEnough DEF All
  <2>3. Faithful(txt, skip, <<>>, <<>>)
    BY FaithfulNothing
  <2>. HIDE DEF y
  <2>. QED BY <2>2, <2>3 DEF Faithful
<1>. HIDE DEF x, y
<1>10. x.out = u /\ x.left = <<>> /\ x.stop = "done"
  BY <1>1, <1>8, <1>9
<1>. QED BY <1>1, <1>10 DEF Faithful, x, s, u

(* What is written of a text can be read back, but for what is left. *)
Sent(txt, skip, s, x) ==
  \E sent \in Seq(Piece) : s = sent \o x.left /\ Faithful(txt, skip, x.out, sent)

(* What a turn of an encoding writes can be decoded to what it took. *)
LEMMA FaithfulTurn ==
  ASSUME NEW txt, NEW skip \in BOOLEAN, NEW d \in BOOLEAN, ~d,
         NEW s \in Seq(Piece), Complete(txt, "units", s), NEW r \in Nat
  PROVE  Sent(txt, skip, s, Convert(txt, s, "units", r, d))
<1>. DEFINE C(t, q) == Convert(txt, t, "units", q, d)
            Fine(t) == Complete(txt, "units", t) => \A q \in Nat : Sent(txt, skip, t, C(t, q))
            Wrong == {t \in Seq(Piece) : ~Fine(t)}
<1>. SUFFICES ASSUME Wrong # {} PROVE FALSE
  <2>1. Wrong = {} => Fine(s)
    <3>. HIDE DEF Fine
    <3>. QED OBVIOUS
  <2>. HIDE DEF Wrong
  <2>. QED BY <2>1
<1>1. PICK t \in Wrong : \A u \in Seq(Piece) : Len(u) < Len(t) => u \notin Wrong
  <2>1. Wrong \in SUBSET Seq(Piece)
    OBVIOUS
  <2>. HIDE DEF Wrong
  <2>. QED BY <2>1, ShortestOne
<1>2. t \in Seq(Piece) /\ ~Fine(t) /\ Len(t) \in Nat
  <2>. HIDE DEF Fine
  <2>. QED OBVIOUS
<1>3. ASSUME NEW u \in Seq(Piece), Len(u) < Len(t) PROVE Fine(u)
  BY <1>1, <1>3
<1>. HIDE DEF Wrong
<1>. SUFFICES ASSUME Complete(txt, "units", t), NEW q \in Nat PROVE Sent(txt, skip, t, C(t, q))
  BY <1>2
<1>. DEFINE front == Front(txt, t, "units")
            made == Made(txt, t, "units")
            behind == Behind(txt, t, "units")
            x == C(t, q)
<1>4. Turns(txt, "units", d, t, q) /\ Divides(txt, "units", t)
  BY <1>2, ConvertIs, DividesIs
<1>5. ASSUME x.out = <<>>, x.left = t PROVE Sent(txt, skip, t, x)
  <2>1. <<>> \in Seq(Piece) /\ t = <<>> \o t /\ Faithful(txt, skip, <<>>, <<>>)
    BY <1>2, FaithfulNothing
  <2>. HIDE DEF x
  <2>2. \E sent \in Seq(Piece) : t = sent \o x.left /\ Faithful(txt, skip, x.out, sent)
    BY <1>5, <2>1
  <2>. QED BY <2>2 DEF Sent
<1>6. CASE front # "character"
  <2>1. x = [out |-> <<>>, left |-> t, stop |-> front]
    BY <1>4, <1>6 DEF Turns
  <2>. QED BY <1>5, <2>1
<1>7. CASE front = "character" /\ q < Len(made)
  <2>1. x = [out |-> <<>>, left |-> t, stop |-> "E2BIG"]
    BY <1>4, <1>7 DEF Turns
  <2>. QED BY <1>5, <2>1
<1>8. CASE front = "character" /\ ~(q < Len(made))
  <2>. DEFINE i == Head(t)[1]
              w == Width(txt[i], "units")
              m == q - Len(made)
              y == C(behind, m)
              c == Character(txt, i, "units")
  <2>1. /\ t # <<>> /\ behind \in Seq(Piece) /\ Len(behind) < Len(t)
        /\ Len(made) \in 1..4 /\ m \in Nat /\ q >= Len(made)
    BY <1>4, <1>8 DEF Divides
  <2>2. /\ Head(t) = t[1] /\ t[1] \in Nat \X Nat /\ i \in Nat /\ t[1] = <<i, 1>>
        /\ txt[i] \notin {"bad", "cut"} /\ w \in 1..2 /\ w <= Len(t)
    <3>1. t[1] \in Nat \X Nat /\ Head(t) = t[1]
      <4>1. t[1] \in Piece /\ Head(t) = t[1]
        BY <1>2, <2>1
      <4>. QED BY <4>1 DEF Piece
    <3>2. Head(t)[2] = 1 /\ txt[i] \notin {"bad", "cut"} /\ w <= Len(t)
      BY <1>2, <1>8, FrontIs
    <3>3. w \in 1..2
      BY DEF Width
    <3>. QED BY <3>1, <3>2, <3>3
  <2>3. behind = SubSeq(t, w + 1, Len(t))
    BY DEF Behind
  <2>. HIDE DEF w, i, behind
  <2>4. c \in Seq(Piece) /\ Len(c) = w /\ \A j \in 1..w : c[j] = <<i, j>>
    BY <2>2, CharacterIs DEF w
  <2>5. w = 2 => t[2] = <<i, 2>>
    <3>. SUFFICES ASSUME w = 2 PROVE t[2] = <<i, 2>>
      OBVIOUS
    <3>1. 1 \in 1..Len(t) /\ t[1][1] = i /\ t[1][2] = 1
      BY <2>1, <2>2
    <3>2. t[1][2] < Width(txt[t[1][1]], "units")
      BY <3>1 DEF w
    <3>. QED BY <3>1, <3>2 DEF Complete
  <2>6. t = c \o behind
    <3>. HIDE DEF c
    <3>1. \A j \in 1..w : t[j] = c[j]
      <4>1. 1 \in 1..w /\ c[1] = <<i, 1>>
        BY <2>2, <2>4
      <4>2. w = 2 => c[2] = <<i, 2>>
        BY <2>4
      <4>3. \A j \in 1..w : j = 1 \/ (j = 2 /\ w = 2)
        BY <2>2
      <4>. QED BY <2>2, <2>5, <4>1, <4>2, <4>3
    <3>. DEFINE u == c \o behind
    <3>2. /\ Len(behind) = Len(t) - w /\ \A j \in 1..Len(behind) : behind[j] = t[w + j]
      BY <1>2, <2>2, <2>3
    <3>3. /\ u \in Seq(Piece) /\ Len(u) = Len(t)
          /\ \A j \in 1..Len(u) : u[j] = IF j <= w THEN c[j] ELSE behind[j - w]
      <4>1. c \in Seq(Piece) /\ behind \in Seq(Piece)
        BY <2>1, <2>4
      <4>2. /\ u \in Seq(Piece) /\ Len(u) = Len(c) + Len(behind)
            /\ \A j \in 1..Len(u) : u[j] = IF j <= Len(c) THEN c[j] ELSE behind[j - Len(c)]
        BY ONLY <4>1, ConcatProperties
      <4>. QED BY <1>2, <2>2, <2>4, <3>2, <4>2
    <3>. HIDE DEF u
    <3>4. ASSUME NEW j \in 1..Len(t) PROVE t[j] = u[j]
      <4>1. CASE j <= w
        BY <2>2, <3>1, <3>3, <4>1
      <4>2. CASE ~(j <= w)
        <5>. DEFINE b == j - w
        <5>1. b \in 1..Len(behind) /\ w + b = j
          BY <1>2, <2>2, <3>2, <4>2
        <5>2. u[j] = behind[b]
          BY <3>3, <4>2
        <5>. HIDE DEF b
        <5>. QED BY <3>2, <5>1, <5>2
      <4>. QED BY <4>1, <4>2
    <3>5. t = u
      BY ONLY <1>2, <3>3, <3>4, SeqEqual
    <3>. QED BY <3>5 DEF u
  <2>7. Complete(txt, "units", behind)
    <3>1. w \in 0..Len(t)
      BY <1>2, <2>2
    <3>. QED BY <1>2, <2>3, <3>1, CompleteEnd
  <2>8. PICK sent \in Seq(Piece) : behind = sent \o y.left /\ Faithful(txt, skip, y.out, sent)
    <3>1. Fine(behind)
      BY <1>3, <2>1
    <3>2. Sent(txt, skip, behind, y)
      BY <2>1, <2>7, <3>1
    <3>. HIDE DEF y
    <3>. QED BY <3>2 DEF Sent
  <2>9. x = [out |-> made \o y.out, left |-> y.left, stop |-> y.stop]
    BY <1>4, <1>8, <2>1 DEF Turns, behind
  <2>10. Faithful(txt, skip, made, c)
    BY <2>2, FaithfulCharacter DEF Made, Other, i
  <2>11. y.left \in Seq(Piece)
    BY <2>1, ConvertTypes DEF Sound
  <2>. HIDE DEF x, y, made, c
  <2>12. Faithful(txt, skip, made \o y.out, c \o sent)
    BY <2>8, <2>10, FaithfulConcat
  <2>13. c \o (sent \o y.left) = (c \o sent) \o y.left
    <3>. DEFINE l == y.left
    <3>1. c \in Seq(Piece) /\ sent \in Seq(Piece) /\ l \in Seq(Piece)
      BY <2>4, <2>11
    <3>. HIDE DEF l
    <3>2. c \o (sent \o l) = (c \o sent) \o l
      BY <3>1, JoinedThrice
    <3>. QED BY <3>2 DEF l
  <2>14. c \o sent \in Seq(Piece)
    BY <2>4
  <2>15. x.out = made \o y.out /\ x.left = y.left
    BY <2>9
  <2>16. t = (c \o sent) \o x.left
    BY <2>6, <2>8, <2>13, <2>15
  <2>17. Sent(txt, skip, t, x)
    BY <2>12, <2>14, <2>15, <2>16 DEF Sent
  <2>. QED BY <2>17 DEF x
<1>. QED BY <1>6, <1>7, <1>8

-----------------------------------------------------------------------------
(* The pieces of two texts joined. *)
LEMMA Joined ==
  ASSUME NEW u, NEW v, u \in Seq(Piece), v \in Seq(Piece)
  PROVE  /\ u \o v \in Seq(Piece) /\ Len(u \o v) = Len(u) + Len(v)
         /\ \A i \in 1..Len(u \o v) : (u \o v)[i] = IF i <= Len(u) THEN u[i] ELSE v[i - Len(u)]
BY ConcatProperties

(* The end of a part of a text, *)
LEMMA PartOfPart ==
  ASSUME NEW s \in Seq(Piece), NEW a \in Nat, NEW b \in Nat, a <= b, b <= Len(s), NEW k \in 0..(b - a)
  PROVE  SubSeq(SubSeq(s, a + 1, b), k + 1, b - a) = SubSeq(s, a + k + 1, b)
<1>. DEFINE u == SubSeq(s, a + 1, b)
            v == SubSeq(u, k + 1, b - a)
            x == SubSeq(s, a + k + 1, b)
<1>1. u \in Seq(Piece) /\ Len(u) = b - a /\ \A i \in 1..(b - a) : u[i] = s[a + i]
  OBVIOUS
<1>. HIDE DEF u
<1>2. v \in Seq(Piece) /\ Len(v) = b - a - k /\ \A i \in 1..(b - a - k) : v[i] = u[k + i]
  BY <1>1
<1>3. x \in Seq(Piece) /\ Len(x) = b - a - k /\ \A i \in 1..(b - a - k) : x[i] = s[a + k + i]
  OBVIOUS
<1>. HIDE DEF v, x
<1>4. ASSUME NEW i \in 1..(b - a - k) PROVE v[i] = x[i]
  <2>1. k + i \in 1..(b - a) /\ a + (k + i) = a + k + i
    OBVIOUS
  <2>2. v[i] = u[k + i] /\ x[i] = s[a + k + i]
    BY <1>2, <1>3
  <2>3. u[k + i] = s[a + (k + i)]
    BY <1>1, <2>1
  <2>. QED BY <2>1, <2>2, <2>3
<1>5. v = x
  BY ONLY <1>2, <1>3, <1>4, SeqEqual
<1>. QED BY <1>5 DEF v, x, u

(* and two parts of it that follow each other. *)
LEMMA PartsJoined ==
  ASSUME NEW s \in Seq(Piece), NEW a \in Nat, NEW b \in Nat, NEW c \in Nat, a <= b, b <= c, c <= Len(s)
  PROVE  SubSeq(s, a + 1, b) \o SubSeq(s, b + 1, c) = SubSeq(s, a + 1, c)
<1>. DEFINE u == SubSeq(s, a + 1, b)
            v == SubSeq(s, b + 1, c)
            x == SubSeq(s, a + 1, c)
            y == u \o v
<1>1. u \in Seq(Piece) /\ Len(u) = b - a /\ \A i \in 1..(b - a) : u[i] = s[a + i]
  OBVIOUS
<1>2. v \in Seq(Piece) /\ Len(v) = c - b /\ \A i \in 1..(c - b) : v[i] = s[b + i]
  OBVIOUS
<1>3. x \in Seq(Piece) /\ Len(x) = c - a /\ \A i \in 1..(c - a) : x[i] = s[a + i]
  OBVIOUS
<1>. HIDE DEF u, v, x
<1>4. /\ y \in Seq(Piece) /\ Len(y) = Len(u) + Len(v)
      /\ \A i \in 1..Len(y) : y[i] = IF i <= Len(u) THEN u[i] ELSE v[i - Len(u)]
  BY <1>1, <1>2, Joined
<1>5. Len(y) = c - a
  BY <1>1, <1>2, <1>4
<1>. HIDE DEF y
<1>6. ASSUME NEW i \in 1..(c - a) PROVE y[i] = x[i]
  <2>1. i \in 1..Len(y) /\ x[i] = s[a + i]
    BY <1>3, <1>5
  <2>2. CASE i <= b - a
    <3>1. y[i] = u[i] /\ i \in 1..(b - a)
      BY <1>1, <1>4, <2>1, <2>2
    <3>. QED BY <1>1, <2>1, <3>1
  <2>3. CASE ~(i <= b - a)
    <3>. DEFINE j == i - (b - a)
    <3>1. j \in 1..(c - b) /\ b + j = a + i
      BY <2>3
    <3>2. y[i] = v[j]
      BY <1>1, <1>4, <2>1, <2>3
    <3>. HIDE DEF j
    <3>3. v[j] = s[b + j]
      BY <1>2, <3>1
    <3>. QED BY <2>1, <3>1, <3>2, <3>3
  <2>. QED BY <2>2, <2>3
<1>7. y = x
  BY ONLY <1>3, <1>4, <1>5, <1>6, SeqEqual
<1>. QED BY <1>7 DEF y, x, u, v

-----------------------------------------------------------------------------
(* A TextInputStream: the text, what of it is where, and where the call is. *)
TextOK ==
  /\ text \in Seq(Kinds) /\ discards \in BOOLEAN
  /\ \A i \in 1..(Len(text) - 1) : text[i] # "cut"

BufferOK ==
  /\ fetched \in 0..Len(Source)
  /\ inBuffer \in Seq(Piece) /\ Len(inBuffer) <= InSize /\ Len(inBuffer) <= fetched
  /\ inBuffer = SubSeq(Source, fetched - Len(inBuffer) + 1, fetched)

Reading == pc \in {"top", "fill", "convert"}

CallOK ==
  /\ op \in {"none", "read", "readLine", "readLines", "forEach", "copy"}
  /\ pc \in {"idle", "top", "fill", "convert", "line", "emit"}
  /\ op = "none" <=> pc = "idle"
  /\ op = "read" => Reading
  /\ pc = "emit" => op = "copy"
  /\ n \in Nat /\ size \in Nat
  /\ op \notin {"none", "read"} => n = 1
  /\ Reading => (n # 0 => size = n) /\ Len(outBuffer) <= size
  /\ lastErrno \in {"0", "EINVAL", "E2BIG"}
  /\ pc = "fill" => MustFill
  /\ pc \in {"top", "fill"} /\ lastErrno = "EINVAL" => Front(text, inBuffer, "bytes") = "EINVAL"

UnitsOK ==
  /\ outBuffer \in Seq(Piece) /\ Complete(text, "units", outBuffer)
  /\ line \in Seq(Piece) /\ Complete(text, "units", line)
  /\ lines \in Seq(Seq(Piece))
  /\ op = "none" => line = <<>> /\ lines = <<>>
  /\ delivered \in Seq(Piece)

StreamOK == TextOK /\ BufferOK /\ CallOK /\ UnitsOK

(* What is ahead, iconv() makes of what is in inBuffer and what follows.   *)
Coming == inBuffer \o SubSeq(Source, fetched + 1, Len(Source))

(* The source holds the pieces of its text, the cut one last. *)
LEMMA SourceIs ==
  ASSUME TextOK
  PROVE  /\ Source \in Seq(Piece) /\ Len(Source) \in Nat
         /\ \A p \in 1..Len(Source) :
              Source[p][1] \in 1..Len(text) /\ (text[Source[p][1]] = "cut" => p = Len(Source))
<1>1. Len(text) \in Nat
  BY DEF TextOK
<1>2. Whole(text, "bytes", Len(text), Source)
  BY <1>1, PiecesAre DEF Source
<1>3. \A p \in 1..Len(Source) : Source[p][1] = Len(text) /\ text[Len(text)] = "cut" => p = Len(Source)
  BY <1>1, PiecesAre DEF Source
<1>4. Source \in Seq(Piece) /\ \A p \in 1..Len(Source) : Source[p][1] \in 1..Len(text)
  BY <1>2 DEF Whole
<1>5. ASSUME NEW p \in 1..Len(Source), text[Source[p][1]] = "cut" PROVE p = Len(Source)
  <2>1. Source[p][1] \in 1..Len(text)
    BY <1>4
  <2>2. Source[p][1] \notin 1..(Len(text) - 1)
    BY <1>5 DEF TextOK
  <2>3. Source[p][1] = Len(text)
    BY <1>1, <2>1, <2>2
  <2>. QED BY <1>3, <1>5, <2>3
<1>. QED BY <1>4, <1>5

(* What is to come is the end of the source, and what is ahead iconv()     *)
(* makes of it.                                                            *)
LEMMA ComingIs ==
  ASSUME TextOK, BufferOK
  PROVE  /\ Coming \in Seq(Piece) /\ Len(Coming) <= Len(Source)
         /\ Coming = SubSeq(Source, fetched - Len(inBuffer) + 1, Len(Source))
         /\ SubSeq(Source, fetched + 1, Len(Source)) \in Seq(Piece)
         /\ Ahead = All(text, "bytes", TRUE, Coming).out /\ Ahead \in Seq(Piece)
<1>1. Source \in Seq(Piece) /\ Len(Source) \in Nat
  BY SourceIs
<1>. DEFINE a == fetched - Len(inBuffer)
            s == Source
            c == Coming
<1>2. a \in Nat /\ a <= fetched /\ fetched \in Nat /\ fetched <= Len(s) /\ inBuffer = SubSeq(s, a + 1, fetched)
  BY DEF BufferOK
<1>3. SubSeq(s, fetched + 1, Len(s)) \in Seq(Piece)
  BY <1>1, <1>2
<1>4. c = SubSeq(s, a + 1, Len(s))
  <2>. HIDE DEF a
  <2>1. SubSeq(s, a + 1, fetched) \o SubSeq(s, fetched + 1, Len(s)) = SubSeq(s, a + 1, Len(s))
    <3>1. s \in Seq(Piece) /\ Len(s) \in Nat
      BY <1>1
    <3>. DEFINE b == fetched
                e == Len(s)
    <3>2. a \in Nat /\ b \in Nat /\ e \in Nat /\ a <= b /\ b <= e /\ e <= Len(s)
      BY <1>2, <3>1
    <3>. HIDE DEF s, b, e
    <3>3. SubSeq(s, a + 1, b) \o SubSeq(s, b + 1, e) = SubSeq(s, a + 1, e)
      BY ONLY <3>1, <3>2, PartsJoined
    <3>. QED BY <3>3 DEF b, e
  <2>. QED BY <1>2, <2>1 DEF Coming
<1>5. c \in Seq(Piece) /\ Len(c) <= Len(s) /\ Len(c) \in Nat
  <2>. HIDE DEF a, s
  <2>1. SubSeq(s, a + 1, Len(s)) \in Seq(Piece) /\ Len(SubSeq(s, a + 1, Len(s))) = Len(s) - a
    BY <1>1, <1>2 DEF s
  <2>. QED BY <1>1, <1>2, <1>4, <2>1 DEF s
<1>6. Ahead = Convert(text, c, "bytes", 2 * Len(s), TRUE).out
  BY DEF Ahead, Coming
<1>. HIDE DEF c, s
<1>7. 2 * Len(s) \in Nat /\ 2 * Len(s) >= 2 * Len(c) /\ 2 * Len(c) \in Nat
  BY <1>1, <1>5 DEF s
<1>8. ASSUME NEW d \in BOOLEAN
      PROVE  /\ Convert(text, c, "bytes", 2 * Len(s), d) = All(text, "bytes", d, c)
             /\ All(text, "bytes", d, c).out \in Seq(Piece)
  <2>1. Convert(text, c, "bytes", 2 * Len(s), d) = Convert(text, c, "bytes", 2 * Len(c), d)
    BY <1>5, <1>7, RoomEnough
  <2>2. Sound(text, "bytes", c, 2 * Len(c), d, Convert(text, c, "bytes", 2 * Len(c), d))
    BY <1>5, <1>7, ConvertTypes
  <2>. QED BY <2>1, <2>2 DEF All, Sound
<1>9. Ahead = All(text, "bytes", TRUE, c).out /\ Ahead \in Seq(Piece)
  BY <1>6, <1>8
<1>. QED BY <1>3, <1>4, <1>5, <1>9 DEF c, s, a

(* Nothing comes when read() may not go on. *)
LEMMA NothingAhead ==
  ASSUME StreamOK, pc = "fill", Room = 0 \/ fetched = Len(Source)
  PROVE  Ahead = <<>>
<1>1. TextOK /\ BufferOK /\ MustFill /\ Len(inBuffer) \in Nat
      /\ (lastErrno = "EINVAL" => Front(text, inBuffer, "bytes") = "EINVAL")
  BY DEF StreamOK, CallOK, BufferOK
<1>2. Coming \in Seq(Piece) /\ Ahead = All(text, "bytes", TRUE, Coming).out
  BY <1>1, ComingIs
<1>3. inBuffer \in Seq(Piece) /\ InSize \in Nat /\ InSize >= 4
  BY <1>1, TextStreamAssumption DEF BufferOK
<1>4. ASSUME Front(text, Coming, "bytes") \in {"done", "EINVAL"} PROVE Ahead = <<>>
  <2>. DEFINE s == Coming
              d == TRUE
  <2>1. 2 * Len(s) \in Nat /\ d \in BOOLEAN
    BY <1>2
  <2>. HIDE DEF s, d
  <2>2. Turns(text, "bytes", d, s, 2 * Len(s))
    BY <1>2, <2>1, ConvertIs DEF s
  <2>3. All(text, "bytes", d, s) = [out |-> <<>>, left |-> s, stop |-> Front(text, s, "bytes")]
    BY <1>4, <2>2 DEF Turns, All, s
  <2>4. All(text, "bytes", d, s).out = <<>>
    BY <2>3
  <2>. QED BY <1>2, <2>4 DEF s, d
<1>5. CASE inBuffer = <<>>
  <2>1. fetched = Len(Source)
    BY <1>3, <1>5 DEF Room
  <2>2. Coming = <<>>
    BY <1>1, <1>5, <2>1, SourceIs DEF Coming
  <2>. QED BY <1>4, <2>2 DEF Front
<1>6. CASE inBuffer # <<>>
  <2>1. Front(text, inBuffer, "bytes") = "EINVAL"
    BY <1>1, <1>6 DEF MustFill
  <2>2. CASE fetched = Len(Source)
    <3>1. Coming = inBuffer
      BY <1>1, <1>3, <2>2, SourceIs DEF Coming
    <3>. QED BY <1>4, <2>1, <3>1
  <2>3. CASE fetched # Len(Source)
    <3>. DEFINE a == fetched - Len(inBuffer)
    <3>1. Len(inBuffer) >= 4
      BY <1>1, <1>3, <2>3 DEF Room
    <3>2. text[Head(inBuffer)[1]] = "cut"
      BY <1>1, <1>3, <1>6, <2>1, <3>1, WidthIs DEF Front
    <3>3. a + 1 \in 1..Len(Source) /\ a + 1 < Len(Source)
      BY <1>1, <3>1, SourceIs DEF BufferOK
    <3>4. Head(inBuffer) = Source[a + 1]
      <4>1. inBuffer = SubSeq(Source, a + 1, fetched) /\ Head(inBuffer) = inBuffer[1] /\ Source \in Seq(Piece)
        BY <1>1, <1>3, <1>6, SourceIs DEF BufferOK
      <4>2. a \in Nat /\ fetched \in Nat /\ a + 1 <= fetched /\ fetched <= Len(Source)
        BY <1>1, <3>1 DEF BufferOK
      <4>. HIDE DEF a
      <4>3. SubSeq(Source, a + 1, fetched)[1] = Source[a + 1]
        BY <4>1, <4>2
      <4>. QED BY <4>1, <4>3
    <3>. HIDE DEF a
    <3>. QED BY <1>1, <3>2, <3>3, <3>4, SourceIs
  <2>. QED BY <2>2, <2>3
<1>. QED BY <1>5, <1>6

-----------------------------------------------------------------------------
Newlines(txt, l) == {k \in 1..Len(l) : txt[l[k][1]] = "newline"}

(* A line that is read goes on while it has no newline; what lacks it is   *)
(* the last there is, unless read(2) fails.                                *)
LineInv ==
  op \in {"readLines", "copy"} /\ ~failed =>
    /\ Reading => Newlines(text, line) = {}
    /\ pc \in {"line", "emit"} =>
         \/ line # <<>> /\ Newlines(text, line) = {Len(line)}
         \/ Newlines(text, line) = {} /\ Ahead = <<>>
    /\ \A i \in 1..Len(lines) :
         \/ Newlines(text, lines[i]) = {Len(lines[i])}
         \/ /\ Newlines(text, lines[i]) = {} /\ i = Len(lines) /\ Ahead = <<>>
            /\ line = <<>> /\ (Reading => outBuffer = <<>>)

StreamInv == StreamOK /\ NothingLost /\ EndMeansEnd /\ LineInv

(* What is ahead stays while the source and inBuffer do, *)
LEMMA SameAhead ==
  ASSUME UNCHANGED <<text, fetched, inBuffer>>
  PROVE  UNCHANGED <<Source, Ahead, Everything, Coming>>
BY DEF Source, Ahead, Everything, Coming

(* and so does what is known of inBuffer. *)
LEMMA SameBuffer ==
  ASSUME TextOK, BufferOK, UNCHANGED <<text, discards, fetched, inBuffer>>
  PROVE  TextOK' /\ BufferOK'
BY SameAhead DEF TextOK, BufferOK

(* The empty text. *)
LEMMA Empty ==
  ASSUME NEW txt
  PROVE  /\ <<>> \in Seq(Piece) /\ <<>> \in Seq(Seq(Piece)) /\ Len(<<>>) = 0
         /\ Complete(txt, "units", <<>>) /\ Newlines(txt, <<>>) = {}
<1>1. <<>> \in Seq(Piece) /\ <<>> \in Seq(Seq(Piece)) /\ Len(<<>>) = 0
  OBVIOUS
<1>2. Complete(txt, "units", <<>>)
  BY DEF Complete
<1>3. Newlines(txt, <<>>) = {}
  BY DEF Newlines
<1>. QED BY <1>1, <1>2, <1>3

(* The start. *)
LEMMA InitStreamInv ==
  ASSUME NEW texts, StreamInit(texts),
         \A t \in texts : t \in Seq(Kinds) /\ \A i \in 1..(Len(t) - 1) : t[i] # "cut"
  PROVE  StreamInv
<1>1. TextOK
  BY DEF StreamInit, TextOK
<1>2. Source \in Seq(Piece) /\ Len(Source) \in Nat
  BY <1>1, SourceIs
<1>3. fetched = 0 /\ inBuffer = <<>> /\ op = "none" /\ pc = "idle" /\ n = 0 /\ size = 0
      /\ outBuffer = <<>> /\ lastErrno = "0" /\ line = <<>> /\ lines = <<>> /\ delivered = <<>>
      /\ ended.op = "none"
  BY DEF StreamInit
<1>4. BufferOK
  BY <1>2, <1>3, TextStreamAssumption DEF BufferOK
<1>5. CallOK
  BY <1>3 DEF CallOK, Reading
<1>6. UnitsOK
  BY <1>3, Empty DEF UnitsOK
<1>7. NothingLost
  <2>1. Coming = Source
    BY <1>2, <1>3 DEF Coming
  <2>2. Ahead = All(text, "bytes", TRUE, Source).out /\ Ahead \in Seq(Piece)
    BY <1>1, <1>4, <2>1, ComingIs
  <2>3. Everything = Ahead
    BY <2>2 DEF Everything, All
  <2>4. (delivered \o <<>>) \o Ahead = Ahead
    BY <1>3, <2>2
  <2>. QED BY <1>3, <2>3, <2>4 DEF NothingLost
<1>8. EndMeansEnd
  BY <1>3 DEF EndMeansEnd
<1>9. LineInv
  BY <1>3 DEF LineInv
<1>. QED BY <1>1, <1>4, <1>5, <1>6, <1>7, <1>8, <1>9 DEF StreamInv, StreamOK

(* A call begins. *)
LEMMA CallKeeps ==
  ASSUME StreamInv, NEW name \in {"read", "readLine", "readLines", "forEach", "copy"}, NEW m \in Nat,
         name # "read" => m = 1, Call(name, m)
  PROVE  StreamInv'
<1>1. /\ op = "none" /\ op' = name /\ pc' = "top" /\ n' = m /\ lastErrno' = "0" /\ outBuffer' = <<>>
      /\ size' = (IF m = 0 THEN OutSize ELSE m)
      /\ UNCHANGED <<inBuffer, fetched, text, discards, line, lines, ended, delivered, thrown>>
  BY DEF Call, StartRead
<1>2. TextOK /\ BufferOK /\ CallOK /\ UnitsOK /\ pc = "idle" /\ line = <<>> /\ lines = <<>>
  BY <1>1 DEF StreamInv, StreamOK, CallOK, UnitsOK
<1>3. TextOK' /\ BufferOK'
  BY <1>1, <1>2, SameBuffer
<1>4. CallOK'
  <2>1. OutSize \in Nat
    BY TextStreamAssumption
  <2>. QED BY <1>1, <1>2, <2>1, Empty DEF CallOK, Reading
<1>5. UnitsOK'
  BY <1>1, <1>2, Empty DEF UnitsOK
<1>6. NothingLost'
  BY <1>1, <1>2, SameAhead DEF StreamInv, NothingLost
<1>7. EndMeansEnd'
  BY <1>1 DEF EndMeansEnd
<1>8. LineInv'
  BY <1>1, <1>2, SameAhead, Empty DEF StreamInv, LineInv, Reading
<1>. QED BY <1>3, <1>4, <1>5, <1>6, <1>7, <1>8 DEF StreamInv, StreamOK

(* A call ends, with a result or with an error. *)
LEMMA LeaveKeeps ==
  ASSUME StreamOK, Leave, UNCHANGED <<text, discards>>, delivered' \in Seq(Piece)
  PROVE  StreamOK' /\ LineInv' /\ UNCHANGED <<Source, Ahead, Everything>> /\ op' = "none" /\ pc' = "idle"
<1>1. /\ op' = "none" /\ pc' = "idle" /\ n' = 0 /\ size' = 0 /\ outBuffer' = <<>> /\ lastErrno' = "0"
      /\ line' = <<>> /\ lines' = <<>> /\ UNCHANGED <<inBuffer, fetched>>
  BY DEF Leave
<1>2. TextOK' /\ BufferOK'
  BY <1>1, SameBuffer DEF StreamOK
<1>3. CallOK'
  BY <1>1 DEF CallOK, Reading
<1>4. UnitsOK'
  BY <1>1, Empty DEF UnitsOK
<1>5. LineInv'
  BY <1>1 DEF LineInv
<1>6. UNCHANGED <<Source, Ahead, Everything>>
  BY <1>1, SameAhead
<1>. QED BY <1>1, <1>2, <1>3, <1>4, <1>5, <1>6 DEF StreamOK

(* A call that throws drops what it has. *)
LEMMA ThrowsKeeps ==
  ASSUME StreamInv, Throws, UNCHANGED <<text, discards>>
  PROVE  StreamInv'
<1>1. Leave /\ thrown' = TRUE /\ UNCHANGED delivered /\ StreamOK
  BY DEF Throws, Ends, StreamInv
<1>2. delivered' \in Seq(Piece)
  BY <1>1 DEF StreamOK, UnitsOK
<1>3. StreamOK' /\ LineInv'
  BY <1>1, <1>2, LeaveKeeps
<1>. QED BY <1>1, <1>3 DEF StreamInv, NothingLost, EndMeansEnd

(* What was delivered and what is in outBuffer is the text up to here. *)
LEMMA LostNothing ==
  ASSUME StreamInv, ~thrown
  PROVE  /\ Reading => (delivered \o outBuffer) \o Ahead = Everything
         /\ ~Reading => delivered \o Ahead = Everything
         /\ Ahead = <<>> /\ Reading => delivered \o outBuffer = Everything
         /\ Ahead = <<>> /\ ~Reading => delivered = Everything
<1>1. delivered \in Seq(Piece) /\ outBuffer \in Seq(Piece) /\ TextOK /\ BufferOK /\ CallOK
  BY DEF StreamInv, StreamOK, UnitsOK
<1>2. Ahead \in Seq(Piece)
  BY <1>1, ComingIs
<1>3. Reading <=> pc \notin {"idle", "line", "emit"}
  BY <1>1 DEF CallOK, Reading
<1>4. Reading => (delivered \o outBuffer) \o Ahead = Everything
  BY <1>3 DEF StreamInv, NothingLost
<1>5. ~Reading => (delivered \o <<>>) \o Ahead = Everything
  BY <1>3 DEF StreamInv, NothingLost
<1>6. delivered \o <<>> = delivered /\ delivered \o outBuffer \in Seq(Piece)
      /\ (delivered \o outBuffer) \o <<>> = delivered \o outBuffer
  BY <1>1
<1>. QED BY <1>4, <1>5, <1>6

(* A line and what is read behind it. *)
LEMMA NewlinesMore ==
  ASSUME NEW txt, NEW l \in Seq(Piece), NEW u \in Seq(Piece), Len(u) <= 1, Newlines(txt, l) = {}
  PROVE  /\ u = <<>> => l \o u = l
         /\ u # <<>> => l \o u # <<>>
         /\ u # <<>> /\ txt[u[1][1]] # "newline" => Newlines(txt, l \o u) = {}
         /\ u # <<>> /\ txt[u[1][1]] = "newline" => Newlines(txt, l \o u) = {Len(l \o u)}
<1>. DEFINE v == l \o u
<1>1. /\ v \in Seq(Piece) /\ Len(v) = Len(l) + Len(u)
      /\ \A i \in 1..Len(v) : v[i] = IF i <= Len(l) THEN l[i] ELSE u[i - Len(l)]
  BY Joined
<1>2. u = <<>> => v = l
  OBVIOUS
<1>3. Len(l) \in Nat /\ (u # <<>> => Len(u) = 1)
  <2>1. Len(l) \in Nat /\ Len(u) \in Nat /\ (u # <<>> => Len(u) # 0)
    OBVIOUS
  <2>2. Len(u) = 0 \/ Len(u) = 1
    <3>. DEFINE k == Len(u)
    <3>1. k \in Nat /\ k <= 1
      BY <2>1
    <3>. HIDE DEF k
    <3>2. k = 0 \/ k = 1
      BY ONLY <3>1
    <3>. QED BY <3>2 DEF k
  <2>. QED BY <2>1, <2>2
<1>4. \A i \in 1..Len(l) : txt[l[i][1]] # "newline"
  BY DEF Newlines
<1>. HIDE DEF v
<1>5. ASSUME u # <<>>
      PROVE  /\ v # <<>> /\ Len(v) = Len(l) + 1 /\ v[Len(l) + 1] = u[1]
             /\ \A i \in 1..Len(l) : v[i] = l[i]
  <2>1. Len(v) = Len(l) + 1 /\ Len(l) + 1 \in 1..Len(v)
    BY <1>1, <1>3, <1>5
  <2>2. v[Len(l) + 1] = u[1]
    BY <1>1, <1>3, <2>1
  <2>. QED BY <1>1, <1>3, <2>1, <2>2
<1>6. ASSUME u # <<>>
      PROVE  \A i \in 1..Len(v) : txt[v[i][1]] = "newline" <=> i = Len(v) /\ txt[u[1][1]] = "newline"
  BY <1>3, <1>4, <1>5, <1>6
<1>7. u # <<>> /\ txt[u[1][1]] # "newline" => Newlines(txt, v) = {}
  BY <1>6 DEF Newlines
<1>8. u # <<>> /\ txt[u[1][1]] = "newline" => Newlines(txt, v) = {Len(v)}
  BY <1>1, <1>3, <1>6 DEF Newlines
<1>. QED BY <1>2, <1>5, <1>7, <1>8 DEF v

-----------------------------------------------------------------------------
(* read() returns what it has: as much as was asked for, or the end, or    *)
(* what a read(2) that fails leaves it with.                               *)
LEMMA ReturnKeeps ==
  ASSUME StreamInv, Reading, Return(outBuffer), UNCHANGED <<text, discards>>,
         \/ failed' = TRUE
         \/ UNCHANGED failed /\ ((n # 0 /\ Len(outBuffer) >= n) \/ Ahead = <<>>)
  PROVE  StreamInv'
<1>. DEFINE got == outBuffer
<1>1. StreamOK /\ TextOK /\ BufferOK /\ CallOK /\ UnitsOK /\ NothingLost /\ LineInv
  BY DEF StreamInv, StreamOK
<1>2. got \in Seq(Piece) /\ Complete(text, "units", got) /\ delivered \in Seq(Piece)
      /\ line \in Seq(Piece) /\ Complete(text, "units", line) /\ Ahead \in Seq(Piece)
  BY <1>1, ComingIs DEF UnitsOK
<1>3. delivered' = delivered \o got /\ thrown' = thrown /\ delivered' \in Seq(Piece)
  <2>1. delivered' = delivered \o got /\ thrown' = thrown
    BY DEF Return
  <2>. QED BY <1>2, <2>1, Joined
<1>4. CASE op = "read"
  <2>1. Leave /\ ended' = [op |-> "read", n |-> n, got |-> got]
    BY <1>4 DEF Return, Ends
  <2>2. StreamOK' /\ LineInv' /\ UNCHANGED <<Source, Ahead, Everything>> /\ op' = "none" /\ pc' = "idle"
    BY <1>1, <1>3, <2>1, LeaveKeeps
  <2>3. NothingLost'
    <3>1. ASSUME ~thrown PROVE (delivered' \o <<>>) \o Ahead = Everything
      <4>1. (delivered \o got) \o Ahead = Everything
        BY <3>1, LostNothing
      <4>2. (delivered \o got) \o <<>> = delivered \o got
        BY <1>2, <1>3
      <4>. QED BY <1>3, <4>1, <4>2
    <3>. QED BY <1>3, <2>2, <3>1 DEF NothingLost
  <2>4. EndMeansEnd'
    <3>1. ended'.op = "read" /\ ended'.n = n /\ ended'.got = got
      BY <2>1
    <3>2. CASE n # 0 /\ Len(got) >= n
      BY <3>1, <3>2 DEF EndMeansEnd
    <3>3. CASE Ahead = <<>>
      <4>1. thrown \/ delivered' = Everything
        BY <1>3, <3>3, LostNothing
      <4>. QED BY <1>3, <2>2, <4>1 DEF EndMeansEnd
    <3>4. CASE failed' = TRUE
      BY <3>4 DEF EndMeansEnd
    <3>. QED BY <3>2, <3>3, <3>4
  <2>. QED BY <2>2, <2>3, <2>4 DEF StreamInv
<1>5. CASE op # "read"
  <2>1. op \notin {"none", "read"} /\ n = 1 /\ size = 1 /\ Len(got) <= 1
    <3>1. op # "none" /\ n = 1
      BY <1>1, <1>5 DEF CallOK, Reading
    <3>. QED BY <1>1, <1>5, <3>1 DEF CallOK
  <2>2. /\ line' = line \o got /\ UNCHANGED <<op, lines, ended>>
        /\ IF GoesOn(got) THEN StartRead(1) ELSE pc' = "line" /\ UNCHANGED readVars
    BY <1>5 DEF Return
  <2>3. UNCHANGED <<inBuffer, fetched>> /\ outBuffer' \in Seq(Piece) /\ Complete(text, "units", outBuffer')
    BY <1>2, <2>2, Empty DEF StartRead, readVars
  <2>4. UNCHANGED <<Source, Ahead, Everything>> /\ TextOK' /\ BufferOK'
    BY <1>1, <2>3, SameAhead, SameBuffer
  <2>5. line' \in Seq(Piece) /\ Complete(text, "units", line')
    BY <1>2, <2>2, Joined, CompleteConcat
  <2>6. UnitsOK'
    BY <1>1, <1>3, <2>1, <2>2, <2>3, <2>5 DEF UnitsOK
  <2>7. CallOK' /\ (GoesOn(got) => pc' = "top" /\ outBuffer' = <<>>) /\ (~GoesOn(got) => pc' = "line")
    <3>1. CASE GoesOn(got)
      <4>1. pc' = "top" /\ n' = 1 /\ lastErrno' = "0" /\ outBuffer' = <<>> /\ size' = 1
        BY <2>2, <3>1 DEF StartRead
      <4>. QED BY <1>1, <2>1, <2>2, <3>1, <4>1, Empty DEF CallOK, Reading
    <3>2. CASE ~GoesOn(got)
      <4>1. pc' = "line" /\ UNCHANGED <<n, size, lastErrno>>
        BY <2>2, <3>2 DEF readVars
      <4>. QED BY <1>1, <2>1, <2>2, <3>2, <4>1 DEF CallOK, Reading
    <3>. QED BY <3>1, <3>2
  <2>8. NothingLost'
    <3>1. ASSUME ~thrown PROVE (delivered' \o <<>>) \o Ahead = Everything
      <4>1. (delivered \o got) \o Ahead = Everything
        BY <3>1, LostNothing
      <4>2. (delivered \o got) \o <<>> = delivered \o got
        BY <1>2, <1>3
      <4>. QED BY <1>3, <4>1, <4>2
    <3>2. (IF pc' \in {"idle", "line", "emit"} THEN <<>> ELSE outBuffer') = <<>>
      BY <2>7
    <3>. QED BY <1>3, <2>4, <3>1, <3>2 DEF NothingLost
  <2>9. EndMeansEnd'
    BY <2>1, <2>2 DEF EndMeansEnd
  <2>10. LineInv'
    <3>. SUFFICES ASSUME op \in {"readLines", "copy"}, ~failed'
                  PROVE  /\ Reading' => Newlines(text, line') = {}
                         /\ pc' \in {"line", "emit"} =>
                              \/ line' # <<>> /\ Newlines(text, line') = {Len(line')}
                              \/ Newlines(text, line') = {} /\ Ahead = <<>>
                         /\ \A i \in 1..Len(lines) :
                              \/ Newlines(text, lines[i]) = {Len(lines[i])}
                              \/ /\ Newlines(text, lines[i]) = {} /\ i = Len(lines) /\ Ahead = <<>>
                                 /\ line' = <<>> /\ (Reading' => outBuffer' = <<>>)
      BY <2>2, <2>4 DEF LineInv
    <3>0. ~failed /\ ((n # 0 /\ Len(got) >= n) \/ Ahead = <<>>)
      OBVIOUS
    <3>1. /\ Newlines(text, line) = {}
          /\ \A i \in 1..Len(lines) :
               \/ Newlines(text, lines[i]) = {Len(lines[i])}
               \/ /\ Newlines(text, lines[i]) = {} /\ i = Len(lines) /\ Ahead = <<>>
                  /\ line = <<>> /\ outBuffer = <<>>
      BY <1>1, <3>0 DEF LineInv
    <3>2. /\ got = <<>> => line' = line
          /\ got # <<>> => line' # <<>>
          /\ got # <<>> /\ text[got[1][1]] # "newline" => Newlines(text, line') = {}
          /\ got # <<>> /\ text[got[1][1]] = "newline" => Newlines(text, line') = {Len(line')}
      <4>. DEFINE u == got
                  l == line
      <4>1. l \in Seq(Piece) /\ u \in Seq(Piece) /\ Len(u) <= 1 /\ Newlines(text, l) = {} /\ line' = l \o u
        BY <1>2, <2>1, <2>2, <3>1
      <4>. HIDE DEF u, l
      <4>2. /\ u = <<>> => l \o u = l
            /\ u # <<>> => l \o u # <<>>
            /\ u # <<>> /\ text[u[1][1]] # "newline" => Newlines(text, l \o u) = {}
            /\ u # <<>> /\ text[u[1][1]] = "newline" => Newlines(text, l \o u) = {Len(l \o u)}
        BY ONLY <4>1, NewlinesMore
      <4>. QED BY <4>1, <4>2 DEF u, l
    <3>3. got = <<>> => Ahead = <<>>
      <4>1. got = <<>> => Len(got) = 0
        OBVIOUS
      <4>. QED BY <2>1, <3>0, <4>1
    <3>4. Reading' => GoesOn(got) /\ outBuffer' = <<>>
      BY <2>7 DEF Reading
    <3>5. pc' \in {"line", "emit"} => ~GoesOn(got)
      BY <2>7
    <3>6. ASSUME NEW i \in 1..Len(lines)
          PROVE  \/ Newlines(text, lines[i]) = {Len(lines[i])}
                 \/ /\ Newlines(text, lines[i]) = {} /\ i = Len(lines) /\ Ahead = <<>>
                    /\ line' = <<>> /\ (Reading' => outBuffer' = <<>>)
      BY <3>1, <3>2, <3>4
    <3>. QED BY <3>1, <3>2, <3>3, <3>4, <3>5, <3>6 DEF GoesOn
  <2>. QED BY <2>4, <2>6, <2>7, <2>8, <2>9, <2>10 DEF StreamInv, StreamOK
<1>. QED BY <1>4, <1>5

(* The top of the loop. *)
LEMMA TopKeeps ==
  ASSUME StreamInv, Top
  PROVE  StreamInv'
<1>1. StreamOK /\ TextOK /\ BufferOK /\ CallOK /\ UnitsOK /\ pc = "top" /\ Reading
      /\ UNCHANGED <<text, discards>>
  BY DEF StreamInv, StreamOK, Top, Reading
<1>2. CASE Satisfied /\ Return(outBuffer) /\ UNCHANGED failed
  <2>1. n # 0 /\ Len(outBuffer) >= n
    BY <1>1, <1>2 DEF Satisfied, Full, CallOK
  <2>. QED BY <1>1, <1>2, <2>1, ReturnKeeps
<1>3. CASE /\ ~Satisfied
           /\ size' = IF Full THEN 2 * size ELSE size
           /\ pc' = IF MustFill THEN "fill" ELSE "convert"
           /\ UNCHANGED <<inBuffer, fetched, n, outBuffer, lastErrno, op, line, lines, ended,
                          delivered, thrown, failed>>
  <2>1. UNCHANGED <<Source, Ahead, Everything>> /\ TextOK' /\ BufferOK'
    BY <1>1, <1>3, SameAhead, SameBuffer
  <2>2. UnitsOK'
    BY <1>1, <1>3 DEF UnitsOK
  <2>3. Reading' /\ pc' \notin {"idle", "line", "emit"} /\ pc' # "top"
    BY <1>3 DEF Reading
  <2>4. CallOK'
    <3>1. size' \in Nat /\ Len(outBuffer) <= size' /\ (n # 0 => size' = n)
      <4>1. size \in Nat /\ Len(outBuffer) <= size /\ (n # 0 => size = n /\ ~Full) /\ Len(outBuffer) \in Nat
        BY <1>1, <1>3 DEF CallOK, Satisfied, UnitsOK
      <4>. QED BY <1>3, <4>1
    <3>2. MustFill' <=> MustFill
      BY <1>3 DEF MustFill
    <3>. QED BY <1>1, <1>3, <2>3, <3>1, <3>2 DEF CallOK
  <2>5. NothingLost'
    BY <1>1, <1>3, <2>1, <2>3 DEF StreamInv, NothingLost
  <2>6. EndMeansEnd'
    BY <1>1, <1>3, <2>1 DEF CallOK, EndMeansEnd
  <2>7. LineInv'
    BY <1>1, <1>3, <2>1, <2>3 DEF StreamInv, LineInv
  <2>. QED BY <2>1, <2>2, <2>4, <2>5, <2>6, <2>7 DEF StreamInv, StreamOK
<1>. QED BY <1>2, <1>3 DEF Top

-----------------------------------------------------------------------------
(* What is to come after a step. *)
LEMMA ComingIsNext ==
  TextOK' /\ BufferOK' =>
    (/\ Coming \in Seq(Piece) /\ Coming = SubSeq(Source, fetched - Len(inBuffer) + 1, Len(Source))
     /\ Ahead = All(text, "bytes", TRUE, Coming).out /\ Ahead \in Seq(Piece))'
<1>1. TextOK /\ BufferOK =>
        /\ Coming \in Seq(Piece) /\ Coming = SubSeq(Source, fetched - Len(inBuffer) + 1, Len(Source))
        /\ Ahead = All(text, "bytes", TRUE, Coming).out /\ Ahead \in Seq(Piece)
  BY ComingIs
<1>. QED BY <1>1, PTL

(* More is read. *)
LEMMA FillKeeps ==
  ASSUME StreamInv, Fill
  PROVE  StreamInv'
<1>1. StreamOK /\ TextOK /\ BufferOK /\ CallOK /\ UnitsOK /\ pc = "fill" /\ Reading
      /\ UNCHANGED <<text, discards>>
  BY DEF StreamInv, StreamOK, Fill, Reading
<1>2. CASE (Room = 0 \/ fetched = Len(Source)) /\ Return(outBuffer) /\ UNCHANGED failed
  <2>1. Ahead = <<>>
    BY <1>1, <1>2, NothingAhead
  <2>. QED BY <1>1, <1>2, <2>1, ReturnKeeps
<1>4. CASE Return(outBuffer) /\ failed' = TRUE
  BY <1>1, <1>4, ReturnKeeps
<1>3. ASSUME NEW k \in 1..Len(Source), k <= Room, fetched + k <= Len(Source),
             inBuffer' = inBuffer \o SubSeq(Source, fetched + 1, fetched + k),
             fetched' = fetched + k, pc' = "convert",
             UNCHANGED <<n, size, outBuffer, lastErrno, op, line, lines, ended, delivered, thrown,
                         failed>>
      PROVE  StreamInv'
  <2>. DEFINE a == fetched - Len(inBuffer)
              s == Source
              more == SubSeq(s, fetched + 1, fetched + k)
  <2>1. s \in Seq(Piece) /\ Len(s) \in Nat /\ Source' = s /\ Everything' = Everything
    BY <1>1, SourceIs DEF Source, Everything
  <2>2. /\ a \in Nat /\ a <= fetched /\ fetched \in Nat /\ k \in Nat /\ fetched + k <= Len(s)
        /\ inBuffer = SubSeq(s, a + 1, fetched) /\ inBuffer \in Seq(Piece) /\ Len(inBuffer) \in Nat
        /\ Len(inBuffer) + k <= InSize /\ InSize \in Nat /\ fetched - a = Len(inBuffer)
    <3>1. fetched \in Nat /\ inBuffer \in Seq(Piece) /\ Len(inBuffer) \in Nat /\ Len(inBuffer) <= fetched
          /\ inBuffer = SubSeq(s, a + 1, fetched) /\ InSize \in Nat /\ k \in Nat
      BY <1>1, TextStreamAssumption DEF BufferOK
    <3>2. Len(inBuffer) + k <= InSize
      BY <1>3, <3>1 DEF Room
    <3>. QED BY <1>3, <3>1, <3>2
  <2>3. more \in Seq(Piece) /\ Len(more) = k
    BY <2>1, <2>2
  <2>. HIDE DEF a, s
  <2>4. inBuffer' = SubSeq(s, a + 1, fetched + k)
    <3>. DEFINE b == fetched
                c == fetched + k
    <3>1. a \in Nat /\ b \in Nat /\ c \in Nat /\ a <= b /\ b <= c /\ c <= Len(s)
      BY <2>2
    <3>. HIDE DEF b, c
    <3>2. SubSeq(s, a + 1, b) \o SubSeq(s, b + 1, c) = SubSeq(s, a + 1, c)
      BY <2>1, <3>1, PartsJoined
    <3>. QED BY <1>3, <2>2, <3>2 DEF b, c, s
  <2>5. inBuffer' \in Seq(Piece) /\ Len(inBuffer') = Len(inBuffer) + k
    <3>. HIDE DEF more
    <3>1. inBuffer' = inBuffer \o more
      BY <1>3 DEF more, s
    <3>. QED BY <2>2, <2>3, <3>1, Joined
  <2>6. fetched' - Len(inBuffer') = a /\ Len(inBuffer') <= fetched' /\ fetched' \in 0..Len(s)
        /\ Len(inBuffer') <= InSize
    BY <1>3, <2>1, <2>2, <2>5
  <2>7. TextOK' /\ BufferOK'
    <3>1. inBuffer' = SubSeq(Source', fetched' - Len(inBuffer') + 1, fetched')
      BY <1>3, <2>1, <2>4, <2>6
    <3>2. TextOK'
      BY <1>1 DEF TextOK
    <3>. QED BY <2>1, <2>5, <2>6, <3>1, <3>2 DEF BufferOK
  <2>8. Coming' = Coming
    <3>1. Coming = SubSeq(s, a + 1, Len(s))
      BY <1>1, ComingIs DEF a, s
    <3>2. Coming' = SubSeq(s, a + 1, Len(s))
      BY <2>1, <2>6, <2>7, ComingIsNext
    <3>. QED BY <3>1, <3>2
  <2>9. Ahead' = Ahead
    <3>1. Ahead = All(text, "bytes", TRUE, Coming).out
      BY <1>1, ComingIs
    <3>2. Ahead' = All(text', "bytes", TRUE, Coming').out
      BY <2>7, ComingIsNext
    <3>. QED BY <1>1, <2>8, <3>1, <3>2
  <2>10. CallOK' /\ UnitsOK' /\ Reading'
    BY <1>1, <1>3 DEF CallOK, UnitsOK, Reading
  <2>11. NothingLost'
    BY <1>1, <1>3, <2>1, <2>9 DEF StreamInv, NothingLost
  <2>12. EndMeansEnd'
    BY <1>1, <1>3 DEF CallOK, EndMeansEnd
  <2>13. LineInv'
    BY <1>1, <1>3, <2>9, <2>10 DEF StreamInv, LineInv
  <2>. QED BY <2>7, <2>10, <2>11, <2>12, <2>13 DEF StreamInv, StreamOK
<1>. QED BY <1>1, <1>2, <1>3, <1>4 DEF Fill

(* What of inBuffer iconv() turns into units comes behind those there are. *)
BufferTurns(done) ==
  /\ done.out \in Seq(Piece) /\ Complete(text, "units", done.out)
  /\ Len(done.out) <= size - Len(outBuffer)
  /\ done.left \in Seq(Piece) /\ Len(done.left) <= Len(inBuffer)
  /\ done.left = SubSeq(inBuffer, Len(inBuffer) - Len(done.left) + 1, Len(inBuffer))
  /\ done.stop \in {"done", "EILSEQ", "EINVAL", "E2BIG"}
  /\ done.stop = "EINVAL" => Front(text, done.left, "bytes") = "EINVAL"
  /\ done.stop # "EILSEQ" =>
       Ahead = done.out \o All(text, "bytes", TRUE, done.left \o SubSeq(Source, fetched + 1, Len(Source))).out

(* What iconv() makes of inBuffer is the beginning of what is ahead. *)
LEMMA BufferConverts ==
  ASSUME StreamOK, Reading
  PROVE  BufferTurns(Convert(text, inBuffer, "bytes", size - Len(outBuffer), discards))
<1>1. TextOK /\ BufferOK /\ CallOK /\ UnitsOK
  BY DEF StreamOK
<1>. DEFINE r == size - Len(outBuffer)
            done == Convert(text, inBuffer, "bytes", r, discards)
            done2 == Convert(text, inBuffer, "bytes", r, TRUE)
            more == SubSeq(Source, fetched + 1, Len(Source))
<1>2. r \in Nat
  <2>1. size \in Nat /\ Len(outBuffer) \in Nat /\ Len(outBuffer) <= size
    BY <1>1 DEF CallOK, UnitsOK
  <2>. QED BY <2>1
<1>3. inBuffer \in Seq(Piece) /\ discards \in BOOLEAN /\ more \in Seq(Piece)
  BY <1>1, ComingIs DEF BufferOK, TextOK
<1>. HIDE DEF r
<1>4. Sound(text, "bytes", inBuffer, r, discards, done)
  BY <1>2, <1>3, ConvertTypes
<1>5. done.stop # "EILSEQ" => done2 = done
  <2>1. CASE discards
    <3>1. discards = TRUE
      BY <1>3, <2>1
    <3>. QED BY <3>1
  <2>2. CASE ~discards
    <3>1. discards = FALSE
      BY <1>3, <2>2
    <3>. QED BY <1>2, <1>3, <3>1, ConvertAgrees
  <2>. QED BY <2>1, <2>2
<1>. HIDE DEF more
<1>6. SplitAt(text, "bytes", TRUE, inBuffer, more, done2)
  BY <1>2, <1>3, ConvertSplit
<1>7. Ahead = All(text, "bytes", TRUE, inBuffer \o more).out
  BY <1>1, ComingIs DEF Coming, more
<1>. HIDE DEF done, done2
<1>8. done.stop # "EILSEQ" => Ahead = done.out \o All(text, "bytes", TRUE, done.left \o more).out
  BY <1>5, <1>6, <1>7 DEF SplitAt
<1>9. BufferTurns(done)
  BY <1>4, <1>8 DEF BufferTurns, Sound, r, more, Other
<1>. QED BY <1>9 DEF done, r

(* iconv() turns what is in inBuffer. *)
LEMMA ConvertKeeps ==
  ASSUME StreamInv, ConvertBuffer
  PROVE  StreamInv'
<1>. DEFINE done == Convert(text, inBuffer, "bytes", size - Len(outBuffer), discards)
<1>1. StreamOK /\ TextOK /\ BufferOK /\ CallOK /\ UnitsOK /\ pc = "convert" /\ Reading
      /\ UNCHANGED <<text, discards>>
  BY DEF StreamInv, StreamOK, ConvertBuffer, Reading
<1>2. BufferTurns(done)
  BY <1>1, BufferConverts
<1>3. IF done.stop = "EILSEQ" THEN Throws
      ELSE /\ inBuffer' = Shifted(done.left)
           /\ outBuffer' = outBuffer \o done.out
           /\ lastErrno' = IF done.stop = "done" THEN "0" ELSE done.stop
           /\ pc' = "top"
           /\ UNCHANGED <<fetched, n, size, op, line, lines, ended, delivered, thrown, failed>>
  BY DEF ConvertBuffer
<1>. HIDE DEF done
<1>4. CASE done.stop = "EILSEQ"
  BY <1>1, <1>3, <1>4, ThrowsKeeps
<1>5. CASE done.stop # "EILSEQ"
  <2>1. /\ inBuffer' = done.left /\ outBuffer' = outBuffer \o done.out
        /\ lastErrno' = (IF done.stop = "done" THEN "0" ELSE done.stop) /\ pc' = "top"
        /\ UNCHANGED <<fetched, n, size, op, line, lines, ended, delivered, thrown, failed>>
    BY <1>3, <1>5 DEF Shifted
  <2>2. Source' = Source /\ Everything' = Everything /\ Source \in Seq(Piece)
    BY <1>1, SourceIs DEF Source, Everything
  <2>3. /\ outBuffer' \in Seq(Piece) /\ Len(outBuffer') = Len(outBuffer) + Len(done.out)
        /\ Complete(text, "units", outBuffer')
    BY <1>1, <1>2, <2>1, Joined, CompleteConcat DEF BufferTurns, UnitsOK
  <2>4. Len(outBuffer') <= size
    <3>1. size \in Nat /\ Len(outBuffer) \in Nat /\ Len(done.out) \in Nat
          /\ Len(done.out) <= size - Len(outBuffer)
      BY <1>1, <1>2 DEF BufferTurns, CallOK, UnitsOK
    <3>. QED BY <2>3, <3>1
  <2>5. TextOK' /\ BufferOK'
    <3>. DEFINE l == Len(inBuffer)
                m == Len(done.left)
                a == fetched - l
    <3>1. /\ l \in Nat /\ m \in Nat /\ m <= l /\ l <= fetched /\ l <= InSize /\ InSize \in Nat
          /\ fetched \in Nat /\ fetched <= Len(Source) /\ inBuffer = SubSeq(Source, a + 1, fetched)
          /\ done.left = SubSeq(inBuffer, l - m + 1, l)
      <4>1. l \in Nat /\ l <= fetched /\ l <= InSize /\ InSize \in Nat
            /\ fetched \in Nat /\ fetched <= Len(Source) /\ inBuffer = SubSeq(Source, a + 1, fetched)
        BY <1>1, TextStreamAssumption, SourceIs DEF BufferOK
      <4>2. m \in Nat /\ m <= l /\ done.left = SubSeq(inBuffer, l - m + 1, l)
        <5>1. done.left \in Seq(Piece) /\ m <= l
          BY <1>2 DEF BufferTurns
        <5>2. done.left = SubSeq(inBuffer, l - m + 1, l)
          BY <1>2, Zenon DEF BufferTurns
        <5>3. m \in Nat
          BY <5>1
        <5>. HIDE DEF l, m
        <5>. QED BY <5>1, <5>2, <5>3
      <4>. QED BY <4>1, <4>2
    <3>. HIDE DEF l, m
    <3>2. a \in Nat /\ a <= fetched /\ l - m \in 0..(fetched - a) /\ fetched - a = l /\ a + (l - m) = fetched - m
      BY <3>1
    <3>. HIDE DEF a
    <3>3. done.left = SubSeq(Source, fetched - m + 1, fetched)
      <4>. DEFINE s == Source
                  b == fetched
                  k == l - m
      <4>1. s \in Seq(Piece) /\ a \in Nat /\ b \in Nat /\ a <= b /\ b <= Len(s) /\ k \in 0..(b - a)
        BY <2>2, <3>1, <3>2
      <4>2. b - a = l /\ a + k + 1 = fetched - m + 1
        BY <3>1, <3>2
      <4>3. inBuffer = SubSeq(s, a + 1, b) /\ done.left = SubSeq(inBuffer, k + 1, b - a)
        BY <3>1, <4>2
      <4>. HIDE DEF s, b, k
      <4>4. SubSeq(SubSeq(s, a + 1, b), k + 1, b - a) = SubSeq(s, a + k + 1, b)
        BY <4>1, PartOfPart
      <4>. QED BY <4>2, <4>3, <4>4 DEF s, b
    <3>4. TextOK'
      BY <1>1 DEF TextOK
    <3>5. inBuffer' = SubSeq(Source', fetched' - Len(inBuffer') + 1, fetched')
      BY <2>1, <2>2, <3>3 DEF m
    <3>6. fetched' \in 0..Len(Source') /\ inBuffer' \in Seq(Piece)
          /\ Len(inBuffer') <= InSize /\ Len(inBuffer') <= fetched'
      <4>1. m <= InSize /\ m <= fetched /\ fetched \in 0..Len(Source)
        BY <1>1, <3>1 DEF BufferOK
      <4>. QED BY <1>2, <2>1, <2>2, <4>1 DEF BufferTurns, m
    <3>. QED BY <3>4, <3>5, <3>6 DEF BufferOK
  <2>6. Ahead = done.out \o Ahead' /\ Ahead' \in Seq(Piece)
    <3>1. Ahead' = All(text', "bytes", TRUE, Coming').out /\ Ahead' \in Seq(Piece)
      BY <2>5, ComingIsNext
    <3>2. Coming' = done.left \o SubSeq(Source, fetched + 1, Len(Source))
      BY <2>1, <2>2 DEF Coming
    <3>. QED BY <1>1, <1>2, <1>5, <3>1, <3>2 DEF BufferTurns
  <2>7. CallOK'
    BY <1>1, <1>2, <1>5, <2>1, <2>4 DEF CallOK, Reading, BufferTurns
  <2>8. UnitsOK'
    BY <1>1, <2>1, <2>3 DEF UnitsOK
  <2>9. NothingLost'
    <3>. SUFFICES ASSUME ~thrown PROVE (delivered \o outBuffer') \o Ahead' = Everything
      BY <2>1, <2>2 DEF NothingLost
    <3>. DEFINE d == delivered
                o == outBuffer
                x == done.out
                y == Ahead'
    <3>1. d \in Seq(Piece) /\ o \in Seq(Piece) /\ x \in Seq(Piece) /\ y \in Seq(Piece)
      BY <1>1, <1>2, <2>6 DEF UnitsOK, BufferTurns
    <3>2. (d \o o) \o (x \o y) = Everything
      BY <1>1, <2>6, LostNothing
    <3>3. outBuffer' = o \o x
      BY <2>1
    <3>. HIDE DEF d, o, x, y
    <3>4. d \o o \in Seq(Piece)
      BY <3>1, Joined
    <3>5. (d \o o) \o (x \o y) = ((d \o o) \o x) \o y
      BY SMTT(40), <3>1, <3>4, JoinedThrice
    <3>6. d \o (o \o x) = (d \o o) \o x
      BY SMTT(40), <3>1, JoinedThrice
    <3>7. (d \o (o \o x)) \o y = Everything
      BY <3>2, <3>5, <3>6
    <3>. QED BY <3>3, <3>7 DEF d, y
  <2>10. EndMeansEnd'
    BY <1>1, <2>1 DEF CallOK, EndMeansEnd
  <2>11. Ahead = <<>> => done.out = <<>> /\ Ahead' = <<>>
    <3>. DEFINE x == done.out
                y == Ahead'
    <3>1. x \in Seq(Piece) /\ y \in Seq(Piece) /\ Ahead = x \o y
      BY <1>2, <2>6 DEF BufferTurns
    <3>. HIDE DEF x, y
    <3>2. Ahead = <<>> => x = <<>> /\ y = <<>>
      <4>1. Len(x \o y) = Len(x) + Len(y) /\ Len(x) \in Nat /\ Len(y) \in Nat
        BY <3>1, Joined
      <4>2. x \o y = <<>> => Len(x) = 0 /\ Len(y) = 0
        BY <4>1
      <4>. QED BY <3>1, <4>2
    <3>. QED BY <3>2 DEF x, y
  <2>12. LineInv'
    <3>1. ASSUME Ahead = <<>>, outBuffer = <<>> PROVE outBuffer' = <<>>
      BY <2>1, <2>11, <3>1
    <3>2. Reading' /\ pc' \notin {"line", "emit"}
      BY <2>1 DEF Reading
    <3>. QED BY <1>1, <2>1, <2>11, <3>1, <3>2 DEF StreamInv, LineInv
  <2>. QED BY <2>5, <2>7, <2>8, <2>9, <2>10, <2>12 DEF StreamInv, StreamOK
<1>. QED BY <1>4, <1>5

-----------------------------------------------------------------------------
(* A line has ended and the next is read. *)
LEMMA NextLineKeeps ==
  ASSUME StreamInv, pc \in {"line", "emit"}, NEW more \in Seq(Piece), NextLine(more),
         UNCHANGED <<text, discards, delivered, thrown, failed>>,
         op \in {"readLines", "copy"} => more = line /\ line # <<>>
  PROVE  StreamInv'
<1>1. StreamOK /\ TextOK /\ BufferOK /\ CallOK /\ UnitsOK /\ LineInv
  BY DEF StreamInv, StreamOK
<1>2. /\ line' = <<>> /\ lines' = Append(lines, more) /\ pc' = "top" /\ n' = 1 /\ lastErrno' = "0"
      /\ outBuffer' = <<>> /\ size' = 1 /\ UNCHANGED <<inBuffer, fetched, op, ended>>
  BY DEF NextLine, StartRead
<1>3. op \notin {"none", "read"} /\ ~Reading
  BY <1>1 DEF CallOK, Reading
<1>4. TextOK' /\ BufferOK' /\ UNCHANGED <<Source, Ahead, Everything>>
  BY <1>1, <1>2, SameBuffer, SameAhead
<1>5. CallOK'
  BY <1>1, <1>2, <1>3, Empty DEF CallOK, Reading
<1>6. lines \in Seq(Seq(Piece)) /\ lines' \in Seq(Seq(Piece)) /\ Len(lines) \in Nat
      /\ Len(lines') = Len(lines) + 1 /\ lines'[Len(lines) + 1] = more
      /\ \A i \in 1..Len(lines) : lines'[i] = lines[i]
  <2>1. lines \in Seq(Seq(Piece))
    BY <1>1 DEF UnitsOK
  <2>. QED BY <1>2, <2>1, AppendProperties
<1>7. UnitsOK'
  BY <1>1, <1>2, <1>3, <1>6, Empty DEF UnitsOK
<1>8. NothingLost'
  <2>1. pc \in {"idle", "line", "emit"} /\ pc' \notin {"idle", "line", "emit"}
    BY <1>2
  <2>. QED BY <1>2, <1>4, <2>1 DEF StreamInv, NothingLost
<1>9. EndMeansEnd'
  BY <1>2, <1>3 DEF EndMeansEnd
<1>10. LineInv'
  <2>. SUFFICES ASSUME op \in {"readLines", "copy"}, ~failed
                PROVE  /\ Newlines(text, <<>>) = {}
                       /\ \A i \in 1..Len(lines') :
                            \/ Newlines(text, lines'[i]) = {Len(lines'[i])}
                            \/ Newlines(text, lines'[i]) = {} /\ i = Len(lines') /\ Ahead = <<>>
    BY <1>2, <1>4 DEF LineInv
  <2>1. line # <<>> /\ more = line
    OBVIOUS
  <2>2. /\ Newlines(text, line) = {Len(line)} \/ (Newlines(text, line) = {} /\ Ahead = <<>>)
        /\ \A i \in 1..Len(lines) : Newlines(text, lines[i]) = {Len(lines[i])}
    BY <1>1, <2>1 DEF LineInv
  <2>3. ASSUME NEW i \in 1..Len(lines')
        PROVE  \/ Newlines(text, lines'[i]) = {Len(lines'[i])}
               \/ Newlines(text, lines'[i]) = {} /\ i = Len(lines') /\ Ahead = <<>>
    <3>1. CASE i \in 1..Len(lines)
      BY <1>6, <2>2, <3>1
    <3>2. CASE i = Len(lines')
      <4>1. lines'[i] = line
        BY <1>6, <2>1, <3>2
      <4>. QED BY <2>2, <3>2, <4>1
    <3>. QED BY <1>6, <3>1, <3>2
  <2>. QED BY <2>3, Empty
<1>. QED BY <1>4, <1>5, <1>7, <1>8, <1>9, <1>10 DEF StreamInv, StreamOK

(* The call that reads lines ends. *)
LEMMA LinesEnd ==
  ASSUME StreamInv, pc \in {"line", "emit"}, NEW got, Ends(got),
         UNCHANGED <<text, discards, delivered, thrown, failed>>,
         op \in {"readLines", "copy"} => line = <<>>
  PROVE  StreamInv'
<1>1. StreamOK /\ TextOK /\ BufferOK /\ CallOK /\ UnitsOK /\ LineInv /\ Leave
      /\ ended' = [op |-> op, n |-> n, got |-> got]
  BY DEF StreamInv, StreamOK, Ends
<1>2. op \notin {"none", "read"} /\ ~Reading
  BY <1>1 DEF CallOK, Reading
<1>3. delivered' \in Seq(Piece)
  BY <1>1 DEF UnitsOK
<1>4. StreamOK' /\ LineInv' /\ UNCHANGED <<Source, Ahead, Everything>> /\ op' = "none" /\ pc' = "idle"
  BY <1>1, <1>3, LeaveKeeps
<1>5. NothingLost'
  <2>1. pc \in {"idle", "line", "emit"} /\ pc' \in {"idle", "line", "emit"}
    BY <1>4
  <2>. QED BY <1>4, <2>1 DEF StreamInv, NothingLost
<1>6. EndMeansEnd'
  <2>1. ended'.op = op
    BY <1>1
  <2>2. CASE op \in {"readLine", "forEach"}
    BY <2>1, <2>2 DEF EndMeansEnd
  <2>3. CASE op \in {"readLines", "copy"}
    <3>1. failed \/ Ahead = <<>>
      BY <1>1, <2>3 DEF LineInv
    <3>2. failed \/ thrown \/ delivered = Everything
      BY <1>2, <3>1, LostNothing
    <3>. QED BY <1>4, <3>2 DEF EndMeansEnd
  <2>. QED BY <1>1, <1>2, <2>2, <2>3 DEF CallOK
<1>. QED BY <1>4, <1>5, <1>6 DEF StreamInv

(* A line has ended, or goes on. *)
LEMMA LineEndsKeeps ==
  ASSUME StreamInv, LineEnds
  PROVE  StreamInv'
<1>1. StreamOK /\ TextOK /\ BufferOK /\ CallOK /\ UnitsOK /\ LineInv /\ pc = "line"
      /\ UNCHANGED <<text, discards, delivered, thrown, failed>>
  BY DEF StreamInv, StreamOK, LineEnds
<1>2. line \in Seq(Piece)
  BY <1>1 DEF UnitsOK
<1>3. CASE \/ op = "readLine" /\ Ends(line)
           \/ op = "readLines" /\ line = <<>> /\ Ends(line)
           \/ op = "forEach" /\ Len(line) <= 1 /\ Ends(line)
  BY <1>1, <1>3, LinesEnd
<1>4. CASE op = "readLines" /\ line # <<>> /\ NextLine(line)
  BY <1>1, <1>2, <1>4, NextLineKeeps
<1>5. CASE op = "forEach" /\ Len(line) > 1 /\ NextLine(SubSeq(line, 1, Len(line) - 1))
  <2>. DEFINE more == SubSeq(line, 1, Len(line) - 1)
  <2>1. more \in Seq(Piece)
    BY <1>2, <1>5
  <2>. HIDE DEF more
  <2>2. NextLine(more) /\ op \notin {"readLines", "copy"}
    BY <1>5 DEF more
  <2>. QED BY <1>1, <2>1, <2>2, NextLineKeeps
<1>6. CASE op = "copy" /\ pc' = "emit" /\ UNCHANGED <<op, ended, line, lines, readVars>>
  <2>1. UNCHANGED <<inBuffer, fetched, n, size, outBuffer, lastErrno, op, ended, line, lines>> /\ pc' = "emit"
    BY <1>6 DEF readVars
  <2>2. TextOK' /\ BufferOK' /\ UNCHANGED <<Source, Ahead, Everything>>
    BY <1>1, <2>1, SameBuffer, SameAhead
  <2>3. CallOK' /\ UnitsOK'
    BY <1>1, <1>6, <2>1 DEF CallOK, UnitsOK, Reading
  <2>4. NothingLost' /\ EndMeansEnd'
    BY <1>1, <1>6, <2>1, <2>2 DEF StreamInv, NothingLost, EndMeansEnd
  <2>5. LineInv'
    BY <1>1, <2>1, <2>2 DEF LineInv, Reading
  <2>. QED BY <2>2, <2>3, <2>4, <2>5 DEF StreamInv, StreamOK
<1>. QED BY <1>3, <1>4, <1>5, <1>6 DEF LineEnds

(* copy() has written its line. *)
LEMMA EmittedKeeps ==
  ASSUME StreamInv, Emitted
  PROVE  StreamInv'
<1>1. StreamOK /\ UnitsOK /\ op = "copy" /\ pc = "emit" /\ UNCHANGED <<text, discards, delivered, thrown, failed>>
      /\ IF line = <<>> THEN Ends(line) ELSE NextLine(line)
  BY DEF StreamInv, StreamOK, Emitted
<1>2. line \in Seq(Piece)
  BY <1>1 DEF UnitsOK
<1>3. CASE line = <<>>
  BY <1>1, <1>3, LinesEnd
<1>4. CASE line # <<>>
  BY <1>1, <1>2, <1>4, NextLineKeeps
<1>. QED BY <1>3, <1>4

(* Every step of a call, *)
LEMMA StepKeeps ==
  ASSUME StreamInv, StreamStep
  PROVE  StreamInv'
BY TopKeeps, FillKeeps, ConvertKeeps, LineEndsKeeps DEF StreamStep

(* every call, *)
LEMMA StreamCallKeeps ==
  ASSUME StreamInv, StreamCall
  PROVE  StreamInv'
<1>1. ASSUME NEW m \in Asks, Call("read", m) PROVE StreamInv'
  <2>1. m \in Nat
    BY TextStreamAssumption
  <2>. QED BY <1>1, <2>1, CallKeeps
<1>2. ASSUME NEW name \in {"readLine", "readLines", "forEach", "copy"}, Call(name, 1) PROVE StreamInv'
  BY <1>2, CallKeeps
<1>. QED BY <1>1, <1>2 DEF StreamCall

(* and every step that leaves the stream alone. *)
LEMMA SameStream ==
  ASSUME StreamInv, UNCHANGED streamVars
  PROVE  StreamInv'
<1>1. /\ UNCHANGED <<text, discards, op, pc, line, lines, ended, delivered, thrown, failed>>
      /\ UNCHANGED <<inBuffer, fetched, n, size, outBuffer, lastErrno>>
  BY DEF streamVars, readVars
<1>2. UNCHANGED <<Source, Ahead, Everything>>
  BY <1>1, SameAhead
<1>3. StreamOK'
  BY <1>1, SameBuffer DEF StreamInv, StreamOK, CallOK, UnitsOK, Reading, MustFill
<1>4. NothingLost' /\ EndMeansEnd' /\ LineInv'
  BY <1>1, <1>2 DEF StreamInv, NothingLost, EndMeansEnd, LineInv, Reading
<1>. QED BY <1>3, <1>4 DEF StreamInv

-----------------------------------------------------------------------------
(* The script: who may be doing what. *)
Ways ==
  /\ writer \in Writers /\ turn \in {"script", "write", "collect", "decode"}
  /\ op # "none" => writer = "copy" /\ reading = "no" /\ turn \in {"script", "write"}
  /\ turn = "script" => from = "no"
  /\ turn = "write" =>
       /\ from = "units" /\ reading = "no"
       /\ (op = "copy" /\ pc = "emit") \/ (op = "none" /\ writer = "string")
  /\ turn = "collect" => from = "no" /\ reading = "keep"
  /\ turn = "decode" => from = "bytes" /\ reading = "no"
  /\ writer # "copy" => ended.op # "copy"
  /\ writer # "binary" => reading # "read"

PiecesOK ==
  /\ srcBuf \in Seq(Piece) /\ dstBuf \in Seq(Piece) /\ room \in Nat
  /\ encoded \in Seq(Piece) /\ copied \in Seq(Piece) /\ Len(encoded) = written

(* What was encoded can be decoded to what was written. *)
Kept == writer # "binary" => taken = 0 /\ Faithful(text, discards, encoded, copied)

Sending == IF op = "copy" THEN line ELSE String

(* So it is with what is encoded just now. *)
SendInv ==
  turn = "write" =>
    /\ Complete(text, "units", srcBuf)
    /\ \E sent \in Seq(Piece) : Sending = sent \o srcBuf /\ Faithful(text, discards, dstBuf, sent)

There == SubSeq(encoded, taken + 1, written)
AllThere == All(text, "bytes", discards, There)

(* What is decoded, and what is left of it, make what is there. *)
DecodeInv ==
  turn = "decode" =>
    /\ AllThere.out = dstBuf \o All(text, "bytes", discards, srcBuf).out
    /\ AllThere.stop = All(text, "bytes", discards, srcBuf).stop

ReadBack ==
  decoded # NotYet =>
    /\ reading = "no"
    /\ IF writer # "binary" THEN decoded = copied ELSE AllThere.stop = "done" /\ decoded = AllThere.out

Ended(end, begin) == \E pre \in Seq(Piece) : end = pre \o begin

(* copy() has written what was delivered to it, but for its line. *)
CopyInv ==
  /\ writer = "copy" /\ buffer = <<>> /\ reading = "no" => copied = <<>>
  /\ op = "copy" => Ended(delivered, copied \o line)
  /\ op = "none" /\ ended.op = "copy" /\ ~thrown => Ended(delivered, copied)

DecodingInv ==
  /\ StreamInv /\ ByteInv
  /\ Ways /\ PiecesOK /\ Kept /\ SendInv /\ DecodeInv /\ ReadBack /\ CopyInv

-----------------------------------------------------------------------------
(* A step that leaves the ByteIO alone. *)
LEMMA ByteSame ==
  ASSUME ByteInv, UNCHANGED byteVars
  PROVE  ByteInv'
BY NextByteInv

(* The script begins. *)
LEMMA InitDecodingInv ==
  ASSUME DecodingInit
  PROVE  DecodingInv
<1>1. /\ writer \in Writers /\ StreamInit(TextsOf[writer]) /\ TranscodeInit /\ ByteInit
      /\ turn = "script" /\ encoded = <<>> /\ copied = <<>> /\ decoded = NotYet
  BY DEF DecodingInit
<1>2. StreamInv
  BY <1>1, InitStreamInv, DecodingAssumption
<1>3. ByteInv
  BY <1>1, InitByteInv
<1>4. op = "none" /\ from = "no" /\ ended.op = "none" /\ reading = "no" /\ taken = 0 /\ written = 0
      /\ srcBuf = <<>> /\ dstBuf = <<>> /\ room = 0 /\ discards \in BOOLEAN
  BY <1>1 DEF StreamInit, TranscodeInit, ByteInit
<1>5. Ways
  BY <1>1, <1>4 DEF Ways
<1>6. PiecesOK
  BY <1>1, <1>4, Empty DEF PiecesOK
<1>7. Kept
  BY <1>1, <1>4, FaithfulNothing DEF Kept
<1>8. SendInv /\ DecodeInv /\ ReadBack
  BY <1>1 DEF SendInv, DecodeInv, ReadBack
<1>9. CopyInv
  BY <1>1, <1>4 DEF CopyInv
<1>. QED BY <1>2, <1>3, <1>5, <1>6, <1>7, <1>8, <1>9 DEF DecodingInv

(* What is there changes with the ByteIO. *)
LEMMA SameThere ==
  ASSUME UNCHANGED <<text, discards, encoded, taken, written>>
  PROVE  AllThere' = AllThere /\ There' = There
BY DEF AllThere, There

(* The stream at work while copy() or a call of the script runs. *)
LEMMA StepCopies ==
  ASSUME StreamInv, StreamStep
  PROVE  /\ UNCHANGED <<text, discards>> /\ op # "none" /\ pc # "emit"
         /\ \/ op' = op
            \/ op' = "none" /\ (thrown' \/ (op # "copy" /\ ended'.op = op))
         /\ op' = "copy" =>
              \E got \in Seq(Piece) : delivered' = delivered \o got /\ line' = line \o got
<1>1. CallOK /\ UnitsOK
  BY DEF StreamInv, StreamOK
<1>2. delivered \in Seq(Piece) /\ line \in Seq(Piece) /\ outBuffer \in Seq(Piece)
      /\ delivered = delivered \o <<>> /\ line = line \o <<>> /\ <<>> \in Seq(Piece)
  BY <1>1 DEF UnitsOK
<1>3. UNCHANGED <<text, discards>> /\ op # "none" /\ pc # "emit"
  BY <1>1 DEF StreamStep, Top, Fill, ConvertBuffer, LineEnds, CallOK
<1>. DEFINE Goal == /\ \/ op' = op
                       \/ op' = "none" /\ (thrown' \/ (op # "copy" /\ ended'.op = op))
                    /\ op' = "copy" =>
                         \E got \in Seq(Piece) : delivered' = delivered \o got /\ line' = line \o got
<1>4. ASSUME UNCHANGED <<op, delivered, line>> PROVE Goal
  BY <1>2, <1>4
<1>5. ASSUME Return(outBuffer) PROVE Goal
  <2>1. CASE op = "read"
    <3>1. op' = "none" /\ ended'.op = op
      BY <1>5, <2>1 DEF Return, Ends, Leave
    <3>. QED BY <2>1, <3>1
  <2>2. CASE op # "read"
    <3>1. delivered' = delivered \o outBuffer /\ line' = line \o outBuffer /\ op' = op
      BY <1>5, <2>2 DEF Return
    <3>. QED BY <1>2, <3>1
  <2>. QED BY <2>1, <2>2
<1>6. ASSUME Throws PROVE Goal
  <2>1. op' = "none" /\ thrown'
    BY <1>6 DEF Throws, Leave, Ends
  <2>. QED BY <2>1
<1>7. ASSUME NEW got, Ends(got), op # "copy" PROVE Goal
  <2>1. op' = "none" /\ ended'.op = op
    BY <1>7 DEF Ends, Leave
  <2>. QED BY <1>7, <2>1
<1>8. ASSUME NEW more, NextLine(more), op # "copy" PROVE Goal
  <2>1. op' = op
    BY <1>8 DEF NextLine
  <2>. QED BY <1>8, <2>1
<1>. HIDE DEF Goal
<1>9. ASSUME Top PROVE Goal
  BY <1>4, <1>5, <1>9 DEF Top
<1>10. ASSUME Fill PROVE Goal
  BY <1>4, <1>5, <1>10 DEF Fill
<1>11. ASSUME ConvertBuffer PROVE Goal
  <2>1. Throws \/ UNCHANGED <<op, delivered, line>>
    BY <1>11, Zenon DEF ConvertBuffer
  <2>. QED BY <1>4, <1>6, <2>1
<1>12. ASSUME LineEnds PROVE Goal
  <2>1. \/ Ends(line) /\ op # "copy"
        \/ \E more : NextLine(more) /\ op # "copy"
        \/ UNCHANGED <<op, delivered, line>>
    BY <1>12 DEF LineEnds
  <2>. QED BY <1>4, <1>7, <1>8, <2>1
<1>13. Goal
  BY <1>9, <1>10, <1>11, <1>12 DEF StreamStep
<1>. QED BY <1>3, <1>13 DEF Goal

-----------------------------------------------------------------------------
(* A call on the stream begins or goes on. *)
LEMMA CallStreamInv ==
  ASSUME DecodingInv, CallStream
  PROVE  DecodingInv'
<1>1. /\ StreamInv /\ ByteInv /\ Ways /\ PiecesOK /\ Kept /\ ReadBack /\ CopyInv /\ UnitsOK
      /\ turn = "script" /\ op = "none" /\ reading = "no" /\ writer = "copy" /\ StreamCall
      /\ (op' = "copy" => buffer = <<>>)
      /\ UNCHANGED <<transcodeVars, byteVars, writer, turn, encoded, copied, decoded>>
  BY DEF DecodingInv, CallStream, Idle, StreamInv, StreamOK
<1>2. /\ UNCHANGED <<text, discards, line, delivered, ended, thrown>> /\ op' # "none"
  BY <1>1 DEF StreamCall, Call
<1>3. StreamInv' /\ ByteInv'
  BY <1>1, StreamCallKeeps, ByteSame
<1>4. UNCHANGED <<from, srcBuf, dstBuf, room, buffer, reading, taken, written>>
  BY <1>1 DEF transcodeVars, byteVars
<1>5. Ways' /\ PiecesOK' /\ Kept'
  BY <1>1, <1>2, <1>4 DEF Ways, PiecesOK, Kept
<1>6. AllThere' = AllThere
  BY <1>1, <1>2, <1>4, SameThere
<1>7. SendInv' /\ DecodeInv' /\ ReadBack'
  BY <1>1, <1>4, <1>6 DEF SendInv, DecodeInv, ReadBack
<1>8. CopyInv'
  <2>1. op' = "copy" => copied = <<>> /\ line = <<>>
    BY <1>1 DEF CopyInv, UnitsOK
  <2>2. op' = "copy" => Ended(delivered, copied \o line)
    <3>1. delivered \in Seq(Piece) /\ <<>> \o <<>> = <<>> /\ delivered = delivered \o <<>>
      BY <1>1 DEF UnitsOK
    <3>. QED BY <2>1, <3>1 DEF Ended
  <2>. QED BY <1>1, <1>2, <1>4, <2>2 DEF CopyInv
<1>. QED BY <1>3, <1>5, <1>7, <1>8 DEF DecodingInv

(* A call on the stream goes on. *)
LEMMA StepStreamInv ==
  ASSUME DecodingInv, StepStream
  PROVE  DecodingInv'
<1>1. /\ StreamInv /\ ByteInv /\ Ways /\ PiecesOK /\ Kept /\ ReadBack /\ CopyInv /\ UnitsOK
      /\ StreamStep
      /\ UNCHANGED <<transcodeVars, byteVars, writer, turn, encoded, copied, decoded>>
  BY DEF DecodingInv, StepStream, StreamInv, StreamOK
<1>2. /\ UNCHANGED <<text, discards>> /\ op # "none" /\ pc # "emit"
      /\ \/ op' = op
         \/ op' = "none" /\ (thrown' \/ (op # "copy" /\ ended'.op = op))
      /\ op' = "copy" =>
           \E got \in Seq(Piece) : delivered' = delivered \o got /\ line' = line \o got
  BY <1>1, StepCopies
<1>3. StreamInv' /\ ByteInv'
  BY <1>1, StepKeeps, ByteSame
<1>4. UNCHANGED <<from, srcBuf, dstBuf, room, buffer, reading, taken, written>>
  BY <1>1 DEF transcodeVars, byteVars
<1>5. turn = "script" /\ writer = "copy"
  BY <1>1, <1>2 DEF Ways
<1>6. Ways' /\ PiecesOK' /\ Kept'
  BY <1>1, <1>2, <1>4, <1>5 DEF Ways, PiecesOK, Kept
<1>7. AllThere' = AllThere
  BY <1>1, <1>2, <1>4, SameThere
<1>8. SendInv' /\ DecodeInv' /\ ReadBack'
  BY <1>1, <1>4, <1>5, <1>7 DEF SendInv, DecodeInv, ReadBack
<1>9. CopyInv'
  <2>1. ASSUME op' = "copy" PROVE Ended(delivered', copied \o line')
    <3>1. PICK got \in Seq(Piece) : delivered' = delivered \o got /\ line' = line \o got
      BY <1>2, <2>1
    <3>2. Ended(delivered, copied \o line)
      BY <1>1, <1>2, <2>1 DEF CopyInv
    <3>3. PICK pre \in Seq(Piece) : delivered = pre \o (copied \o line)
      BY <3>2 DEF Ended
    <3>4. copied \in Seq(Piece) /\ line \in Seq(Piece) /\ copied \o line \in Seq(Piece)
      <4>1. copied \in Seq(Piece) /\ line \in Seq(Piece)
        BY <1>1 DEF PiecesOK, UnitsOK
      <4>. QED BY <4>1, Joined
    <3>5. (pre \o (copied \o line)) \o got = pre \o ((copied \o line) \o got)
      BY SMTT(40), <3>4, JoinedThrice
    <3>6. (copied \o line) \o got = copied \o (line \o got)
      BY <3>4, JoinedThrice
    <3>. QED BY <3>1, <3>3, <3>5, <3>6 DEF Ended
  <2>2. ~(op' = "none" /\ ended'.op = "copy" /\ ~thrown')
    BY <1>2
  <2>. QED BY <1>1, <1>4, <2>1, <2>2 DEF CopyInv
<1>. QED BY <1>3, <1>6, <1>8, <1>9 DEF DecodingInv

-----------------------------------------------------------------------------
(* TextOutputStream.write(). *)
LEMMA WriteStringInv ==
  ASSUME DecodingInv, turn = "script", reading = "no",
         (op = "copy" /\ pc = "emit") \/ (op = "none" /\ writer = "string"),
         NEW str \in Seq(Piece), str = Sending, Complete(text, "units", str), WriteString(str)
  PROVE  DecodingInv'
<1>1. /\ StreamInv /\ ByteInv /\ Ways /\ PiecesOK /\ Kept /\ ReadBack /\ CopyInv /\ TextOK
      /\ turn' = "write" /\ from' = "units" /\ srcBuf' = str /\ dstBuf' = <<>> /\ room' = 20 * Len(str)
      /\ UNCHANGED <<streamVars, byteVars, writer, encoded, copied, decoded>>
  BY DEF DecodingInv, StreamInv, StreamOK, WriteString, BeginTranscode
<1>2. StreamInv' /\ ByteInv'
  BY <1>1, SameStream, ByteSame
<1>3. /\ UNCHANGED <<buffer, reading, taken, written>>
      /\ UNCHANGED <<text, discards, op, pc, line, ended, delivered, thrown>>
  BY <1>1 DEF streamVars, byteVars
<1>4. Ways' /\ Kept'
  BY <1>1, <1>3 DEF Ways, Kept
<1>5. PiecesOK'
  <2>1. 20 * Len(str) \in Nat
    OBVIOUS
  <2>. QED BY <1>1, <1>3, <2>1, Empty DEF PiecesOK
<1>6. AllThere' = AllThere
  BY <1>1, <1>3, SameThere
<1>7. DecodeInv' /\ ReadBack' /\ CopyInv'
  BY <1>1, <1>3, <1>6 DEF DecodeInv, ReadBack, CopyInv
<1>8. SendInv'
  <2>1. Sending' = str
    BY <1>3 DEF Sending, String
  <2>2. discards \in BOOLEAN /\ str = <<>> \o str /\ <<>> \in Seq(Piece)
    BY <1>1 DEF TextOK
  <2>3. Faithful(text, discards, <<>>, <<>>)
    BY <2>2, FaithfulNothing
  <2>. QED BY <1>1, <1>3, <2>1, <2>2, <2>3 DEF SendInv
<1>. QED BY <1>2, <1>4, <1>5, <1>7, <1>8 DEF DecodingInv

(* copy() writes a line. *)
LEMMA EmitInv ==
  ASSUME DecodingInv, Emit
  PROVE  DecodingInv'
<1>1. StreamInv /\ Ways /\ CallOK /\ UnitsOK /\ turn = "script" /\ pc = "emit" /\ WriteString(line)
  BY DEF DecodingInv, StreamInv, StreamOK, Emit
<1>2. op = "copy" /\ reading = "no"
  BY <1>1 DEF CallOK, Ways
<1>3. line \in Seq(Piece) /\ line = Sending /\ Complete(text, "units", line)
  BY <1>1, <1>2 DEF UnitsOK, Sending
<1>. QED BY <1>1, <1>2, <1>3, WriteStringInv

(* The script writes a string. *)
LEMMA ScriptWritesInv ==
  ASSUME DecodingInv, ScriptWrites
  PROVE  DecodingInv'
<1>1. StreamInv /\ TextOK /\ turn = "script" /\ op = "none" /\ reading = "no" /\ writer = "string"
      /\ WriteString(String)
  BY DEF DecodingInv, StreamInv, StreamOK, ScriptWrites, Idle
<1>2. Len(text) \in Nat
  BY <1>1 DEF TextOK
<1>3. Whole(text, "units", Len(text), String)
  BY <1>2, PiecesAre DEF String
<1>4. String \in Seq(Piece) /\ String = Sending /\ Complete(text, "units", String)
  BY <1>1, <1>3 DEF Whole, Sending
<1>. QED BY <1>1, <1>4, WriteStringInv

(* An encoding that fails writes nothing. *)
LEMMA WriteThrowsInv ==
  ASSUME DecodingInv, turn = "write", WriteThrows, turn' = "script", UNCHANGED writer,
         from' = "no", srcBuf' = <<>>, dstBuf' = <<>>, room' = 0
  PROVE  DecodingInv'
<1>1. /\ StreamInv /\ ByteInv /\ Ways /\ PiecesOK /\ Kept /\ ReadBack /\ CopyInv
      /\ UNCHANGED <<byteVars, encoded, copied, decoded>>
      /\ (op = "copy" /\ Throws /\ UNCHANGED <<text, discards>>) \/ (op # "copy" /\ UNCHANGED streamVars)
  BY DEF DecodingInv, WriteThrows
<1>2. StreamInv' /\ ByteInv'
  BY <1>1, ThrowsKeeps, SameStream, ByteSame
<1>3. UNCHANGED <<buffer, reading, taken, written>> /\ reading = "no"
  BY <1>1 DEF byteVars, Ways
<1>4. /\ UNCHANGED <<text, discards, ended>>
      /\ \/ op' = "none" /\ thrown'
         \/ op # "copy" /\ UNCHANGED <<op, pc, line, delivered, thrown>>
  BY <1>1 DEF streamVars, Throws, Leave
<1>5. Ways' /\ Kept'
  BY <1>1, <1>3, <1>4 DEF Ways, Kept
<1>6. PiecesOK'
  BY <1>1, <1>3, Empty DEF PiecesOK
<1>7. AllThere' = AllThere
  BY <1>1, <1>3, <1>4, SameThere
<1>8. SendInv' /\ DecodeInv' /\ ReadBack'
  BY <1>1, <1>3, <1>7 DEF SendInv, DecodeInv, ReadBack
<1>9. CopyInv'
  BY <1>1, <1>3, <1>4 DEF CopyInv
<1>. QED BY <1>2, <1>5, <1>6, <1>8, <1>9 DEF DecodingInv

(* What was encoded comes into the ByteIO. *)
LEMMA WrittenInv ==
  ASSUME DecodingInv, turn = "write", srcBuf = <<>>, Written, turn' = "script", UNCHANGED writer,
         from' = "no", srcBuf' = <<>>, dstBuf' = <<>>, room' = 0
  PROVE  DecodingInv'
<1>1. /\ StreamInv /\ ByteInv /\ Ways /\ PiecesOK /\ Kept /\ SendInv /\ CopyInv /\ TextOK /\ UnitsOK
      /\ ByteWrite(Len(dstBuf), 0, 0) /\ encoded' = encoded \o dstBuf
      /\ copied' = copied \o Sending /\ decoded' = NotYet
      /\ (op = "copy" /\ Emitted) \/ (op # "copy" /\ UNCHANGED streamVars)
  BY DEF DecodingInv, Written, StreamInv, StreamOK, Sending
<1>2. StreamInv'
  BY <1>1, EmittedKeeps, SameStream
<1>3. dstBuf \in Seq(Piece) /\ encoded \in Seq(Piece) /\ copied \in Seq(Piece) /\ Len(dstBuf) \in Nat
      /\ Len(encoded) = written /\ reading = "no"
  BY <1>1 DEF PiecesOK, Ways
<1>4. ByteInv'
  BY <1>1, <1>3, WriteByteInv
<1>5. /\ written' = written + Len(dstBuf) /\ UNCHANGED <<reading, taken>>
      /\ buffer' = Append(buffer, ByteString(Len(dstBuf), 0, 0))
  BY <1>1 DEF ByteWrite
<1>6. buffer' # <<>>
  <2>1. buffer \in Seq([bytes : Seq(Int), offset : Nat, length : Nat])
    BY <1>1 DEF ByteInv, ByteTypeOK
  <2>. QED BY <1>5, <2>1
<1>7. /\ UNCHANGED <<text, discards, delivered, thrown, failed>>
      /\ \/ op = "copy" /\ op' = "copy" /\ line' = <<>> /\ ended' = ended
         \/ op = "copy" /\ op' = "none" /\ line = <<>>
         \/ op # "copy" /\ UNCHANGED <<op, pc, line, ended>>
  BY <1>1 DEF Emitted, Ends, NextLine, Leave, streamVars
<1>8. Ways'
  BY <1>1, <1>3, <1>5, <1>7 DEF Ways
<1>9. PICK sent \in Seq(Piece) : Sending = sent \o srcBuf /\ Faithful(text, discards, dstBuf, sent)
  BY <1>1 DEF SendInv
<1>10. Sending = sent
  BY <1>9
<1>11. PiecesOK'
  <2>1. encoded' \in Seq(Piece) /\ Len(encoded') = written'
    BY <1>1, <1>3, <1>5, Joined
  <2>2. copied' \in Seq(Piece)
    BY <1>1, <1>3, <1>10, Joined
  <2>. QED BY <2>1, <2>2, Empty DEF PiecesOK
<1>12. Kept'
  <2>1. writer # "binary" /\ taken = 0 /\ Faithful(text, discards, encoded, copied)
    BY <1>1 DEF Kept, Ways
  <2>2. discards \in BOOLEAN
    BY <1>1 DEF TextOK
  <2>3. Faithful(text, discards, encoded \o dstBuf, copied \o sent)
    BY <1>9, <2>1, <2>2, FaithfulConcat
  <2>. QED BY <1>1, <1>5, <1>7, <1>10, <2>1, <2>3 DEF Kept
<1>13. SendInv' /\ DecodeInv' /\ ReadBack'
  BY <1>1 DEF SendInv, DecodeInv, ReadBack
<1>14. CopyInv'
  <2>1. ASSUME op = "copy" PROVE Ended(delivered, copied')
    <3>1. Ended(delivered, copied \o line)
      BY <1>1, <2>1 DEF CopyInv
    <3>. QED BY <1>1, <2>1, <3>1 DEF Sending
  <2>2. op' = "copy" => op = "copy" /\ copied' \o line' = copied'
    <3>1. copied' \in Seq(Piece)
      BY <1>11 DEF PiecesOK
    <3>. QED BY <1>7, <3>1
  <2>3. op # "copy" => ended'.op # "copy"
    BY <1>1, <1>7 DEF Ways
  <2>. QED BY <1>6, <1>7, <2>1, <2>2, <2>3 DEF CopyInv
<1>. QED BY <1>2, <1>4, <1>8, <1>11, <1>12, <1>13, <1>14 DEF DecodingInv

(* An encoding ends. *)
LEMMA EncodeEndsInv ==
  ASSUME DecodingInv, EncodeEnds
  PROVE  DecodingInv'
<1>1. /\ turn = "write" /\ turn' = "script" /\ UNCHANGED writer
      /\ from' = "no" /\ srcBuf' = <<>> /\ dstBuf' = <<>> /\ room' = 0
      /\ WriteThrows \/ (srcBuf = <<>> /\ Written)
  BY DEF EncodeEnds, TurnFails, TranscodeEnds
<1>. QED BY <1>1, WriteThrowsInv, WrittenInv

-----------------------------------------------------------------------------
(* The ByteIO is written to, read or copied from while no text is under    *)
(* way; what is no binary writer's takes nothing from it.                  *)
LEMMA ByteMoves ==
  ASSUME DecodingInv, turn \in {"script", "collect"}, op = "none", ByteInv',
         UNCHANGED <<streamVars, transcodeVars, writer, copied>>,
         encoded' \in Seq(Piece), Len(encoded') = written',
         writer # "binary" => UNCHANGED <<encoded, taken>> /\ reading' # "read",
         turn' \in {"script", "collect"}, turn' = "collect" => reading' = "keep",
         decoded' = NotYet,
         writer = "copy" /\ buffer' = <<>> /\ reading' = "no" => buffer = <<>> /\ reading = "no"
  PROVE  DecodingInv'
<1>1. /\ StreamInv /\ Ways /\ PiecesOK /\ Kept /\ CopyInv
  BY DEF DecodingInv
<1>2. UNCHANGED <<text, discards, op, pc, ended, delivered, line, thrown, from, srcBuf, dstBuf, room>>
  BY DEF streamVars, transcodeVars
<1>3. StreamInv'
  BY <1>1, SameStream
<1>4. from = "no"
  BY <1>1 DEF Ways
<1>5. Ways'
  BY <1>1, <1>2, <1>4 DEF Ways
<1>6. PiecesOK'
  BY <1>1, <1>2 DEF PiecesOK
<1>7. Kept'
  BY <1>1, <1>2 DEF Kept
<1>8. SendInv' /\ DecodeInv' /\ ReadBack'
  BY DEF SendInv, DecodeInv, ReadBack
<1>9. CopyInv'
  BY <1>1, <1>2 DEF CopyInv
<1>. QED BY <1>3, <1>5, <1>6, <1>7, <1>8, <1>9 DEF DecodingInv

(* A list of one ByteString is not empty. *)
LEMMA OneByteString == \A s : <<s>> # <<>>
OBVIOUS

(* What a read() that begins leaves alone. *)
LEMMA BeginLeaves ==
  ASSUME ByteInv, NEW w, NEW for \in {"read", "keep"}, BeginByteRead(w, for),
         w \in Wants \/ w = length
  PROVE  /\ ByteInv' /\ UNCHANGED <<written, taken>>
         /\ reading' \in {"no", for}
         /\ buffer' = <<>> => buffer = <<>>
         /\ reading = "no"
<1>1. w \in Int
  <2>1. length \in Int
    BY DEF ByteInv, ByteTypeOK
  <2>2. Wants \subseteq Int
    BY ByteIOAssumption
  <2>. QED BY <2>1, <2>2
<1>2. ByteInv'
  BY <1>1, BeginByteInv
<1>3. UNCHANGED <<written, taken>> /\ reading' \in {"no", for} /\ reading = "no"
  BY DEF BeginByteRead
<1>4. buffer' = <<>> => buffer = <<>>
  BY OneByteString DEF BeginByteRead
<1>. QED BY <1>2, <1>3, <1>4

(* A binary writer writes the next bytes of its text, or reads. *)
LEMMA BinaryCallInv ==
  ASSUME DecodingInv, BinaryCall
  PROVE  DecodingInv'
<1>1. /\ StreamInv /\ ByteInv /\ PiecesOK /\ TextOK
      /\ turn = "script" /\ op = "none" /\ reading = "no" /\ writer = "binary"
      /\ decoded' = NotYet /\ UNCHANGED <<streamVars, transcodeVars, writer, turn, copied>>
  BY DEF DecodingInv, BinaryCall, Idle, StreamInv, StreamOK
<1>2. written \in Nat /\ encoded \in Seq(Piece) /\ Len(encoded) = written
  BY <1>1 DEF ByteInv, ByteTypeOK, PiecesOK
<1>3. ASSUME NEW k \in 0..Len(Source), NEW a \in 0..MaxAround, NEW b \in 0..MaxAround,
             written + k <= Len(Source), ByteWrite(k, a, b),
             encoded' = encoded \o SubSeq(Source, written + 1, written + k)
      PROVE  DecodingInv'
  <2>1. Source \in Seq(Piece) /\ Len(Source) \in Nat
    BY <1>1, SourceIs
  <2>2. k \in Nat /\ a \in Nat /\ b \in Nat
    BY <2>1, ByteIOAssumption
  <2>3. ByteInv' /\ written' = written + k
    BY <1>1, <1>3, <2>2, WriteByteInv DEF ByteWrite
  <2>. DEFINE next == SubSeq(Source, written + 1, written + k)
  <2>4. next \in Seq(Piece) /\ Len(next) = k
    BY <1>2, <1>3, <2>1, <2>2
  <2>. HIDE DEF next
  <2>5. encoded' \in Seq(Piece) /\ Len(encoded') = written'
    <3>1. encoded' = encoded \o next
      BY <1>3 DEF next
    <3>. QED BY <1>2, <2>3, <2>4, <3>1, Joined
  <2>. QED BY <1>1, <2>3, <2>5, ByteMoves
<1>4. ASSUME NEW w, NEW for \in {"read", "keep"}, BeginByteRead(w, for), (w \in Wants \/ w = length),
             UNCHANGED encoded
      PROVE  DecodingInv'
  <2>1. ByteInv' /\ UNCHANGED <<written, taken>>
    BY <1>1, <1>4, BeginLeaves
  <2>. QED BY <1>1, <1>2, <1>4, <2>1, ByteMoves
<1>. QED BY <1>3, <1>4 DEF BinaryCall

(* A read() of the ByteIO goes on. *)
LEMMA BinaryStepInv ==
  ASSUME DecodingInv, BinaryStep
  PROVE  DecodingInv'
<1>1. /\ ByteInv /\ Ways /\ PiecesOK /\ ReadBack
      /\ CopySegment \/ (turn = "script" /\ EndByteRead)
      /\ UNCHANGED <<streamVars, transcodeVars, writer, turn, encoded, copied, decoded>>
  BY DEF DecodingInv, BinaryStep
<1>2. reading \in {"read", "keep"}
  BY <1>1 DEF CopySegment, EndByteRead, ByteInv, ByteTypeOK
<1>3. /\ turn \in {"script", "collect"} /\ op = "none" /\ decoded' = NotYet
      /\ encoded \in Seq(Piece) /\ Len(encoded) = written
      /\ (reading = "read" => writer = "binary") /\ (turn = "collect" => reading = "keep")
  BY <1>1, <1>2 DEF Ways, ReadBack, PiecesOK
<1>4. CASE CopySegment
  <2>1. ByteInv' /\ UNCHANGED <<written, taken>>
    BY <1>1, <1>4, CopyByteInv DEF CopySegment
  <2>2. reading' = reading
    <3>1. reading # "no" /\ position < want /\ length > 0
      BY <1>4 DEF CopySegment
    <3>2. InBounds(Head(buffer).bytes, Head(buffer).offset, position,
                   Smaller(Head(buffer).length, want - position))
      BY <1>1, <3>1, CopyGood
    <3>. QED BY <1>4, <3>2 DEF CopySegment
  <2>. QED BY <1>1, <1>2, <1>3, <2>1, <2>2, ByteMoves
<1>5. CASE turn = "script" /\ EndByteRead
  <2>1. ByteInv' /\ written' = written /\ reading' = "no"
    BY <1>1, <1>5, EndByteInv DEF EndByteRead
  <2>2. reading = "keep" => taken' = taken /\ buffer' # <<>>
    BY <1>5, OneByteString DEF EndByteRead
  <2>. QED BY <1>1, <1>2, <1>3, <1>5, <2>1, <2>2, ByteMoves
<1>. QED BY <1>1, <1>4, <1>5

-----------------------------------------------------------------------------
(* decodeToString(): the bytes are collected, *)
LEMMA BeginDecodeInv ==
  ASSUME DecodingInv, BeginDecode
  PROVE  DecodingInv'
<1>1. /\ ByteInv /\ PiecesOK /\ turn = "script" /\ op = "none" /\ reading = "no"
      /\ BeginByteRead(length, "keep") /\ decoded' = NotYet
      /\ turn' = IF reading' = "keep" THEN "collect" ELSE "script"
      /\ UNCHANGED <<streamVars, transcodeVars, writer, encoded, copied>>
  BY DEF DecodingInv, BeginDecode, Idle
<1>2. /\ ByteInv' /\ UNCHANGED <<written, taken>> /\ reading' \in {"no", "keep"}
      /\ buffer' = <<>> => buffer = <<>>
  BY <1>1, BeginLeaves
<1>3. encoded \in Seq(Piece) /\ Len(encoded) = written
  BY <1>1 DEF PiecesOK
<1>. QED BY <1>1, <1>2, <1>3, ByteMoves

(* and they are those that are there, *)
LEMMA CollectedIsThere ==
  ASSUME ByteInv, PiecesOK, reading = "keep", EndByteRead
  PROVE  [i \in 1..position |-> encoded[dst[i]]] = There /\ There \in Seq(Piece)
<1>1. /\ encoded \in Seq(Piece) /\ Len(encoded) = written /\ written \in Nat /\ taken \in Nat
      /\ want = written - taken /\ want \in Nat /\ position \in Nat
      /\ \A i \in 1..position : dst[i] = taken + i
  BY DEF PiecesOK, ByteInv, ByteTypeOK, ReadInv
<1>2. position = want /\ taken + position = written
  <2>1. LET m == IF want < written - taken THEN want ELSE written - taken IN m = position
    BY EndGood
  <2>. QED BY <1>1, <2>1
<1>. DEFINE pieces == [i \in 1..position |-> encoded[dst[i]]]
<1>3. There \in Seq(Piece) /\ Len(There) = position
      /\ \A i \in 1..position : There[i] = encoded[taken + i]
  BY <1>1, <1>2 DEF There
<1>4. There = [i \in 1..position |-> There[i]]
  BY <1>3
<1>5. pieces = [i \in 1..position |-> encoded[taken + i]]
  BY <1>1
<1>6. pieces = There
  BY <1>3, <1>4, <1>5
<1>. QED BY <1>3, <1>6

(* with which decoding begins, *)
LEMMA CollectedInv ==
  ASSUME DecodingInv, Collected
  PROVE  DecodingInv'
<1>1. /\ StreamInv /\ ByteInv /\ Ways /\ PiecesOK /\ Kept /\ ReadBack /\ CopyInv
      /\ turn = "collect" /\ reading = "keep" /\ EndByteRead
      /\ BeginTranscode([i \in 1..position |-> encoded[dst[i]]], "bytes")
      /\ turn' = "decode" /\ UNCHANGED <<streamVars, writer, encoded, copied, decoded>>
  BY DEF DecodingInv, Collected, Ways
<1>2. UNCHANGED <<text, discards, op, pc, ended, delivered, line, thrown>>
  BY <1>1 DEF streamVars
<1>3. There \in Seq(Piece) /\ BeginTranscode(There, "bytes")
  BY <1>1, CollectedIsThere
<1>4. from' = "bytes" /\ srcBuf' = There /\ dstBuf' = <<>> /\ room' = 5 * Len(There)
  BY <1>3 DEF BeginTranscode
<1>5. StreamInv' /\ ByteInv'
  BY <1>1, SameStream, EndByteInv
<1>6. UNCHANGED <<written, taken>> /\ reading' = "no" /\ buffer' # <<>>
  BY <1>1, OneByteString DEF EndByteRead
<1>7. op = "none" /\ decoded = NotYet
  BY <1>1 DEF Ways, ReadBack
<1>8. Ways'
  BY <1>1, <1>2, <1>4, <1>6, <1>7 DEF Ways
<1>9. PiecesOK'
  <2>1. 5 * Len(There) \in Nat
    BY <1>3
  <2>. QED BY <1>1, <1>3, <1>4, <1>6, <2>1, Empty DEF PiecesOK
<1>10. Kept' /\ SendInv' /\ ReadBack' /\ CopyInv'
  BY <1>1, <1>2, <1>6, <1>7 DEF Kept, SendInv, ReadBack, CopyInv
<1>11. DecodeInv'
  <2>1. AllThere' = AllThere /\ There' = There
    BY <1>1, <1>2, <1>6, SameThere
  <2>2. AllThere.out \in Seq(Piece)
    <3>1. 2 * Len(There) \in Nat /\ discards \in BOOLEAN
      BY <1>1, <1>3 DEF StreamInv, StreamOK, TextOK
    <3>2. Sound(text, "bytes", There, 2 * Len(There), discards, AllThere)
      BY <1>3, <3>1, ConvertTypes DEF AllThere, All
    <3>. QED BY <3>2 DEF Sound
  <2>3. AllThere.out = <<>> \o AllThere.out
    BY <2>2
  <2>4. AllThere = All(text, "bytes", discards, There)
    BY DEF AllThere
  <2>. HIDE DEF AllThere
  <2>. QED BY <1>2, <1>4, <2>1, <2>3, <2>4 DEF DecodeInv
<1>. QED BY <1>5, <1>8, <1>9, <1>10, <1>11 DEF DecodingInv

-----------------------------------------------------------------------------
(* and decoded; *)
LEMMA DecodeEndsInv ==
  ASSUME DecodingInv, DecodeEnds
  PROVE  DecodingInv'
<1>1. /\ StreamInv /\ ByteInv /\ Ways /\ PiecesOK /\ Kept /\ DecodeInv /\ ReadBack /\ CopyInv
      /\ turn = "decode" /\ op = "none" /\ reading = "no" /\ discards \in BOOLEAN
      /\ turn' = "script" /\ UNCHANGED <<streamVars, byteVars, writer, encoded, copied>>
      /\ from' = "no" /\ srcBuf' = <<>> /\ dstBuf' = <<>> /\ room' = 0
      /\ decoded' = decoded \/ (srcBuf = <<>> /\ decoded' = dstBuf)
  BY DEF DecodingInv, DecodeEnds, TurnFails, TranscodeEnds, Ways, StreamInv, StreamOK, TextOK
<1>2. UNCHANGED <<text, discards, op, pc, ended, delivered, line, thrown, buffer, reading, taken, written>>
  BY <1>1 DEF streamVars, byteVars
<1>3. StreamInv' /\ ByteInv'
  BY <1>1, SameStream, ByteSame
<1>4. Ways' /\ Kept' /\ SendInv' /\ DecodeInv' /\ CopyInv'
  BY <1>1, <1>2 DEF Ways, Kept, SendInv, DecodeInv, CopyInv
<1>5. PiecesOK'
  BY <1>1, <1>2, Empty DEF PiecesOK
<1>6. AllThere' = AllThere
  BY <1>1, <1>2, SameThere
<1>7. ReadBack'
  <2>1. CASE decoded' = decoded
    BY <1>1, <1>2, <1>6, <2>1 DEF ReadBack
  <2>2. CASE srcBuf = <<>> /\ decoded' = dstBuf
    <3>1. /\ dstBuf \in Seq(Piece) /\ AllThere.out = dstBuf \o All(text, "bytes", discards, <<>>).out
          /\ AllThere.stop = All(text, "bytes", discards, <<>>).stop
      BY <1>1, <2>2 DEF DecodeInv, PiecesOK
    <3>2. Faithful(text, discards, <<>>, <<>>)
      BY <1>1, FaithfulNothing
    <3>3. AllThere.out = dstBuf /\ AllThere.stop = "done"
      BY <3>1, <3>2 DEF Faithful
    <3>4. ASSUME writer # "binary" PROVE dstBuf = copied
      <4>1. taken = 0 /\ Faithful(text, discards, encoded, copied)
        BY <1>1, <3>4 DEF Kept
      <4>2. There = encoded
        BY <1>1, <4>1 DEF There, PiecesOK
      <4>. QED BY <3>3, <4>1, <4>2 DEF AllThere, Faithful
    <3>. QED BY <1>1, <1>2, <1>6, <2>2, <3>3, <3>4 DEF ReadBack
  <2>. QED BY <1>1, <2>1, <2>2
<1>. QED BY <1>3, <1>4, <1>5, <1>7 DEF DecodingInv

-----------------------------------------------------------------------------
(* A turn of transcode()'s loop. *)
LEMMA TurnTranscodeInv ==
  ASSUME DecodingInv, TurnTranscode
  PROVE  DecodingInv'
<1>1. /\ StreamInv /\ ByteInv /\ Ways /\ PiecesOK /\ Kept /\ SendInv /\ DecodeInv /\ ReadBack /\ CopyInv
      /\ discards \in BOOLEAN
      /\ TurnWorks(text, turn = "decode" /\ discards)
      /\ UNCHANGED <<streamVars, byteVars, writer, turn, encoded, copied, decoded>>
  BY DEF DecodingInv, TurnTranscode, StreamInv, StreamOK, TextOK
<1>2. UNCHANGED <<text, discards, op, pc, ended, delivered, line, thrown, buffer, reading, taken, written>>
  BY <1>1 DEF streamVars, byteVars
<1>3. PICK d \in BOOLEAN : d = (turn = "decode" /\ discards)
  BY <1>1
<1>4. TurnWorks(text, d)
  BY <1>1, <1>3
<1>5. PICK done : /\ done = Convert(text, srcBuf, from, room, d)
                  /\ from # "no" /\ from' = from /\ done.stop \in {"done", "EINVAL"}
                  /\ srcBuf' = done.left /\ dstBuf' = dstBuf \o done.out
                  /\ room' = room - Len(done.out)
  BY <1>4 DEF TurnWorks, TranscodeTurns, SrcLeft
<1>6. srcBuf \in Seq(Piece) /\ dstBuf \in Seq(Piece) /\ room \in Nat
  BY <1>1 DEF PiecesOK
<1>7. Sound(text, from, srcBuf, room, d, done)
  BY <1>5, <1>6, ConvertTypes
<1>8. /\ done.out \in Seq(Piece) /\ done.left \in Seq(Piece) /\ Len(done.out) <= room
      /\ Len(done.left) <= Len(srcBuf)
      /\ done.left = SubSeq(srcBuf, Len(srcBuf) - Len(done.left) + 1, Len(srcBuf))
  BY <1>7 DEF Sound
<1>9. StreamInv' /\ ByteInv'
  BY <1>1, SameStream, ByteSame
<1>10. PiecesOK'
  <2>1. room' \in Nat
    BY <1>5, <1>6, <1>8
  <2>2. dstBuf' \in Seq(Piece)
    BY <1>5, <1>6, <1>8, Joined
  <2>. QED BY <1>1, <1>2, <1>5, <1>8, <2>1, <2>2 DEF PiecesOK
<1>11. Ways' /\ Kept' /\ CopyInv'
  BY <1>1, <1>2, <1>5 DEF Ways, Kept, CopyInv
<1>12. AllThere' = AllThere
  BY <1>1, <1>2, SameThere
<1>13. ReadBack'
  BY <1>1, <1>2, <1>12 DEF ReadBack
<1>14. SendInv'
  <2>. SUFFICES ASSUME turn = "write" PROVE SendInv'
    BY <1>1 DEF SendInv
  <2>1. from = "units" /\ ~d /\ Complete(text, "units", srcBuf)
    BY <1>1, <1>3 DEF Ways, SendInv
  <2>2. Complete(text, "units", srcBuf')
    <3>. DEFINE m == Len(srcBuf) - Len(done.left)
    <3>1. m \in 0..Len(srcBuf)
      BY <1>6, <1>8
    <3>. HIDE DEF m
    <3>2. Complete(text, "units", SubSeq(srcBuf, m + 1, Len(srcBuf)))
      BY <1>6, <2>1, <3>1, CompleteEnd
    <3>. QED BY <1>5, <1>8, <3>2 DEF m
  <2>3. Sent(text, discards, srcBuf, done)
    BY <1>1, <1>5, <1>6, <2>1, FaithfulTurn
  <2>4. PICK more \in Seq(Piece) : srcBuf = more \o srcBuf' /\ Faithful(text, discards, done.out, more)
    BY <1>5, <2>3 DEF Sent
  <2>5. PICK sent \in Seq(Piece) : Sending = sent \o srcBuf /\ Faithful(text, discards, dstBuf, sent)
    BY <1>1 DEF SendInv
  <2>6. Faithful(text, discards, dstBuf', sent \o more)
    <3>1. Faithful(text, discards, dstBuf \o done.out, sent \o more)
      BY <1>1, <2>4, <2>5, FaithfulConcat
    <3>. QED BY <1>5, <3>1
  <2>7. Sending = (sent \o more) \o srcBuf' /\ sent \o more \in Seq(Piece)
    <3>1. srcBuf' \in Seq(Piece)
      BY <1>5, <1>8
    <3>2. sent \o (more \o srcBuf') = (sent \o more) \o srcBuf'
      BY <3>1, JoinedThrice
    <3>3. sent \o more \in Seq(Piece)
      BY Joined
    <3>. QED BY <2>4, <2>5, <3>2, <3>3
  <2>8. Sending' = Sending
    BY <1>2 DEF Sending, String
  <2>. QED BY <1>2, <2>2, <2>6, <2>7, <2>8 DEF SendInv
<1>15. DecodeInv'
  <2>. SUFFICES ASSUME turn = "decode" PROVE DecodeInv'
    BY <1>1 DEF DecodeInv
  <2>1. from = "bytes" /\ d = discards
    BY <1>1, <1>3 DEF Ways
  <2>2. SplitAt(text, "bytes", discards, srcBuf, <<>>, done)
    <3>1. <<>> \in Seq(Piece)
      OBVIOUS
    <3>. QED BY <1>1, <1>5, <1>6, <2>1, <3>1, ConvertSplit
  <2>3. srcBuf \o <<>> = srcBuf /\ done.left \o <<>> = done.left
    BY <1>6, <1>8
  <2>4. /\ All(text, "bytes", discards, srcBuf).out
             = done.out \o All(text, "bytes", discards, srcBuf').out
        /\ All(text, "bytes", discards, srcBuf).stop = All(text, "bytes", discards, srcBuf').stop
    BY <1>5, <2>2, <2>3 DEF SplitAt
  <2>5. All(text, "bytes", discards, srcBuf').out \in Seq(Piece)
    <3>1. srcBuf' \in Seq(Piece) /\ 2 * Len(srcBuf') \in Nat
      BY <1>5, <1>8
    <3>2. Sound(text, "bytes", srcBuf', 2 * Len(srcBuf'), discards, All(text, "bytes", discards, srcBuf'))
      BY <1>1, <3>1, ConvertTypes DEF All
    <3>. QED BY <3>2 DEF Sound
  <2>6. AllThere.out = dstBuf \o (done.out \o All(text, "bytes", discards, srcBuf').out)
        /\ AllThere.stop = All(text, "bytes", discards, srcBuf').stop
    BY <1>1, <2>4 DEF DecodeInv
  <2>7. AllThere.out = dstBuf' \o All(text, "bytes", discards, srcBuf').out
    <3>1. PICK begun, made, rest : begun = dstBuf /\ made = done.out /\ rest = All(text, "bytes", discards, srcBuf').out
      OBVIOUS
    <3>2. begun \in Seq(Piece) /\ made \in Seq(Piece) /\ rest \in Seq(Piece)
      BY <1>6, <1>8, <2>5, <3>1
    <3>3. begun \o (made \o rest) = (begun \o made) \o rest
      BY ONLY <3>2, JoinedThrice
    <3>. QED BY <1>5, <2>6, <3>1, <3>3
  <2>. QED BY <1>2, <1>12, <2>6, <2>7 DEF DecodeInv
<1>. QED BY <1>9, <1>10, <1>11, <1>13, <1>14, <1>15 DEF DecodingInv

-----------------------------------------------------------------------------
(* Every step. *)
LEMMA NextDecodingInv ==
  ASSUME DecodingInv, [DecodingNext]_decodingVars
  PROVE  DecodingInv'
<1>1. CASE CallStream
  BY <1>1, CallStreamInv
<1>2. CASE ScriptWrites
  BY <1>2, ScriptWritesInv
<1>3. CASE BinaryCall
  BY <1>3, BinaryCallInv
<1>4. CASE BeginDecode
  BY <1>4, BeginDecodeInv
<1>5. CASE StepStream
  BY <1>5, StepStreamInv
<1>6. CASE Emit
  BY <1>6, EmitInv
<1>7. CASE EncodeEnds
  BY <1>7, EncodeEndsInv
<1>8. CASE BinaryStep
  BY <1>8, BinaryStepInv
<1>9. CASE Collected
  BY <1>9, CollectedInv
<1>10. CASE DecodeEnds
  BY <1>10, DecodeEndsInv
<1>11. CASE TurnTranscode
  BY <1>11, TurnTranscodeInv
<1>12. CASE UNCHANGED decodingVars
  <2>1. /\ StreamInv /\ ByteInv /\ Ways /\ PiecesOK /\ Kept /\ SendInv /\ DecodeInv /\ ReadBack /\ CopyInv
        /\ UNCHANGED <<streamVars, transcodeVars, byteVars, writer, turn, encoded, copied, decoded>>
    BY <1>12 DEF DecodingInv, decodingVars
  <2>2. /\ UNCHANGED <<text, discards, op, pc, ended, delivered, line, thrown, buffer, reading, taken, written>>
        /\ UNCHANGED <<from, srcBuf, dstBuf, room>>
    BY <2>1 DEF streamVars, byteVars, transcodeVars
  <2>3. StreamInv' /\ ByteInv'
    BY <2>1, SameStream, ByteSame
  <2>4. Ways' /\ PiecesOK' /\ Kept' /\ CopyInv'
    BY <2>1, <2>2 DEF Ways, PiecesOK, Kept, CopyInv
  <2>5. AllThere' = AllThere /\ Sending' = Sending
    BY <2>1, <2>2, SameThere DEF Sending, String
  <2>6. SendInv' /\ DecodeInv' /\ ReadBack'
    BY <2>1, <2>2, <2>5 DEF SendInv, DecodeInv, ReadBack
  <2>. QED BY <2>3, <2>4, <2>6 DEF DecodingInv
<1>. QED
  BY <1>1, <1>2, <1>3, <1>4, <1>5, <1>6, <1>7, <1>8, <1>9, <1>10, <1>11, <1>12
  DEF DecodingNext, Running

-----------------------------------------------------------------------------
(* The invariant of the script, its stream and its ByteIO: the stream has  *)
(* what is ahead of it, every call is where its writer's can be, and what  *)
(* was encoded can be decoded to what was written.                         *)
THEOREM DecodingConsistent == DecodingSpec => []DecodingInv
<1>1. DecodingInit => DecodingInv
  BY InitDecodingInv
<1>2. DecodingInv /\ [DecodingNext]_decodingVars => DecodingInv'
  BY NextDecodingInv
<1>. QED BY <1>1, <1>2, PTL DEF DecodingSpec

(* The streams' and the ByteIO's state is of its type. *)
THEOREM DecodingTypesCorrect == DecodingSpec => []DecodingTypeOK
<1>1. DecodingInv => DecodingTypeOK
  <2>. SUFFICES ASSUME DecodingInv PROVE DecodingTypeOK
    OBVIOUS
  <2>1. ByteTypeOK /\ Ways /\ PiecesOK /\ BufferOK /\ CallOK
    BY DEF DecodingInv, ByteInv, StreamInv, StreamOK
  <2>2. from \in {"no", "bytes", "units"}
    BY <2>1 DEF Ways
  <2>. QED BY <2>1, <2>2 DEF DecodingTypeOK, Ways, PiecesOK, BufferOK, CallOK
<1>. QED BY <1>1, DecodingConsistent, PTL

(* A TextInputStream's text: however the descriptor and the calls cut it,  *)
(* what was returned and what is ahead are all of it.                      *)
THEOREM NothingIsLost == DecodingSpec => []NothingLost
<1>1. DecodingInv => NothingLost
  BY DEF DecodingInv, StreamInv
<1>. QED BY <1>1, DecodingConsistent, PTL

(* A call that says the text has ended is right, unless read(2) failed in  *)
(* it.                                                                     *)
THEOREM EndsMeanEnd == DecodingSpec => []EndMeansEnd
<1>1. DecodingInv => EndMeansEnd
  BY DEF DecodingInv, StreamInv
<1>. QED BY <1>1, DecodingConsistent, PTL

(* A line of readLines() or copy() has a newline last, but for the text's  *)
(* last line and the one that a read(2) that failed cut.                   *)
THEOREM LinesAreWhole == DecodingSpec => []LinesWhole
<1>1. DecodingInv => LinesWhole
  BY DEF DecodingInv, StreamInv, LineInv, LinesWhole, Newlines
<1>. QED BY <1>1, DecodingConsistent, PTL

(* A text comes through: a copy() in which read(2) does not fail writes    *)
(* every line that was ahead of it, and decodeToString() returns what was  *)
(* written to the TextOutputStream.                                        *)
THEOREM TextComesThrough == DecodingSpec => []RoundTrip
<1>1. DecodingInv => RoundTrip
  <2>. SUFFICES ASSUME DecodingInv PROVE RoundTrip
    OBVIOUS
  <2>1. EndMeansEnd /\ PiecesOK /\ ReadBack /\ CopyInv
    BY DEF DecodingInv, StreamInv
  <2>2. ASSUME ended.op = "copy", ~thrown, ~failed, Idle
        PROVE  \E k \in 0..Len(Everything) : copied = SubSeq(Everything, k + 1, Len(Everything))
    <3>1. delivered = Everything /\ Ended(delivered, copied)
      BY <2>1, <2>2 DEF Idle, EndMeansEnd, CopyInv
    <3>2. PICK pre \in Seq(Piece) : Everything = pre \o copied
      BY <3>1 DEF Ended
    <3>3. copied \in Seq(Piece)
      BY <2>1 DEF PiecesOK
    <3>. DEFINE all == pre \o copied
    <3>4. Len(pre) \in 0..Len(all) /\ copied = SubSeq(all, Len(pre) + 1, Len(all))
      BY <3>3
    <3>. QED BY <3>2, <3>4
  <2>3. decoded # NotYet =>
          IF writer # "binary" THEN decoded = copied
          ELSE AllThere.stop = "done" /\ decoded = AllThere.out
    BY <2>1 DEF ReadBack
  <2>. QED BY <2>2, <2>3 DEF RoundTrip, AllThere, All, There
<1>. QED BY <1>1, DecodingConsistent, PTL
=============================================================================
