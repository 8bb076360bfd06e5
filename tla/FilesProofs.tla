---------------------------- MODULE FilesProofs ----------------------------
(***************************************************************************)
(* Proofs about the file engine: for any number of calls on any paths, the *)
(* last to make something does not fail, what was made is there, what was  *)
(* appended stays, and what is read is a beginning of the file.            *)
(***************************************************************************)
EXTENDS Files, TLAPS, SequenceTheorems

Steps == {"called", "make", "create", "stamp", "write", "read", "measure", "load", "returned", "thrown"}

Byte == (Procs \cup {NoProc}) \X Nat

(* The types, whatever the files there are. *)
Typed ==
  /\ tree \in [Places -> {Nothing, Dir} \cup Nat]
  /\ data \in Seq(Seq((Procs \cup {NoProc}) \X Nat))
  /\ call \in [Procs -> Calls] /\ at \in [Procs -> Steps]
  /\ n \in [Procs -> Nat] /\ fd \in [Procs -> Nat] /\ size \in [Procs -> Nat]
  /\ got \in [Procs -> Seq((Procs \cup {NoProc}) \X Nat)]
  /\ last \in Procs \cup {NoProc}
  /\ removed \subseteq Paths /\ known \in [Procs -> Nat]
  /\ anew \subseteq Nat /\ emptied \subseteq Procs \X Nat

(* Where a call has a file open. *)
Holding == {"write", "measure"}

(* Files and descriptors have the number of a file that was made. *)
Numbered ==
  /\ \A q \in Places : tree[q] \in {Nothing, Dir} \/ tree[q] \in 1..Len(data)
  /\ \A p \in Procs : fd[p] \in 0..Len(data) /\ (at[p] \in Holding => fd[p] # 0)

Shape == Typed /\ Numbered

(* Which steps belong to which call. *)
ControlOf(p) ==
  /\ at[p] = "make" => Op(p) = "mkdirs" /\ n[p] < Len(Path(p))
  /\ at[p] \in {"create", "stamp"} => Op(p) = "touch"
  /\ at[p] \in {"write", "read"} => Op(p) = "open"
  /\ at[p] \in {"measure", "load"} => Op(p) = "load"
  /\ Op(p) = "mkdirs" => n[p] <= Len(Path(p)) /\ (at[p] = "returned" => n[p] = Len(Path(p)))

(* What a mkdirs() has passed are directories; a touch() that is through   *)
(* with writing has a file or directory to stamp.                          *)
PassedOf(p) ==
  /\ Op(p) = "mkdirs" =>
       \A k \in 1..n[p] : isDirectory(Upto(Path(p), k)) \/ Upto(Path(p), k) \in removed
  /\ Op(p) = "touch" /\ at[p] \in {"stamp", "returned"} => exists(Path(p)) \/ Path(p) \in removed

(* The last to make something has nothing in its way. *)
LeadOf(p) ==
  \/ at[p] \in {"stamp", "write", "returned"}
  \/ /\ Op(p) = "mkdirs" /\ at[p] \in {"called", "make"}
     /\ \A q \in Paths : Below(q, Upto(Path(p), n[p])) => tree[q] = Nothing

(* There is nothing below nothing. *)
Closed ==
  /\ tree[Root] = Dir
  /\ removed = {} => \A q, d \in Paths : Below(q, d) /\ tree[d] = Nothing => tree[q] = Nothing

(* As long as nobody has made anything there is at most a file. *)
Blocked(p) == \E k \in 1..Len(Path(p)) : IsFile(Upto(Path(p), k))
Nobody ==
  removed = {} /\ last = NoProc =>
    /\ \A q \in Paths : ~isDirectory(q)
    /\ \A p \in Procs : Op(p) = "mkdirs" /\ at[p] = "thrown" => Blocked(p)

FInv ==
  /\ Shape
  /\ \A p \in Procs : ControlOf(p) /\ PassedOf(p)
  /\ Closed
  /\ removed = {} /\ last \in Procs => LeadOf(last)
  /\ Nobody


-----------------------------------------------------------------------------
(* Beginnings of a path are places, each the parent of the next.           *)
LEMMA Beginning ==
  ASSUME NEW path \in Paths, NEW k \in 0..Len(path)
  PROVE  /\ Len(path) \in Nat \ {0} /\ path \in Seq(STRING)
         /\ Upto(path, k) \in Places /\ Len(Upto(path, k)) = k
         /\ k > 0 => Upto(path, k) \in Paths
         /\ Upto(path, Len(path)) = path
<1>1. path \in Seq(STRING) /\ Len(path) \in Nat \ {0}
  BY FilesAssumption
<1>2. Len(Upto(path, k)) = k
  BY <1>1 DEF Upto
<1>3. k > 0 => Upto(path, k) \in Paths
  BY <1>1, FilesAssumption
<1>4. k = 0 => Upto(path, k) = <<>>
  BY <1>1 DEF Upto
<1>5. Upto(path, Len(path)) = path
  BY <1>1 DEF Upto
<1> QED BY <1>1, <1>2, <1>3, <1>4, <1>5 DEF Places, Root

LEMMA NextBeginning ==
  ASSUME NEW path \in Paths, NEW k \in 0..(Len(path) - 1)
  PROVE  /\ Upto(path, k + 1) \in Paths
         /\ Parent(Upto(path, k + 1)) = Upto(path, k)
         /\ Below(Upto(path, k + 1), Upto(path, k))
<1>1. path \in Seq(STRING) /\ Len(path) \in Nat \ {0} /\ k \in Nat
  BY FilesAssumption
<1>2. Upto(path, k + 1) \in Paths
  BY <1>1, Beginning, k + 1 \in 0..Len(path)
<1>3. Len(Upto(path, k + 1)) = k + 1 /\ Len(Upto(path, k)) = k
  BY <1>1, Beginning, k + 1 \in 0..Len(path), k \in 0..Len(path)
<1>4. SubSeq(SubSeq(path, 1, k + 1), 1, k) = SubSeq(path, 1, k)
  BY <1>1
<1> QED BY <1>1, <1>2, <1>3, <1>4 DEF Parent, Below, Under, Upto

(* The parent of what is below d is d or below it.                         *)
LEMMA ParentBelow ==
  ASSUME NEW q \in Paths, NEW d \in Paths, Below(q, d), Parent(q) # d
  PROVE  Parent(q) \in Paths /\ Below(Parent(q), d)
<1>1. /\ q \in Seq(STRING) /\ Len(q) \in Nat \ {0}
      /\ d \in Seq(STRING) /\ Len(d) \in Nat \ {0}
  BY FilesAssumption
<1>2. Len(q) > Len(d)
  <2>1. Len(q) >= Len(d) /\ SubSeq(q, 1, Len(d)) = d /\ q # d
    BY DEF Below, Under, Upto
  <2>2. Len(q) = Len(d) => q = d
    BY <1>1, <2>1
  <2> QED BY <1>1, <2>1, <2>2
<1>3. Len(Parent(q)) = Len(q) - 1 /\ Parent(q) \in Paths
  BY <1>1, <1>2, Beginning, Len(q) - 1 \in 0..Len(q) DEF Parent, Upto
<1>4. SubSeq(SubSeq(q, 1, Len(q) - 1), 1, Len(d)) = SubSeq(q, 1, Len(d))
  BY <1>1, <1>2
<1> QED BY <1>1, <1>2, <1>3, <1>4 DEF Below, Under, Upto, Parent

-----------------------------------------------------------------------------
LEMMA PathFacts ==
  ASSUME Shape, NEW p \in Procs
  PROVE  /\ Path(p) \in Paths /\ Path(p) \in Places /\ Path(p) # Root
         /\ Len(Path(p)) \in Nat \ {0}
         /\ Op(p) = "rename" => call[p].target \in Paths
<1>1. call[p] \in Calls
  BY DEF Shape, Typed
<1>2. Path(p) \in Paths /\ (Op(p) = "rename" => call[p].target \in Paths)
  BY <1>1, FilesAssumption DEF Path, Op
<1> QED BY <1>2, FilesAssumption DEF Places, Root

(* What FILE_FileIO comes to: a new file, or the tree as it was and, if it *)
(* opened anything, something at the path.                                 *)
LEMMA Opening ==
  ASSUME Shape, NEW p \in Procs, NEW mode \in Modes, NEW next \in Steps, FileIO(p, mode, next)
  PROVE  \/ /\ Creates(mode) /\ CanMake(Path(p))
            /\ Makes(p, Path(p), Len(data) + 1) /\ Goes(p, next)
            /\ data' = Append(data, <<>>)
            /\ fd' = [fd EXCEPT ![p] = Len(data) + 1]
         \/ /\ UNCHANGED <<tree, last>>
            /\ Goes(p, next) /\ IsFile(Path(p))
            /\ fd' = [fd EXCEPT ![p] = tree[Path(p)]]
            /\ UNCHANGED data \/ data' = [data EXCEPT ![tree[Path(p)]] = <<>>]
         \/ /\ UNCHANGED <<tree, last, data, fd>>
            /\ \/ Goes(p, "thrown")
               \/ ~Creates(mode) /\ Goes(p, next) /\ exists(Path(p))
<1>2. isDirectory(Path(p)) => exists(Path(p))
  BY FilesAssumption DEF exists, isDirectory
<1> QED BY <1>2 DEF FileIO

(* Nothing is below a path at which there is nothing; so whoever makes it  *)
(* keeps the tree closed.                                                  *)
LEMMA MakingKeepsClosed ==
  ASSUME Shape, Closed, NEW p \in Procs, NEW path \in Paths, NEW what \in {Dir} \cup Nat,
         CanMake(path), Makes(p, path, what), UNCHANGED removed
  PROVE  /\ Closed'
         /\ removed = {} => \A q \in Paths : Below(q, path) => tree'[q] = Nothing
         /\ \A q \in Places : isDirectory(q) => isDirectory(q)'
         /\ \A q \in Places : exists(q) => exists(q)'
         /\ exists(path)' /\ (what = Dir => isDirectory(path)')
         /\ tree' \in [Places -> {Nothing, Dir} \cup Nat]
         /\ last' = p
<1>0. path \in Places /\ path # Root
  BY FilesAssumption DEF Places, Root
<1>1. /\ tree' \in [Places -> {Nothing, Dir} \cup Nat]
      /\ \A q \in Places : q # path => tree'[q] = tree[q]
      /\ tree'[path] = what /\ tree[path] = Nothing /\ tree[Parent(path)] = Dir
  BY <1>0 DEF Shape, Typed, Makes, CanMake, isDirectory
<1>2. what # Nothing /\ Nothing # Dir
  BY FilesAssumption
<1>3. Paths \subseteq Places
  BY DEF Places
<1>4. removed = {} => \A q \in Paths : Below(q, path) => tree'[q] = Nothing
  BY <1>1, <1>3 DEF Closed, Below
<1>5. ASSUME removed = {}, NEW q \in Paths, NEW d \in Paths, Below(q, d), tree'[d] = Nothing
      PROVE  tree'[q] = Nothing
  <2>1. tree[d] = Nothing /\ d # path
    BY <1>1, <1>2, <1>3, <1>5
  <2>2. tree[q] = Nothing
    BY <1>5, <2>1 DEF Closed
  <2>3. CASE q = path
    <3>1. Parent(q) # d
      BY <1>1, <1>2, <2>1, <2>3
    <3>2. Parent(q) \in Paths /\ Below(Parent(q), d)
      BY <1>5, <3>1, ParentBelow
    <3> QED BY <1>1, <1>2, <1>5, <2>1, <2>3, <3>2 DEF Closed
  <2> QED BY <1>1, <1>3, <2>2, <2>3
<1>6. tree'[Root] = Dir
  BY <1>0, <1>1 DEF Closed, Places
<1>7. Closed'
  BY <1>5, <1>6 DEF Closed, Makes
<1>8. /\ \A q \in Places : isDirectory(q) => isDirectory(q)'
      /\ \A q \in Places : exists(q) => exists(q)'
  BY <1>1, <1>2 DEF isDirectory, exists
<1> QED BY <1>0, <1>1, <1>2, <1>4, <1>7, <1>8 DEF isDirectory, exists, Makes

-----------------------------------------------------------------------------
(* The types and the numbers of files.                                     *)

LEMMA PutIsBytes ==
  ASSUME NEW bytes \in Seq(Byte), NEW k \in Nat, NEW b \in Byte
  PROVE  Put(bytes, k, b) \in Seq(Byte)
<1> DEFINE m == IF k < Len(bytes) THEN Len(bytes) ELSE k + 1
<1>1. m \in Nat /\ Missing \in Byte
  BY DEF Missing, Byte
<1>2. \A j \in 1..m : (IF j = k + 1 THEN b ELSE IF j <= Len(bytes) THEN bytes[j] ELSE Missing) \in Byte
  BY <1>1
<1>3. Put(bytes, k, b) \in [1..m -> Byte]
  BY <1>2 DEF Put
<1> QED BY <1>1, <1>3, SeqDef

(* Steps that leave the files alone, or change the bytes of one. *)
LEMMA SameNumbers ==
  ASSUME Shape, UNCHANGED <<tree, fd>>, data' \in Seq(Seq(Byte)), Len(data') = Len(data),
         \A p \in Procs : at'[p] \in Holding => at[p] \in Holding \/ fd[p] # 0
  PROVE  Numbered'
BY DEF Shape, Numbered

LEMMA OpeningShape ==
  ASSUME Shape, NEW p \in Procs, NEW mode \in Modes, NEW next \in Steps, FileIO(p, mode, next),
         next \in Holding => Creates(mode) \/ ~isDirectory(Path(p))
  PROVE  /\ tree' \in [Places -> {Nothing, Dir} \cup Nat]
         /\ data' \in Seq(Seq(Byte))
         /\ at' \in [Procs -> Steps] /\ fd' \in [Procs -> Nat] /\ size' \in [Procs -> Nat]
         /\ last' \in Procs \cup {NoProc} /\ anew' \subseteq Nat /\ emptied' \subseteq Procs \X Nat
         /\ Numbered'
<1>1. /\ data \in Seq(Seq(Byte)) /\ Len(data) \in Nat
      /\ at \in [Procs -> Steps] /\ fd \in [Procs -> Nat] /\ size \in [Procs -> Nat]
      /\ tree \in [Places -> {Nothing, Dir} \cup Nat]
      /\ last \in Procs \cup {NoProc} /\ anew \subseteq Nat /\ emptied \subseteq Procs \X Nat
  <2>1. data \in Seq(Seq(Byte))
    BY Zenon DEF Shape, Typed, Byte
  <2>2. Len(data) \in Nat
    BY <2>1, LenProperties
  <2> QED BY <2>1, <2>2, Zenon DEF Shape, Typed
<1>2. Path(p) \in Places
  BY PathFacts
<1>3. at' \in [Procs -> Steps] /\ "thrown" \in Steps
  BY <1>1 DEF FileIO, Goes, Steps, Holding
<1>4. CASE /\ Makes(p, Path(p), Len(data) + 1) /\ Goes(p, next)
           /\ data' = Append(data, <<>>)
           /\ fd' = [fd EXCEPT ![p] = Len(data) + 1]
           /\ Allowed(mode) /\ Creates(mode) /\ CanMake(Path(p))
  <2>1. /\ data' \in Seq(Seq(Byte)) /\ Len(data') = Len(data) + 1
    BY <1>1, <1>4
  <2>2. ~IsFile(Path(p)) /\ ~isDirectory(Path(p))
    BY <1>4, FilesAssumption DEF IsFile, CanMake, exists, isDirectory
  <2>3. UNCHANGED <<size, emptied>> /\ anew' \in {anew, anew \cup {Len(data) + 1}}
    BY <1>4, <2>2 DEF FileIO
  <2>4. tree' \in [Places -> {Nothing, Dir} \cup Nat] /\ fd' \in [Procs -> Nat] /\ last' \in Procs \cup {NoProc}
    BY <1>1, <1>4, <1>2 DEF Makes
  <2>5. /\ \A q \in Places : tree'[q] \in {Nothing, Dir} \/ tree'[q] \in 1..Len(data')
        /\ \A r \in Procs : fd'[r] \in 0..Len(data')
        /\ \A r \in Procs : at'[r] \in Holding => fd'[r] # 0
    <3>1. \A q \in Places : tree'[q] = tree[q] \/ tree'[q] = Len(data) + 1
      BY <1>1, <1>4 DEF Makes
    <3>2. /\ fd'[p] = Len(data) + 1
          /\ \A r \in Procs \ {p} : fd'[r] = fd[r] /\ at'[r] = at[r]
      BY <1>1, <1>4 DEF Goes
    <3>3. Len(data) \in Nat /\ Len(data') = Len(data) + 1
      BY <1>1, <2>1
    <3>4. \A q \in Places : tree'[q] \in {Nothing, Dir} \/ tree'[q] \in 1..Len(data')
      BY <3>1, <3>3 DEF Shape, Numbered
    <3>5. \A r \in Procs : fd'[r] \in 0..Len(data') /\ (at'[r] \in Holding => fd'[r] # 0)
      <4>1. \A r \in Procs : fd[r] \in 0..Len(data) /\ (at[r] \in Holding => fd[r] # 0)
        BY DEF Shape, Numbered
      <4> QED BY <3>2, <3>3, <4>1
    <3> QED BY <3>4, <3>5
  <2>6. anew' \subseteq Nat /\ emptied' \subseteq Procs \X Nat /\ size' \in [Procs -> Nat]
    BY <1>1, <2>3
  <2>7. Numbered'
    BY <2>5 DEF Numbered
  <2> QED BY <1>3, <2>1, <2>4, <2>6, <2>7
<1>5. CASE /\ Allowed(mode) /\ IsFile(Path(p)) /\ Goes(p, next)
           /\ fd' = [fd EXCEPT ![p] = tree[Path(p)]]
           /\ UNCHANGED <<tree, last>>
           /\ data' \in {data, [data EXCEPT ![tree[Path(p)]] = <<>>]}
           /\ anew' \in {anew, anew \cup {tree[Path(p)]}}
           /\ emptied' \in {emptied, emptied \cup {<<p, tree[Path(p)]>>}}
           /\ size' = [size EXCEPT ![p] = Len(data'[tree[Path(p)]])]
  <2>1. tree[Path(p)] \in 1..Len(data)
    BY <1>2, <1>5 DEF Shape, Numbered, IsFile, exists, isDirectory
  <2>2. data' \in Seq(Seq(Byte)) /\ Len(data') = Len(data)
    <3>1. <<>> \in Seq(Byte)
      OBVIOUS
    <3>2. /\ [data EXCEPT ![tree[Path(p)]] = <<>>] \in Seq(Seq(Byte))
          /\ Len([data EXCEPT ![tree[Path(p)]] = <<>>]) = Len(data)
      BY ONLY <1>1, <2>1, <3>1, ExceptSeq
    <3> QED BY <1>1, <1>5, <3>2
  <2>3. /\ fd' \in [Procs -> Nat] /\ size' \in [Procs -> Nat]
        /\ anew' \subseteq Nat /\ emptied' \subseteq Procs \X Nat
    <3>1. data'[tree[Path(p)]] \in Seq(Byte) /\ tree[Path(p)] \in Nat
      BY <1>1, <2>1, <2>2
    <3>2. Len(data'[tree[Path(p)]]) \in Nat
      BY <3>1
    <3> QED BY <1>1, <1>5, <3>1, <3>2
  <2>4. Numbered'
    BY <1>1, <1>5, <2>1, <2>2 DEF Shape, Numbered, Goes
  <2> QED BY <1>1, <1>3, <1>5, <2>2, <2>3, <2>4
<1>6. CASE /\ UNCHANGED <<tree, data, fd, size, last, anew, emptied>>
           /\ Goes(p, "thrown") \/ (~Creates(mode) /\ isDirectory(Path(p)) /\ Goes(p, next))
  <2>1. Numbered'
    BY <1>1, <1>6 DEF Shape, Numbered, Goes, Steps, Holding, Holding
  <2> QED BY <1>1, <1>3, <1>6, <2>1
<1>7. ASSUME IsFile(Path(p)), ~CanMake(Path(p)), ~isDirectory(Path(p)), Allowed(mode)
      PROVE  /\ data' \in {data, [data EXCEPT ![tree[Path(p)]] = <<>>]}
             /\ anew' \in {anew, anew \cup {tree[Path(p)]}}
             /\ emptied' \in {emptied, emptied \cup {<<p, tree[Path(p)]>>}}
  BY <1>7 DEF FileIO
<1>8. (IsFile(Path(p)) => ~CanMake(Path(p)) /\ ~isDirectory(Path(p)))
  BY DEF IsFile, CanMake, exists
<1> QED BY <1>4, <1>5, <1>6, <1>7, <1>8 DEF FileIO

(* Every step keeps the types and the numbers.                             *)
LEMMA StepShape ==
  ASSUME Shape, NEW p \in Procs, Step(p)
  PROVE  Shape'
<1>0. /\ tree \in [Places -> {Nothing, Dir} \cup Nat]
      /\ data \in Seq(Seq(Byte)) /\ Len(data) \in Nat
      /\ call \in [Procs -> Calls] /\ at \in [Procs -> Steps]
      /\ n \in [Procs -> Nat] /\ fd \in [Procs -> Nat] /\ size \in [Procs -> Nat]
      /\ got \in [Procs -> Seq(Byte)]
      /\ last \in Procs \cup {NoProc} /\ removed \subseteq Paths
      /\ known \in [Procs -> Nat] /\ anew \subseteq Nat /\ emptied \subseteq Procs \X Nat
  <2>1. data \in Seq(Seq(Byte)) /\ got \in [Procs -> Seq(Byte)]
    BY Zenon DEF Shape, Typed, Byte
  <2>2. Len(data) \in Nat
    BY <2>1, LenProperties
  <2>3. at \in [Procs -> Steps]
    BY Zenon DEF Shape, Typed, Steps, Holding
  <2> QED
    BY <2>1, <2>2, <2>3, Zenon DEF Shape, Typed
<1>1. /\ Path(p) \in Paths /\ Path(p) \in Places
      /\ Op(p) = "rename" => call[p].target \in Paths
      /\ Op(p) = "open" => call[p].mode \in Modes
  BY <1>0, PathFacts, FilesAssumption DEF Op
<1> DEFINE Types ==
      /\ tree' \in [Places -> {Nothing, Dir} \cup Nat]
      /\ data' \in Seq(Seq(Byte))
      /\ call' \in [Procs -> Calls] /\ at' \in [Procs -> Steps]
      /\ n' \in [Procs -> Nat] /\ fd' \in [Procs -> Nat] /\ size' \in [Procs -> Nat]
      /\ got' \in [Procs -> Seq(Byte)]
      /\ last' \in Procs \cup {NoProc} /\ removed' \subseteq Paths
      /\ known' \in [Procs -> Nat] /\ anew' \subseteq Nat /\ emptied' \subseteq Procs \X Nat
<1>2. SUFFICES Types /\ Numbered'
  BY DEF Shape, Typed, Byte, Steps, Holding
<1>n. Numbered
  BY DEF Shape
<1>3. ASSUME UNCHANGED <<tree, data, fd>>, at' \in [Procs -> Steps],
             \A r \in Procs : at'[r] \in Holding => at[r] \in Holding
      PROVE  Numbered'
  BY <1>0, <1>3, <1>n, Zenon DEF Numbered
<1>4. ASSUME UNCHANGED <<data, fd>>, at' \in [Procs -> Steps],
             \A r \in Procs : at'[r] \in Holding => at[r] \in Holding,
             \A q \in Places : tree'[q] \in {Nothing, Dir} \/ \E s \in Places : tree'[q] = tree[s]
      PROVE  Numbered'
  <2>1. \A q \in Places : tree'[q] \in {Nothing, Dir} \/ tree'[q] \in 1..Len(data')
    BY <1>4, <1>n DEF Numbered
  <2> QED BY <1>0, <1>4, <1>n, <2>1 DEF Numbered
<1>5. ASSUME NEW to \in Steps \ Holding, Goes(p, to)
      PROVE  at' \in [Procs -> Steps] /\ \A r \in Procs : at'[r] \in Holding => at[r] \in Holding
  BY <1>0, <1>5 DEF Goes
<1>a. [n EXCEPT ![p] = @ + 1] \in [Procs -> Nat] /\ n[p] \in Nat
  BY <1>0
<1>6. CASE mkdir(p)
  <2>1. Types /\ \A q \in Places : tree'[q] \in {Nothing, Dir} \/ tree'[q] = tree[q]
    BY <1>0, <1>1, <1>6 DEF mkdir, Makes, Goes, Steps, Holding
  <2>2. Goes(p, "returned") \/ Goes(p, "thrown")
    BY <1>6 DEF mkdir
  <2> QED BY <1>4, <1>5, <1>6, <2>1, <2>2 DEF mkdir, Steps, Holding
<1>7. CASE remove(p)
  <2>1. Types /\ \A q \in Places : tree'[q] \in {Nothing, Dir} \/ tree'[q] = tree[q]
    BY <1>0, <1>1, <1>7 DEF remove, Goes, Steps, Holding
  <2>2. Goes(p, "returned") \/ Goes(p, "thrown")
    BY <1>7 DEF remove
  <2> QED BY <1>4, <1>5, <1>7, <2>1, <2>2 DEF remove, Steps, Holding
<1>8. CASE rename(p)
  <2> DEFINE new == Renamed(Path(p), call[p].target)
  <2>1. \A q \in Places : new[q] = Nothing \/ \E s \in Places : new[q] = tree[s]
    BY DEF Renamed, Places
  <2>2. new \in [Places -> {Nothing, Dir} \cup Nat]
    <3>1. \A q \in Places : new[q] \in {Nothing, Dir} \cup Nat
      BY <1>0, <2>1
    <3>2. new = [q \in Places |-> new[q]]
      BY DEF Renamed
    <3> HIDE DEF new
    <3> QED BY <3>1, <3>2
  <2>3. \/ tree' = new /\ removed' = removed \cup {path \in Paths : Under(path, Path(p)) \/ Under(path, call[p].target)}
        \/ UNCHANGED <<tree, removed>>
    BY <1>8 DEF rename
  <2>4. Goes(p, "returned") \/ Goes(p, "thrown")
    BY <1>8 DEF rename
  <2>5. UNCHANGED <<data, call, n, fd, size, got, last, known, anew, emptied>>
    BY <1>8 DEF rename
  <2> HIDE DEF new
  <2>6. Types
    BY <1>0, <2>2, <2>3, <2>4, <2>5, <1>5 DEF Steps, Holding
  <2>7. \A q \in Places : tree'[q] \in {Nothing, Dir} \/ \E s \in Places : tree'[q] = tree[s]
    BY <2>1, <2>3
  <2> QED BY <1>4, <1>5, <2>4, <2>5, <2>6, <2>7 DEF Steps, Holding
<1>9. CASE mkdirs(p)
  <2>1. /\ UNCHANGED <<tree, data, call, fd, size, got, last, removed, known, anew, emptied>>
        /\ n' \in {n, [n EXCEPT ![p] = @ + 1]}
    BY <1>9 DEF mkdirs, files, history
  <2>2. Goes(p, "returned") \/ Goes(p, "make") \/ UNCHANGED at
    BY <1>9 DEF mkdirs
  <2>3. at' \in [Procs -> Steps] /\ \A r \in Procs : at'[r] \in Holding => at[r] \in Holding
    BY <1>0, <1>5, <2>2 DEF Steps, Holding
  <2> QED BY ONLY <1>0, <1>3, <1>a, <2>1, <2>3
<1>10. CASE mkdirsMake(p)
  <2> DEFINE dir == Upto(Path(p), n[p] + 1)
  <2>1. \/ Makes(p, dir, Dir) /\ n' = [n EXCEPT ![p] = @ + 1] /\ Goes(p, "called")
        \/ Goes(p, "thrown") /\ UNCHANGED <<tree, last, n>>
    BY <1>10 DEF mkdirsMake
  <2>2. UNCHANGED <<data, call, fd, size, got, removed, known, anew, emptied>>
    BY <1>10 DEF mkdirsMake
  <2> HIDE DEF dir
  <2>3. at' \in [Procs -> Steps] /\ \A r \in Procs : at'[r] \in Holding => at[r] \in Holding
    BY <1>5, <2>1 DEF Steps, Holding
  <2>4. /\ tree' \in [Places -> {Nothing, Dir} \cup Nat] /\ last' \in Procs \cup {NoProc}
        /\ \A q \in Places : tree'[q] \in {Nothing, Dir} \/ tree'[q] = tree[q]
    BY <1>0, <2>1 DEF Makes
  <2>5. n' \in [Procs -> Nat]
    BY <1>0, <1>a, <2>1
  <2> QED BY <1>0, <1>4, <2>2, <2>3, <2>4, <2>5
<1>11. CASE open(p)
  <2>1. /\ FileIO(p, call[p].mode, IF Creates(call[p].mode) THEN "write" ELSE "read")
        /\ UNCHANGED <<call, n, got, removed, known>> /\ call[p].mode \in Modes
    BY <1>1, <1>11 DEF open
  <2> QED BY <1>0, <2>1, OpeningShape DEF Steps, Holding
<1>12. CASE writeInto(p)
  <2>1. UNCHANGED <<tree, call, fd, size, got, last, removed, known, anew, emptied>>
    BY <1>12 DEF writeInto, history
  <2>0. /\ Goes(p, "returned") \/ UNCHANGED at
        /\ n' \in {n, [n EXCEPT ![p] = @ + 1]}
    BY <1>12 DEF writeInto
  <2>2. at' \in [Procs -> Steps] /\ n' \in [Procs -> Nat]
        /\ \A r \in Procs : at'[r] \in Holding => at[r] \in Holding
    BY <1>0, <1>5, <1>a, <2>0 DEF Steps, Holding
  <2>3. fd[p] \in 1..Len(data)
    <3>1. fd[p] \in 0..Len(data) /\ fd[p] # 0
      BY <1>12, <1>n DEF Numbered, writeInto, Holding
    <3> QED BY <3>1
  <2>4. data' \in Seq(Seq(Byte)) /\ Len(data') = Len(data)
    <3> DEFINE b == <<p, n[p] + 1>>
    <3>1. data[fd[p]] \in Seq(Byte) /\ b \in Byte /\ n[p] \in Nat
      BY SMTT(40), <1>0, <2>3 DEF Byte
    <3>2. Append(data[fd[p]], b) \in Seq(Byte) /\ Put(data[fd[p]], n[p], b) \in Seq(Byte)
      BY SMTT(40), <3>1, PutIsBytes
    <3>3. \/ data' = data
          \/ data' = [data EXCEPT ![fd[p]] = Append(data[fd[p]], b)]
          \/ data' = [data EXCEPT ![fd[p]] = Put(data[fd[p]], n[p], b)]
      BY <1>12 DEF writeInto
    <3> HIDE DEF b
    <3>4. \A x \in Seq(Byte) : /\ [data EXCEPT ![fd[p]] = x] \in Seq(Seq(Byte))
                               /\ Len([data EXCEPT ![fd[p]] = x]) = Len(data)
      BY <1>0, <2>3, ExceptSeq
    <3>5. data' = data \/ \E x \in Seq(Byte) : data' = [data EXCEPT ![fd[p]] = x]
      BY ONLY <3>2, <3>3, Zenon
    <3>6. ASSUME NEW x \in Seq(Byte), data' = [data EXCEPT ![fd[p]] = x]
          PROVE  data' \in Seq(Seq(Byte)) /\ Len(data') = Len(data)
      <4>1. /\ [data EXCEPT ![fd[p]] = x] \in Seq(Seq(Byte))
            /\ Len([data EXCEPT ![fd[p]] = x]) = Len(data)
        BY <3>4
      <4> QED BY ONLY <3>6, <4>1
    <3> QED BY <1>0, <3>5, <3>6
  <2>5. Numbered'
    BY <2>1, <2>2, <2>4, <1>n DEF Numbered
  <2> QED BY <1>0, <2>1, <2>2, <2>4, <2>5
<1>13. ASSUME ToRead(p), ReadByte(p)
       PROVE  got' \in [Procs -> Seq(Byte)] /\ n' \in [Procs -> Nat]
  <2>1. fd[p] \in 1..Len(data)
    <3>1. fd[p] \in 0..Len(data) /\ fd[p] # 0
      BY <1>13, <1>n DEF Numbered, ToRead
    <3> QED BY <3>1
  <2>2. data[fd[p]] \in Seq(Byte) /\ n[p] + 1 \in 1..Len(data[fd[p]])
    BY SMTT(40), <1>0, <1>13, <2>1 DEF ToRead
  <2>3. Append(got[p], data[fd[p]][n[p] + 1]) \in Seq(Byte)
    BY <1>0, <2>2
  <2>4. /\ got' = [got EXCEPT ![p] = Append(got[p], data[fd[p]][n[p] + 1])]
        /\ n' = [n EXCEPT ![p] = @ + 1]
    BY <1>13 DEF ReadByte
  <2> QED BY ONLY <1>0, <1>a, <2>3, <2>4
<1>14. CASE readInto(p)
  <2>1. /\ UNCHANGED <<tree, data, call, fd, size, last, removed, known, anew, emptied>>
        /\ (ToRead(p) /\ ReadByte(p)) \/ UNCHANGED <<got, n>>
    BY <1>14 DEF readInto, files, history
  <2>2. Goes(p, "returned") \/ UNCHANGED at
    BY <1>14 DEF readInto
  <2>3. at' \in [Procs -> Steps] /\ \A r \in Procs : at'[r] \in Holding => at[r] \in Holding
    BY <1>0, <1>5, <2>2 DEF Steps, Holding
  <2>4. got' \in [Procs -> Seq(Byte)] /\ n' \in [Procs -> Nat]
    BY <1>0, <1>13, <2>1
  <2> QED BY <1>0, <1>3, <2>1, <2>3, <2>4
<1>15. CASE fread(p)
  <2>1. /\ UNCHANGED <<tree, data, call, fd, size, last, removed, known, anew, emptied>>
        /\ (ToRead(p) /\ ReadByte(p)) \/ UNCHANGED <<got, n>>
    BY <1>15 DEF fread, files, history
  <2>2. Goes(p, "returned") \/ UNCHANGED at
    BY <1>15 DEF fread
  <2>3. at' \in [Procs -> Steps] /\ \A r \in Procs : at'[r] \in Holding => at[r] \in Holding
    BY <1>0, <1>5, <2>2 DEF Steps, Holding
  <2>4. got' \in [Procs -> Seq(Byte)] /\ n' \in [Procs -> Nat]
    BY <1>0, <1>13, <2>1
  <2> QED BY <1>0, <1>3, <2>1, <2>3, <2>4
<1>16. CASE touch(p)
  <2>1. Types /\ UNCHANGED <<tree, data, fd>>
    BY <1>0, <1>16 DEF touch, files, Goes, Steps, Holding
  <2>2. Goes(p, "stamp") \/ Goes(p, "create")
    BY <1>16 DEF touch
  <2> QED BY <1>3, <1>5, <2>1, <2>2 DEF Steps, Holding
<1>17. CASE touchWrite(p)
  <2>1. FileIO(p, {"w"}, "stamp") /\ UNCHANGED <<call, n, got, removed, known>>
    BY <1>17 DEF touchWrite
  <2>2. {"w"} \in Modes
    BY DEF Modes
  <2> QED BY <1>0, <2>1, <2>2, OpeningShape DEF Steps, Holding
<1>18. CASE touchImpl(p)
  <2>1. Types /\ UNCHANGED <<tree, data, fd>>
    BY <1>0, <1>18 DEF touchImpl, files, history, Goes, Steps, Holding
  <2>2. Goes(p, "returned") \/ Goes(p, "thrown")
    BY <1>18 DEF touchImpl
  <2> QED BY <1>3, <1>5, <2>1, <2>2 DEF Steps, Holding
<1>19. CASE ReadFile(p)
  <2>1. FileIO(p, {"r"}, "measure") /\ ~isDirectory(Path(p)) /\ UNCHANGED <<call, n, got, removed, known>>
    BY <1>19 DEF ReadFile
  <2>2. {"r"} \in Modes
    BY DEF Modes
  <2> QED BY <1>0, <2>1, <2>2, OpeningShape DEF Steps, Holding
<1>20. CASE ftell(p)
  <2>1. /\ Goes(p, "load") /\ size' = [size EXCEPT ![p] = Len(data[fd[p]])]
        /\ UNCHANGED <<tree, data, call, n, fd, got, last, removed, known, anew, emptied>>
    BY <1>20 DEF ftell, files, history
  <2>2. fd[p] \in 1..Len(data)
    BY <1>20, <1>n DEF Numbered, ftell, Holding
  <2>3. Len(data[fd[p]]) \in Nat
    BY <1>0, <2>2
  <2>4. size' \in [Procs -> Nat]
    BY <1>0, <2>1, <2>3
  <2> QED BY <1>0, <1>3, <1>5, <2>1, <2>4 DEF Steps, Holding
<1> QED BY <1>6, <1>7, <1>8, <1>9, <1>10, <1>11, <1>12, <1>14, <1>15, <1>16, <1>17, <1>18, <1>19, <1>20 DEF Step

-----------------------------------------------------------------------------
(* Three kinds of steps: those that leave the tree alone, those that make  *)
(* something, and those that remove something.                             *)

OthersSame(p) == \A r \in Procs \ {p} : at'[r] = at[r] /\ n'[r] = n[r]

LEMMA Others ==
  ASSUME FInv, NEW p \in Procs, NEW r \in Procs \ {p}, OthersSame(p), UNCHANGED call,
         \A q \in Places : (isDirectory(q) => isDirectory(q)' \/ q \in removed')
                           /\ (exists(q) => exists(q)' \/ q \in removed'),
         removed \subseteq removed'
  PROVE  ControlOf(r)' /\ PassedOf(r)'
<1>1. /\ ControlOf(r) /\ PassedOf(r) /\ at'[r] = at[r] /\ n'[r] = n[r]
      /\ n[r] \in Nat /\ Path(r) \in Paths /\ Path(r) \in Places
  BY PathFacts DEF FInv, OthersSame, Shape, Typed
<1>2. ControlOf(r)'
  BY <1>1 DEF ControlOf, Op, Path
<1>3. ASSUME Op(r) = "mkdirs", NEW k \in 1..n[r]
      PROVE  isDirectory(Upto(Path(r), k))' \/ Upto(Path(r), k) \in removed'
  <2>1. n[r] <= Len(Path(r)) /\ Len(Path(r)) \in Nat
    BY <1>1, <1>3, Beginning, 0 \in 0..Len(Path(r)) DEF ControlOf
  <2>2. Upto(Path(r), k) \in Places
    BY <1>1, <2>1, Beginning, k \in 0..Len(Path(r))
  <2>3. isDirectory(Upto(Path(r), k)) \/ Upto(Path(r), k) \in removed
    BY <1>1, <1>3 DEF PassedOf
  <2>4. Path(r)' = Path(r)
    BY DEF Path
  <2> QED BY <2>2, <2>3, <2>4 DEF isDirectory, Upto
<1> QED BY <1>1, <1>2, <1>3 DEF PassedOf, Op, Path, exists, isDirectory

LEMMA QuietStep ==
  ASSUME FInv, Shape', NEW p \in Procs, OthersSame(p), UNCHANGED <<tree, removed, last, call>>,
         ControlOf(p)', PassedOf(p)',
         last = p /\ removed = {} => LeadOf(p)',
         removed = {} /\ last = NoProc /\ Op(p) = "mkdirs" /\ at'[p] = "thrown" /\ at[p] # "thrown"
           => Blocked(p)
  PROVE  FInv'
<1>1. \A r \in Procs \ {p} : ControlOf(r)' /\ PassedOf(r)'
  BY Others DEF isDirectory, exists
<1>2. Closed'
  BY DEF FInv, Closed
<1>3. (removed = {} /\ last \in Procs => LeadOf(last))'
  <2>1. ASSUME removed = {}, last \in Procs, last # p
        PROVE  LeadOf(last)'
    BY <2>1 DEF FInv, OthersSame, LeadOf, Op, Path
  <2> QED BY <2>1
<1>4. Nobody'
  <2>1. ASSUME removed = {}, last = NoProc, NEW r \in Procs, Op(r) = "mkdirs", at'[r] = "thrown"
        PROVE  Blocked(r)
    BY <2>1 DEF FInv, Nobody, OthersSame
  <2>2. \A r \in Procs : Blocked(r)' <=> Blocked(r)
    BY DEF Blocked, IsFile, exists, isDirectory, Path
  <2> QED BY <2>1, <2>2 DEF FInv, Nobody, isDirectory, Op
<1> QED BY <1>1, <1>2, <1>3, <1>4 DEF FInv

LEMMA MakingStep ==
  ASSUME FInv, Shape', NEW p \in Procs, OthersSame(p), UNCHANGED <<removed, call>>,
         NEW path \in Paths, NEW what \in {Dir} \cup Nat, CanMake(path), Makes(p, path, what),
         ControlOf(p)', PassedOf(p)', removed = {} => LeadOf(p)'
  PROVE  FInv'
<1>1. Shape /\ Closed
  BY DEF FInv
<1>2. /\ Closed' /\ last' = p
      /\ \A q \in Places : isDirectory(q) => isDirectory(q)'
      /\ \A q \in Places : exists(q) => exists(q)'
  BY <1>1, MakingKeepsClosed
<1>3. \A r \in Procs \ {p} : ControlOf(r)' /\ PassedOf(r)'
  BY <1>2, Others
<1>4. Nobody'
  BY <1>2, FilesAssumption DEF Nobody
<1> QED BY <1>2, <1>3, <1>4 DEF FInv

LEMMA RemovingStep ==
  ASSUME FInv, Shape', NEW p \in Procs, OthersSame(p), UNCHANGED <<last, call>>,
         removed \subseteq removed', removed' # {}, tree'[Root] = Dir,
         \A q \in Places : tree'[q] = tree[q] \/ q \in removed',
         ControlOf(p)', PassedOf(p)'
  PROVE  FInv'
<1>1. \A r \in Procs \ {p} : ControlOf(r)' /\ PassedOf(r)'
  BY Others DEF isDirectory, exists
<1> QED BY <1>1 DEF FInv, Closed, Nobody

-----------------------------------------------------------------------------
(* The steps. *)

LEMMA MkdirsStep ==
  ASSUME FInv, Shape', NEW p \in Procs, mkdirs(p)
  PROVE  FInv'
<1>1. /\ at[p] = "called" /\ Op(p) = "mkdirs" /\ Op(p)' = Op(p) /\ Path(p)' = Path(p)
      /\ UNCHANGED <<tree, removed, last, call>>
      /\ Shape /\ ControlOf(p) /\ PassedOf(p) /\ n[p] \in Nat
      /\ Path(p) \in Paths /\ Len(Path(p)) \in Nat \ {0} /\ OthersSame(p)
  BY PathFacts DEF FInv, mkdirs, Op, Path, files, history, Shape, Typed, OthersSame, Goes
<1>2. CASE n[p] = Len(Path(p)) /\ Goes(p, "returned") /\ UNCHANGED n
  <2>1. at'[p] = "returned"
    BY <1>1, <1>2 DEF Goes, Shape, Typed
  <2>2. ControlOf(p)' /\ PassedOf(p)' /\ LeadOf(p)'
    BY <1>1, <1>2, <2>1 DEF ControlOf, PassedOf, LeadOf, isDirectory
  <2> QED BY <1>1, <2>1, <2>2, QuietStep
<1>3. CASE n[p] # Len(Path(p)) /\ isDirectory(Upto(Path(p), n[p] + 1))
           /\ n' = [n EXCEPT ![p] = @ + 1] /\ UNCHANGED at
  <2>1. n'[p] = n[p] + 1 /\ at'[p] = "called" /\ n[p] < Len(Path(p))
    BY <1>1, <1>3 DEF ControlOf, Shape, Typed
  <2>2. ControlOf(p)'
    BY <1>1, <2>1 DEF ControlOf
  <2>3. PassedOf(p)'
    BY <1>1, <1>3, <2>1 DEF PassedOf, isDirectory
  <2>4. last = p /\ removed = {} => LeadOf(p)'
    <3>1. Upto(Path(p), n[p] + 1) \in Paths /\ Below(Upto(Path(p), n[p] + 1), Upto(Path(p), n[p]))
      BY <1>1, <2>1, NextBeginning, n[p] \in 0..(Len(Path(p)) - 1)
    <3>2. ASSUME last = p, removed = {}
          PROVE  FALSE
      <4>1. LeadOf(p)
        BY <3>2 DEF FInv
      <4>2. tree[Upto(Path(p), n[p] + 1)] = Nothing
        BY <1>1, <3>1, <4>1 DEF LeadOf
      <4> QED BY <1>3, <4>2, FilesAssumption DEF isDirectory
    <3> QED BY <3>2
  <2> QED BY <1>1, <2>1, <2>2, <2>3, <2>4, QuietStep
<1>4. CASE n[p] # Len(Path(p)) /\ Goes(p, "make") /\ UNCHANGED n
  <2>1. at'[p] = "make" /\ n'[p] = n[p] /\ n[p] < Len(Path(p))
    BY <1>1, <1>4 DEF Goes, ControlOf, Shape, Typed
  <2>2. ControlOf(p)' /\ PassedOf(p)'
    BY <1>1, <2>1 DEF ControlOf, PassedOf, isDirectory
  <2>3. last = p /\ removed = {} => LeadOf(p)'
    BY <1>1, <2>1 DEF FInv, LeadOf
  <2> QED BY <1>1, <2>1, <2>2, <2>3, QuietStep
<1> QED BY <1>2, <1>3, <1>4 DEF mkdirs

LEMMA MkdirsMakeStep ==
  ASSUME FInv, Shape', NEW p \in Procs, mkdirsMake(p)
  PROVE  FInv'
<1> DEFINE dir == Upto(Path(p), n[p] + 1)
<1>1. /\ at[p] = "make" /\ Op(p)' = Op(p) /\ Path(p)' = Path(p)
      /\ UNCHANGED <<removed, call>>
      /\ Shape /\ ControlOf(p) /\ PassedOf(p) /\ n[p] \in Nat
      /\ Path(p) \in Paths /\ Len(Path(p)) \in Nat \ {0} /\ OthersSame(p)
  BY PathFacts DEF FInv, mkdirsMake, Op, Path, Shape, Typed, OthersSame, Goes
<1>2. Op(p) = "mkdirs" /\ n[p] \in 0..(Len(Path(p)) - 1)
  BY <1>1 DEF ControlOf
<1>3. dir \in Paths /\ Parent(dir) = Upto(Path(p), n[p]) /\ Below(dir, Upto(Path(p), n[p]))
  BY <1>1, <1>2, NextBeginning
<1>4. CASE CanMake(dir)
  <2>1. Makes(p, dir, Dir) /\ at'[p] = "called" /\ n'[p] = n[p] + 1
    BY <1>1, <1>4 DEF mkdirsMake, Goes, Shape, Typed
  <2>2. /\ \A q \in Places : isDirectory(q) => isDirectory(q)'
        /\ removed = {} => \A q \in Paths : Below(q, dir) => tree'[q] = Nothing
    BY <1>1, <1>3, <1>4, <2>1, MakingKeepsClosed DEF FInv
  <2>6. tree'[dir] = Dir
    BY <1>1, <1>3, <2>1 DEF Makes, Shape, Typed, Places
  <2>3. ControlOf(p)'
    BY <1>1, <1>2, <2>1 DEF ControlOf
  <2>4. PassedOf(p)'
    <3>1. ASSUME NEW k \in 1..n[p]
          PROVE  tree'[Upto(Path(p), k)] = Dir \/ Upto(Path(p), k) \in removed
      <4>1. Upto(Path(p), k) \in Places
        BY <1>1, <1>2, Beginning, k \in 0..Len(Path(p))
      <4> QED BY <1>1, <1>2, <2>2, <4>1 DEF PassedOf, isDirectory
    <3>2. \A k \in 1..(n[p] + 1) : k \in 1..n[p] \/ k = n[p] + 1
      BY <1>1
    <3> QED BY <1>1, <1>2, <2>1, <2>6, <3>1, <3>2 DEF PassedOf, isDirectory
  <2>5. removed = {} => LeadOf(p)'
    BY <1>1, <1>2, <2>1, <2>2 DEF LeadOf
  <2> QED BY <1>1, <1>3, <1>4, <2>1, <2>3, <2>4, <2>5, MakingStep
<1>5. CASE ~CanMake(dir)
  <2>1. at'[p] = "thrown" /\ UNCHANGED <<tree, last, n>>
    BY <1>1, <1>5 DEF mkdirsMake, Goes, Shape, Typed
  <2>2. ControlOf(p)' /\ PassedOf(p)'
    BY <1>1, <1>2, <2>1 DEF ControlOf, PassedOf, isDirectory
  <2>3. removed = {} => isDirectory(Parent(dir))
    <3>1. CASE n[p] = 0
      BY <1>1, <1>3, <3>1 DEF Upto, FInv, Closed, Root, isDirectory
    <3>2. CASE n[p] # 0
      BY <1>1, <1>2, <1>3, <3>2 DEF PassedOf
    <3> QED BY <3>1, <3>2
  <2>4. removed = {} => exists(dir)
    BY <1>5, <2>3 DEF CanMake, exists
  <2>5. last = p /\ removed = {} => FALSE
    BY <1>1, <1>2, <1>3, <2>4 DEF FInv, LeadOf, exists
  <2>6. removed = {} /\ last = NoProc => Blocked(p)
    <3>1. n[p] + 1 \in 1..Len(Path(p))
      BY <1>1, <1>2
    <3> QED BY <1>3, <2>4, <3>1 DEF FInv, Nobody, Blocked, IsFile
  <2> QED BY <1>1, <2>1, <2>2, <2>5, <2>6, QuietStep
<1> QED BY <1>4, <1>5

(* Opening, as part of open(), touchWrite() and ReadFile(). *)
LEMMA OpeningStep ==
  ASSUME FInv, Shape', NEW p \in Procs, NEW mode \in Modes, NEW next \in Steps,
         FileIO(p, mode, next), UNCHANGED <<call, n, removed>>,
         Op(p) # "mkdirs", at[p] \in {"called", "create"},
         at[p] = "create" => Op(p) = "touch", last # p \/ removed # {},
         next \in {"write", "read"} => Op(p) = "open",
         next = "measure" => Op(p) = "load",
         next = "stamp" => Op(p) = "touch",
         next \in {"write", "read", "measure", "stamp"},
         Creates(mode) => next \in {"write", "stamp"}
  PROVE  FInv'
<1>1. /\ Shape /\ Closed /\ Op(p)' = Op(p) /\ Path(p)' = Path(p)
      /\ Path(p) \in Paths /\ Path(p) \in Places
  BY PathFacts DEF FInv, Op, Path
<1>2. \/ Goes(p, next)
      \/ Goes(p, "thrown")
  BY <1>1, Opening
<1>3. OthersSame(p) /\ at'[p] \in {next, "thrown"}
  BY <1>1, <1>2 DEF OthersSame, Goes, Shape, Typed
<1>4. ControlOf(p)'
  BY <1>1, <1>3 DEF ControlOf
<1>5. CASE CanMake(Path(p)) /\ Makes(p, Path(p), Len(data) + 1) /\ Goes(p, next) /\ Creates(mode)
  <2>1. at'[p] = next /\ Len(data) + 1 \in Nat
    BY <1>1, <1>5 DEF Goes, Shape, Typed
  <2>2. exists(Path(p))'
    <3>1. tree'[Path(p)] = Len(data) + 1
      BY <1>1, <1>5 DEF Makes, Shape, Typed
    <3> QED BY <1>1, <2>1, <3>1, FilesAssumption DEF exists
  <2>3. PassedOf(p)'
    BY <1>1, <2>2 DEF PassedOf
  <2>4. LeadOf(p)'
    BY <1>5, <2>1 DEF LeadOf
  <2> QED BY <1>1, <1>3, <1>4, <1>5, <2>1, <2>3, <2>4, MakingStep
<1>6. CASE UNCHANGED <<tree, last>> /\ (Goes(p, "thrown") \/ (Goes(p, next) /\ exists(Path(p))))
  <2>1. at'[p] = "thrown" \/ exists(Path(p))
    BY <1>1, <1>6 DEF Goes, Shape, Typed
  <2>2. PassedOf(p)'
    BY <1>1, <1>3, <1>6, <2>1 DEF PassedOf, exists
  <2> QED BY <1>1, <1>3, <1>4, <1>6, <2>2, QuietStep
<1> QED BY <1>1, <1>5, <1>6, Opening DEF IsFile

(* No step changes the calls, and none but p's own its place. *)
LEMMA OwnStep ==
  ASSUME Shape, NEW p \in Procs, Step(p)
  PROVE  OthersSame(p) /\ UNCHANGED call /\ at[p] # "returned"
<1>1. \A to : Goes(p, to) => \A r \in Procs \ {p} : at'[r] = at[r]
  BY DEF Goes, Shape, Typed
<1>2. \A x : n' = [n EXCEPT ![p] = x] => \A r \in Procs \ {p} : n'[r] = n[r]
  BY DEF Shape, Typed
<1> USE <1>1, <1>2 DEF OthersSame
<1>3. CASE mkdir(p) \/ remove(p) \/ rename(p)
  BY <1>3 DEF mkdir, remove, rename
<1>4. CASE mkdirs(p) \/ mkdirsMake(p)
  BY <1>4 DEF mkdirs, mkdirsMake
<1>5. \A mode, next : FileIO(p, mode, next) => \A r \in Procs \ {p} : at'[r] = at[r]
  BY DEF FileIO
<1>6. CASE open(p) \/ touchWrite(p) \/ ReadFile(p)
  BY <1>5, <1>6 DEF open, touchWrite, ReadFile
<1>7. CASE writeInto(p)
  BY <1>7 DEF writeInto
<1>8. CASE readInto(p) \/ fread(p)
  BY <1>8 DEF readInto, fread, ReadByte
<1>9. CASE touch(p) \/ touchImpl(p)
  BY <1>9 DEF touch, touchImpl
<1>10. CASE ftell(p)
  BY <1>10 DEF ftell
<1> QED BY <1>3, <1>4, <1>6, <1>7, <1>8, <1>9, <1>10 DEF Step

LEMMA StepFInv ==
  ASSUME FInv, NEW p \in Procs, Step(p)
  PROVE  FInv'
<1>1. /\ Shape /\ Shape' /\ OthersSame(p) /\ UNCHANGED call
      /\ Op(p)' = Op(p) /\ Path(p)' = Path(p) /\ ControlOf(p) /\ PassedOf(p)
      /\ Path(p) \in Paths /\ Path(p) \in Places /\ Path(p) # Root
      /\ at \in [Procs -> Steps] /\ n \in [Procs -> Nat] /\ tree \in [Places -> {Nothing, Dir} \cup Nat]
  BY StepShape, OwnStep, PathFacts DEF FInv, Op, Path, Shape, Typed, Steps
<1>2. last = p /\ removed = {} => LeadOf(p)
  BY DEF FInv
<1>3. CASE mkdir(p)
  <2>1. CASE CanMake(Path(p))
    <3>1. Makes(p, Path(p), Dir) /\ at'[p] = "returned" /\ UNCHANGED <<n, removed>>
      BY <1>1, <1>3, <2>1 DEF mkdir, Goes
    <3>2. Op(p) = "mkdir"
      BY <1>3 DEF mkdir
    <3>3. ControlOf(p)' /\ PassedOf(p)' /\ LeadOf(p)'
      BY <1>1, <3>1, <3>2 DEF ControlOf, PassedOf, LeadOf
    <3> QED BY <1>1, <2>1, <3>1, <3>3, MakingStep
  <2>2. CASE ~CanMake(Path(p))
    <3>1. /\ at'[p] = "thrown" /\ at[p] = "called" /\ Op(p) = "mkdir"
          /\ UNCHANGED <<tree, last, n, removed>>
      BY <1>1, <1>3, <2>2 DEF mkdir, Goes
    <3>2. ControlOf(p)' /\ PassedOf(p)'
      BY <1>1, <3>1 DEF ControlOf, PassedOf
    <3>3. ~(last = p /\ removed = {})
      BY <1>2, <3>1 DEF LeadOf
    <3> QED BY <1>1, <3>1, <3>2, <3>3, QuietStep
  <2> QED BY <2>1, <2>2
<1>4. CASE remove(p)
  <2>0. /\ Op(p) \in {"remove", "rmdir"} /\ at[p] = "called"
        /\ Goes(p, "returned") \/ Goes(p, "thrown")
    BY <1>4 DEF remove
  <2>1. /\ at'[p] \in {"returned", "thrown"} /\ UNCHANGED <<last, n>>
    BY <1>1, <1>4 DEF remove, Goes
  <2>2. ControlOf(p)' /\ PassedOf(p)'
    BY <1>1, <2>0, <2>1 DEF ControlOf, PassedOf
  <2>3. ~(last = p /\ removed = {})
    BY <1>2, <2>0 DEF LeadOf
  <2>4. CASE tree' = [tree EXCEPT ![Path(p)] = Nothing] /\ removed' = removed \cup {Path(p)}
    <3>1. tree'[Root] = Dir
      BY <1>1, <2>4 DEF FInv, Closed, Places
    <3>2. \A q \in Places : tree'[q] = tree[q] \/ q \in removed'
      BY <1>1, <2>4
    <3> QED BY <1>1, <2>1, <2>2, <2>4, <3>1, <3>2, RemovingStep
  <2>5. CASE UNCHANGED <<tree, removed>>
    BY <1>1, <2>0, <2>1, <2>2, <2>3, <2>5, QuietStep
  <2> QED BY <1>4, <2>4, <2>5 DEF remove
<1>5. CASE rename(p)
  <2> DEFINE target == call[p].target
             away == {path \in Paths : Under(path, Path(p)) \/ Under(path, target)}
  <2>0. /\ Op(p) = "rename" /\ at[p] = "called" /\ target \in Paths
        /\ UNCHANGED <<last, n>> /\ at'[p] \in {"returned", "thrown"}
    BY <1>1, <1>5, PathFacts DEF rename, Goes
  <2>2. ControlOf(p)' /\ PassedOf(p)'
    BY <1>1, <2>0 DEF ControlOf, PassedOf
  <2>3. ~(last = p /\ removed = {})
    BY <1>2, <2>0 DEF LeadOf
  <2>4. CASE tree' = Renamed(Path(p), target) /\ removed' = removed \cup away
    <3>1. \A top \in Paths : ~Under(Root, top) /\ Under(top, top)
      <4>1. ASSUME NEW top \in Paths
            PROVE  Len(top) \in Nat \ {0} /\ Upto(top, Len(top)) = top /\ Len(Root) = 0
        BY Beginning, <4>1, 0 \in 0..Len(top), FilesAssumption DEF Root
      <4> QED BY <4>1 DEF Under
    <3>2. tree'[Root] = tree[Root]
      BY <1>1, <2>0, <2>4, <3>1 DEF Renamed, Places
    <3>3. \A q \in Places : tree'[q] = tree[q] \/ q \in away
      <4>1. ASSUME NEW q \in Places, ~Under(q, Path(p)), ~Under(q, target)
            PROVE  tree'[q] = tree[q]
        BY <2>4, <4>1 DEF Renamed
      <4> QED BY <3>2, <4>1 DEF Places
    <3>4. Path(p) \in away
      BY <1>1, <3>1
    <3> HIDE DEF away
    <3> QED BY <1>1, <2>0, <2>2, <2>4, <3>2, <3>3, <3>4, RemovingStep DEF FInv, Closed
  <2>5. CASE UNCHANGED <<tree, removed>>
    BY <1>1, <2>0, <2>2, <2>3, <2>5, QuietStep
  <2> QED BY <1>5, <2>4, <2>5 DEF rename
<1>6. CASE mkdirs(p)
  BY <1>1, <1>6, MkdirsStep
<1>7. CASE mkdirsMake(p)
  BY <1>1, <1>7, MkdirsMakeStep
<1>8. CASE open(p)
  <2> DEFINE next == IF Creates(call[p].mode) THEN "write" ELSE "read"
  <2>1. /\ at[p] = "called" /\ Op(p) = "open" /\ call[p].mode \in Modes /\ next \in Steps
        /\ FileIO(p, call[p].mode, next) /\ UNCHANGED <<call, n, removed>>
    BY <1>1, <1>8, FilesAssumption DEF open, Op, Steps, Shape, Typed
  <2>2. last # p \/ removed # {}
    BY <1>2, <2>1 DEF LeadOf
  <2>3. Creates(call[p].mode) => next = "write"
    OBVIOUS
  <2> QED BY <1>1, <2>1, <2>2, <2>3, OpeningStep
<1>9. CASE touchWrite(p)
  <2>1. /\ at[p] = "create" /\ {"w"} \in Modes /\ FileIO(p, {"w"}, "stamp")
        /\ UNCHANGED <<call, n, removed>> /\ "stamp" \in Steps
    BY <1>9 DEF touchWrite, Modes, Steps
  <2>2. Op(p) = "touch"
    BY <1>1, <2>1 DEF ControlOf
  <2>3. last # p \/ removed # {}
    BY <1>2, <2>1 DEF LeadOf
  <2> QED BY <1>1, <2>1, <2>2, <2>3, OpeningStep
<1>10. CASE ReadFile(p)
  <2>1. /\ at[p] = "called" /\ Op(p) = "load" /\ {"r"} \in Modes /\ FileIO(p, {"r"}, "measure")
        /\ UNCHANGED <<call, n, removed>> /\ "measure" \in Steps /\ ~Creates({"r"})
    BY <1>10 DEF ReadFile, Modes, Steps, Creates
  <2>2. last # p \/ removed # {}
    BY <1>2, <2>1 DEF LeadOf
  <2> QED BY <1>1, <2>1, <2>2, OpeningStep
<1>11. CASE writeInto(p)
  <2>1. /\ at[p] = "write" /\ at'[p] \in {"write", "returned"} /\ UNCHANGED <<tree, removed, last>>
    BY <1>1, <1>11 DEF writeInto, Goes, history
  <2>2. Op(p) = "open"
    BY <1>1, <2>1 DEF ControlOf
  <2>3. ControlOf(p)' /\ PassedOf(p)' /\ LeadOf(p)'
    BY <1>1, <2>1, <2>2 DEF ControlOf, PassedOf, LeadOf
  <2> QED BY <1>1, <2>1, <2>3, QuietStep
<1>12. CASE readInto(p) \/ fread(p)
  <2>1. /\ at[p] \in {"read", "load"} /\ at'[p] \in {at[p], "returned"} /\ UNCHANGED <<tree, removed, last>>
    BY <1>1, <1>12 DEF readInto, fread, Goes, files, history
  <2>2. Op(p) \in {"open", "load"}
    BY <1>1, <2>1 DEF ControlOf
  <2>3. ControlOf(p)' /\ PassedOf(p)'
    BY <1>1, <2>1, <2>2 DEF ControlOf, PassedOf
  <2>4. ~(last = p /\ removed = {})
    BY <1>2, <2>1, <2>2 DEF LeadOf
  <2> QED BY <1>1, <2>1, <2>3, <2>4, QuietStep
<1>13. CASE touch(p)
  <2>1. /\ at[p] = "called" /\ Op(p) = "touch" /\ UNCHANGED <<tree, removed, last, n>>
        /\ at'[p] = IF exists(Path(p)) THEN "stamp" ELSE "create"
    BY <1>1, <1>13 DEF touch, Goes, files
  <2>2. ControlOf(p)' /\ PassedOf(p)'
    BY <1>1, <2>1 DEF ControlOf, PassedOf, exists
  <2>3. ~(last = p /\ removed = {})
    BY <1>2, <2>1 DEF LeadOf
  <2> QED BY <1>1, <2>1, <2>2, <2>3, QuietStep
<1>14. CASE touchImpl(p)
  <2>1. /\ at[p] = "stamp" /\ UNCHANGED <<tree, removed, last, n>>
        /\ at'[p] = IF exists(Path(p)) THEN "returned" ELSE "thrown"
    BY <1>1, <1>14 DEF touchImpl, Goes, files, history
  <2>2. Op(p) = "touch"
    BY <1>1, <2>1 DEF ControlOf
  <2>3. ControlOf(p)' /\ PassedOf(p)'
    BY <1>1, <2>1, <2>2 DEF ControlOf, PassedOf, exists
  <2>4. last = p /\ removed = {} => LeadOf(p)'
    BY <1>1, <2>1, <2>2 DEF PassedOf, LeadOf
  <2> QED BY <1>1, <2>1, <2>2, <2>3, <2>4, QuietStep
<1>15. CASE ftell(p)
  <2>1. /\ at[p] = "measure" /\ at'[p] = "load" /\ UNCHANGED <<tree, removed, last, n>>
    BY <1>1, <1>15 DEF ftell, Goes, files, history
  <2>2. Op(p) = "load"
    BY <1>1, <2>1 DEF ControlOf
  <2>3. ControlOf(p)' /\ PassedOf(p)'
    BY <1>1, <2>1, <2>2 DEF ControlOf, PassedOf
  <2>4. ~(last = p /\ removed = {})
    BY <1>2, <2>1, <2>2 DEF LeadOf
  <2> QED BY <1>1, <2>1, <2>3, <2>4, QuietStep
<1> QED BY <1>3, <1>4, <1>5, <1>6, <1>7, <1>8, <1>9, <1>10, <1>11, <1>12, <1>13, <1>14, <1>15 DEF Step

-----------------------------------------------------------------------------
LEMMA InitFInv == Init => FInv
<1> SUFFICES ASSUME Init
             PROVE  FInv
  OBVIOUS
<1>1. PICK old \in Places :
        /\ tree = [path \in Places |-> IF path = Root THEN Dir ELSE IF path = old THEN 1 ELSE Nothing]
        /\ data = IF old = Root THEN <<>> ELSE << << <<NoProc, 1>> >> >>
        /\ Len(old) <= 1
  BY DEF Init
<1>2. /\ at = [p \in Procs |-> "called"] /\ n = [p \in Procs |-> 0] /\ fd = [p \in Procs |-> 0]
      /\ size = [p \in Procs |-> 0] /\ got = [p \in Procs |-> <<>>] /\ last = NoProc /\ removed = {}
      /\ known = [p \in Procs |-> 0] /\ anew = {} /\ emptied = {} /\ call \in Scripts
  BY DEF Init
<1>3. data \in Seq(Seq(Byte)) /\ (old # Root => Len(data) = 1)
  <2>1. <<NoProc, 1>> \in Byte
    BY DEF Byte
  <2>2. << <<NoProc, 1>> >> \in Seq(Byte)
    BY <2>1
  <2> QED BY <1>1, <2>2
<1>4. call \in [Procs -> Calls]
  BY <1>2, FilesAssumption
<1>5. Typed
  BY <1>1, <1>2, <1>3, <1>4, FilesAssumption DEF Typed, Byte, Steps
<1>6. Numbered
  BY <1>1, <1>2, <1>3 DEF Numbered, Holding
<1>7. Shape
  BY <1>5, <1>6 DEF Shape
<1>8. ASSUME NEW p \in Procs
      PROVE  ControlOf(p) /\ PassedOf(p)
  <2>1. at[p] = "called" /\ n[p] = 0 /\ Len(Path(p)) \in Nat \ {0}
    BY <1>2, <1>7, PathFacts
  <2> QED BY <2>1 DEF ControlOf, PassedOf
<1>9. \A q, d \in Paths : Below(q, d) => tree[q] = Nothing
  <2> SUFFICES ASSUME NEW q \in Paths, NEW d \in Paths, Below(q, d)
               PROVE  tree[q] = Nothing
    OBVIOUS
  <2>1. q \in Seq(STRING) /\ d \in Seq(STRING) /\ Len(d) > 0 /\ Len(q) \in Nat /\ Len(d) \in Nat
    BY FilesAssumption
  <2>2. Len(q) >= Len(d) /\ SubSeq(q, 1, Len(d)) = d /\ q # d
    BY DEF Below, Under, Upto
  <2>3. Len(q) # Len(d)
    BY <2>1, <2>2
  <2>4. q # old /\ q # Root
    BY <1>1, <2>1, <2>2, <2>3 DEF Root
  <2> QED BY <1>1, <2>4 DEF Places
<1>10. tree[Root] = Dir
  BY <1>1 DEF Places
<1>11. \A q \in Paths : tree[q] # Dir
  BY <1>1, FilesAssumption DEF Places, Root
<1>12. Closed
  BY <1>9, <1>10 DEF Closed
<1>13. Nobody
  BY <1>2, <1>11 DEF Nobody, isDirectory
<1>14. last \notin Procs
  BY <1>2, FilesAssumption
<1> QED BY <1>7, <1>8, <1>12, <1>13, <1>14 DEF FInv

LEMMA NextFInv == FInv /\ [Next]_vars => FInv'
<1>1. ASSUME FInv, UNCHANGED vars
      PROVE  FInv'
  BY <1>1 DEF vars, files, local, history, FInv, Shape, Typed, Numbered, ControlOf, PassedOf,
       Closed, LeadOf, Nobody, Blocked, Op, Path, isDirectory, exists, IsFile
<1> QED BY <1>1, StepFInv DEF Next

THEOREM FilesInductive == Spec => []FInv
BY InitFInv, NextFInv, PTL DEF Spec

(* Of any number of calls that race to make directories and files, the one *)
(* that made something last does not fail unless something was removed.    *)
THEOREM TheLastOneFinishes == Spec => []SomeoneFinishes
<1>1. FInv => SomeoneFinishes
  BY DEF FInv, SomeoneFinishes, LeadOf, Nobody, Blocked
<1> QED BY <1>1, FilesInductive, PTL

(* What a mkdirs() or touch() that returned has made is there, unless it   *)
(* was removed.                                                            *)
THEOREM WhatIsMadeIsThere == Spec => []MadeIsThere
<1>1. FInv => MadeIsThere
  <2> SUFFICES ASSUME FInv, NEW p \in Procs, at[p] = "returned"
               PROVE  /\ Op(p) = "mkdirs" =>
                           \A k \in 1..Len(Path(p)) :
                             isDirectory(Upto(Path(p), k)) \/ Upto(Path(p), k) \in removed
                      /\ Op(p) = "touch" => exists(Path(p)) \/ Path(p) \in removed
    BY DEF MadeIsThere
  <2> QED BY DEF FInv, ControlOf, PassedOf
<1> QED BY <1>1, FilesInductive, PTL

-----------------------------------------------------------------------------
(***************************************************************************)
(* The bytes: what was appended stays, and what is read is a beginning.    *)
(***************************************************************************)
Mode(p) == call[p].mode
Appends(p) == Op(p) = "open" /\ Writes(Mode(p)) /\ "a" \in Mode(p)
Reads(p) == Op(p) = "load" \/ (Op(p) = "open" /\ ~Creates(Mode(p)))

(* The files that somebody may have emptied or overwritten. *)
Cut == anew \cup {x[2] : x \in emptied}

(* A call that opens has nothing open before it does, and writes or reads  *)
(* as its mode says; who does not append has had its file noted in anew.   *)
OpensOf(p) ==
  /\ Op(p) \in {"open", "load"} /\ at[p] = "called" => fd[p] = 0 /\ n[p] = 0 /\ got[p] = <<>>
  /\ at[p] = "write" => Creates(Mode(p)) /\ ("a" \in Mode(p) \/ fd[p] \in anew)
  /\ at[p] = "read" => ~Creates(Mode(p))
  /\ Appends(p) /\ n[p] > 0 => fd[p] # 0

(* What a touch() is about to create was not there when it looked: what is *)
(* there now is younger.                                                   *)
TouchOf(p) ==
  /\ known[p] <= Len(data)
  /\ at[p] = "create" /\ ~Moved =>
       tree[Path(p)] \in {Nothing, Dir} \/ tree[Path(p)] > known[p]

(* Whom the histories name. *)
NotedOf(x) ==
  /\ x[1] \in Procs /\ x[2] \in DOMAIN data
  /\ Op(x[1]) = "touch" /\ at[x[1]] \notin {"called", "create"}
  /\ x[2] > known[x[1]] \/ Moved
Noted == anew \subseteq DOMAIN data /\ \A x \in emptied : NotedOf(x)

(* The bytes of a file that was not opened anew: those of its appenders,   *)
(* each from the first to the last it has written, in this order; from a   *)
(* later one if the file was emptied.                                      *)
BytesOf(f) ==
  /\ \A j \in DOMAIN data[f] : data[f][j][1] \in Procs =>
       Appends(data[f][j][1]) /\ fd[data[f][j][1]] = f /\ data[f][j][2] \in 1..n[data[f][j][1]]
  /\ \A p \in Procs : Appends(p) /\ fd[p] = f =>
       \A k \in 1..n[p] :
         f \notin Cut \/ (\E i \in DOMAIN data[f] : data[f][i][1] = p /\ data[f][i][2] <= k) =>
           \E j \in DOMAIN data[f] : data[f][j] = <<p, k>>
  /\ \A i, j \in DOMAIN data[f] :
       i < j /\ data[f][i][1] = data[f][j][1] /\ data[f][i][1] \in Procs =>
         data[f][i][2] < data[f][j][2]

(* A reader has the first n[p] bytes; there were at least size[p].         *)
ReadsOf(p) ==
  Reads(p) /\ fd[p] # 0 /\ fd[p] \notin Cut =>
    /\ n[p] <= Len(data[fd[p]]) /\ size[p] <= Len(data[fd[p]])
    /\ got[p] = Upto(data[fd[p]], n[p])
    /\ at[p] = "returned" => n[p] >= size[p]

DInv ==
  /\ \A p \in Procs : OpensOf(p) /\ TouchOf(p) /\ ReadsOf(p)
  /\ \A f \in DOMAIN data : f \notin anew => BytesOf(f)
  /\ Noted

(* The types, as functions to be applied.                                  *)
LEMMA DataTypes ==
  ASSUME Shape
  PROVE  /\ data \in Seq(Seq(Byte)) /\ Len(data) \in Nat /\ DOMAIN data = 1..Len(data)
         /\ \A f \in DOMAIN data : data[f] \in Seq(Byte) /\ Len(data[f]) \in Nat
         /\ at \in [Procs -> Steps] /\ n \in [Procs -> Nat] /\ fd \in [Procs -> Nat]
         /\ size \in [Procs -> Nat] /\ got \in [Procs -> Seq(Byte)] /\ known \in [Procs -> Nat]
         /\ anew \subseteq Nat /\ emptied \subseteq Procs \X Nat /\ tree \in [Places -> {Nothing, Dir} \cup Nat]
         /\ \A p \in Procs : fd[p] # 0 => fd[p] \in DOMAIN data
<1>1. data \in Seq(Seq(Byte)) /\ got \in [Procs -> Seq(Byte)]
  BY Zenon DEF Shape, Typed, Byte
<1>2. /\ at \in [Procs -> Steps] /\ n \in [Procs -> Nat] /\ fd \in [Procs -> Nat]
      /\ size \in [Procs -> Nat] /\ known \in [Procs -> Nat]
      /\ anew \subseteq Nat /\ emptied \subseteq Procs \X Nat /\ tree \in [Places -> {Nothing, Dir} \cup Nat]
  BY Zenon DEF Shape, Typed, Steps
<1>3. Len(data) \in Nat /\ DOMAIN data = 1..Len(data)
  BY <1>1
<1>4. \A f \in DOMAIN data : data[f] \in Seq(Byte) /\ Len(data[f]) \in Nat
  BY <1>1
<1>5. \A p \in Procs : fd[p] # 0 => fd[p] \in DOMAIN data
  BY <1>2, <1>3 DEF Shape, Numbered
<1> QED BY <1>1, <1>2, <1>3, <1>4, <1>5

(* b is a, or a lengthened. *)
Extends(a, b) == Len(a) <= Len(b) /\ \A i \in 1..Len(a) : b[i] = a[i]

LEMMA SameBeginning ==
  ASSUME NEW a \in Seq(Byte), NEW b \in Seq(Byte), Extends(a, b), NEW k \in Nat, k <= Len(a)
  PROVE  Upto(b, k) = Upto(a, k)
BY DEF Extends, Upto

LEMMA OneMore ==
  ASSUME NEW a \in Seq(Byte), NEW k \in Nat, k < Len(a)
  PROVE  Append(Upto(a, k), a[k + 1]) = Upto(a, k + 1) /\ Len(Upto(a, k)) = k
BY DEF Upto

(* A file whose bytes stay, and whose appenders write nothing, or have     *)
(* only just opened it.                                                    *)
LEMMA BytesSame ==
  ASSUME NEW f, f # 0, BytesOf(f), data'[f] = data[f], UNCHANGED call, Cut \subseteq Cut',
         \A q \in Procs : Appends(q) =>
           n'[q] = n[q] /\ (fd'[q] = fd[q] \/ (fd[q] = 0 /\ n[q] = 0))
  PROVE  BytesOf(f)'
<1>1. \A q \in Procs : Appends(q)' = Appends(q)
  BY DEF Appends, Mode, Op
<1>2. ASSUME NEW j \in DOMAIN data[f], data[f][j][1] \in Procs
      PROVE  Appends(data[f][j][1])' /\ fd'[data[f][j][1]] = f /\ data[f][j][2] \in 1..n'[data[f][j][1]]
  BY <1>1, <1>2 DEF BytesOf
<1>3. ASSUME NEW q \in Procs, Appends(q)', fd'[q] = f, NEW k \in 1..n'[q],
             f \notin Cut' \/ \E i \in DOMAIN data[f] : data[f][i][1] = q /\ data[f][i][2] <= k
      PROVE  \E j \in DOMAIN data[f] : data[f][j] = <<q, k>>
  <2>1. Appends(q) /\ n'[q] = n[q]
    BY <1>1, <1>3
  <2>2. n[q] # 0
    BY <1>3, <2>1
  <2>3. fd[q] = f
    BY <1>3, <2>1, <2>2
  <2> QED BY <1>3, <2>1, <2>3 DEF BytesOf
<1>4. \A i, j \in DOMAIN data[f] :
        i < j /\ data[f][i][1] = data[f][j][1] /\ data[f][i][1] \in Procs => data[f][i][2] < data[f][j][2]
  BY DEF BytesOf
<1> QED BY SMTT(40), <1>1, <1>2, <1>3, <1>4 DEF BytesOf

(* A reader that does nothing while its file at most grows. *)
LEMMA ReadsSame ==
  ASSUME Shape, Shape', NEW r \in Procs, ReadsOf(r), UNCHANGED call, Cut \subseteq Cut',
         fd'[r] = fd[r], n'[r] = n[r], got'[r] = got[r], size'[r] = size[r],
         at'[r] = "returned" => at[r] = "returned",
         fd[r] # 0 /\ fd[r] \notin Cut' => Extends(data[fd[r]], data'[fd[r]])
  PROVE  ReadsOf(r)'
<1>1. SUFFICES ASSUME Reads(r), fd[r] # 0, fd[r] \notin Cut'
               PROVE  /\ n[r] <= Len(data'[fd[r]]) /\ size[r] <= Len(data'[fd[r]])
                      /\ got[r] = Upto(data'[fd[r]], n[r])
                      /\ at'[r] = "returned" => n[r] >= size[r]
  BY DEF ReadsOf, Reads, Mode, Op
<1>2. /\ n[r] <= Len(data[fd[r]]) /\ size[r] <= Len(data[fd[r]])
      /\ got[r] = Upto(data[fd[r]], n[r])
      /\ at[r] = "returned" => n[r] >= size[r]
  BY <1>1 DEF ReadsOf
<1>3. /\ data[fd[r]] \in Seq(Byte) /\ data'[fd[r]] \in Seq(Byte)
      /\ Len(data[fd[r]]) \in Nat /\ Len(data'[fd[r]]) \in Nat /\ n[r] \in Nat /\ size[r] \in Nat
  <2>1. fd[r] \in DOMAIN data /\ n[r] \in Nat /\ size[r] \in Nat
    BY <1>1, DataTypes
  <2>2. fd[r] \in DOMAIN data'
    <3>1. fd'[r] \in 0..Len(data')
      BY DEF Shape, Numbered
    <3>2. data' \in Seq(Seq(Byte))
      BY Zenon DEF Shape, Typed, Byte
    <3> QED BY <1>1, <3>1, <3>2
  <2>3. data \in Seq(Seq(Byte)) /\ data' \in Seq(Seq(Byte))
    BY Zenon DEF Shape, Typed, Byte
  <2> QED BY <2>1, <2>2, <2>3
<1>4. Extends(data[fd[r]], data'[fd[r]])
  BY <1>1
<1>5. Upto(data'[fd[r]], n[r]) = Upto(data[fd[r]], n[r])
  BY <1>2, <1>3, <1>4, SameBeginning
<1> QED BY <1>2, <1>3, <1>4, <1>5 DEF Extends

(* Steps that make only younger things where there was nothing.            *)
LEMMA TouchSame ==
  ASSUME Shape, Shape', UNCHANGED <<call, known>>, Len(data) <= Len(data'),
         Moved => Moved',
         \A q \in Procs : TouchOf(q) /\ (at'[q] = "create" => at[q] = "create"),
         Moved' \/ \A q \in Places : tree'[q] \in {tree[q], Nothing, Dir, Len(data) + 1}
  PROVE  \A q \in Procs : TouchOf(q)'
<1> SUFFICES ASSUME NEW q \in Procs
             PROVE  TouchOf(q)'
  OBVIOUS
<1>1. Path(q)' = Path(q) /\ Path(q) \in Places
  BY PathFacts DEF Path
<1>2. Len(data) \in Nat /\ Len(data') \in Nat /\ known[q] \in Nat /\ known[q] <= Len(data)
  <2>1. data' \in Seq(Seq(Byte))
    BY Zenon DEF Shape, Typed, Byte
  <2> QED BY <2>1, DataTypes DEF TouchOf
<1>3. ASSUME at'[q] = "create", ~Moved'
      PROVE  tree'[Path(q)] \in {Nothing, Dir} \/ tree'[Path(q)] > known[q]
  <2>1. at[q] = "create" /\ ~Moved
    BY <1>3
  <2>2. tree[Path(q)] \in {Nothing, Dir} \/ tree[Path(q)] > known[q]
    BY <2>1 DEF TouchOf
  <2>3. tree'[Path(q)] \in {tree[Path(q)], Nothing, Dir, Len(data) + 1}
    BY <1>1, <1>3
  <2> QED BY <1>2, <2>2, <2>3
<1> QED BY <1>1, <1>2, <1>3 DEF TouchOf

-----------------------------------------------------------------------------
(* p alone steps, the tree and what touch() knows apart.                   *)
Alone(p) ==
  \A r \in Procs \ {p} : /\ at'[r] = at[r] /\ n'[r] = n[r] /\ fd'[r] = fd[r]
                         /\ size'[r] = size[r] /\ got'[r] = got[r]

(* What remains to be shown of a step of p for the other calls.            *)
LEMMA OthersData ==
  ASSUME FInv, DInv, Shape', NEW p \in Procs, Alone(p), UNCHANGED call, Cut \subseteq Cut', anew \subseteq anew',
         \A f \in DOMAIN data : f \notin Cut' => Extends(data[f], data'[f])
  PROVE  \A r \in Procs \ {p} : OpensOf(r)' /\ ReadsOf(r)'
<1> SUFFICES ASSUME NEW r \in Procs \ {p}
             PROVE  OpensOf(r)' /\ ReadsOf(r)'
  OBVIOUS
<1>1. OpensOf(r)'
  BY DEF DInv, OpensOf, Alone, Appends, Mode, Op
<1>2. fd[r] # 0 => fd[r] \in DOMAIN data
  BY DataTypes DEF FInv
<1>3. ReadsOf(r)'
  BY <1>2, ReadsSame DEF FInv, DInv, Alone
<1> QED BY <1>1, <1>3

(* Steps of calls that open nothing and write nothing.                     *)
LEMMA StillStep ==
  ASSUME FInv, DInv, Shape', NEW p \in Procs, Alone(p),
         UNCHANGED <<data, call, fd, size, got, anew, emptied>>, Noted',
         Op(p) \notin {"open", "load"}, at'[p] \notin {"write", "read"},
         \A q \in Procs : TouchOf(q)'
  PROVE  DInv'
<1>0. Cut' = Cut
  BY DEF Cut
<1>1. \A f \in DOMAIN data : Extends(data[f], data'[f])
  BY DataTypes DEF FInv, Extends
<1>2. OpensOf(p)' /\ ReadsOf(p)'
  BY DEF OpensOf, ReadsOf, Reads, Appends, Op
<1>3. ASSUME NEW f \in DOMAIN data', f \notin anew'
      PROVE  BytesOf(f)'
  <2>1. f # 0 /\ BytesOf(f)
    BY <1>3, DataTypes DEF FInv, DInv
  <2>2. ~Appends(p)
    BY DEF Appends
  <2> QED BY <1>0, <2>1, <2>2, BytesSame DEF Alone
<1> QED BY <1>0, <1>1, <1>2, <1>3, OthersData DEF DInv

-----------------------------------------------------------------------------
(* What was renamed remains so, and what the histories name. *)
LEMMA MovedStays ==
  ASSUME NEW p \in Procs, at[p] # "returned", UNCHANGED call, \A r \in Procs \ {p} : at'[r] = at[r]
  PROVE  Moved => Moved'
BY DEF Moved, Op

LEMMA NotedKept ==
  ASSUME NEW x, NotedOf(x), UNCHANGED call, DOMAIN data \subseteq DOMAIN data', Moved => Moved',
         known'[x[1]] = known[x[1]],
         Op(x[1]) = "touch" /\ at[x[1]] \notin {"called", "create"} => at'[x[1]] \notin {"called", "create"}
  PROVE  NotedOf(x)'
BY DEF NotedOf, Op

LEMMA NotedStays ==
  ASSUME DInv, NEW p \in Procs, at[p] # "returned", UNCHANGED <<call, known, anew, emptied>>,
         DOMAIN data \subseteq DOMAIN data', \A r \in Procs \ {p} : at'[r] = at[r],
         Op(p) = "touch" /\ at[p] \notin {"called", "create"} => at'[p] \notin {"called", "create"}
  PROVE  Noted'
<1>1. Moved => Moved'
  BY MovedStays
<1>2. ASSUME NEW x \in emptied
      PROVE  NotedOf(x)'
  <2>1. NotedOf(x)
    BY <1>2 DEF DInv, Noted
  <2> QED BY <1>1, <2>1, NotedKept DEF NotedOf
<1> QED BY <1>2 DEF DInv, Noted

(* What opening does to the files: only those in Cut' lose bytes.          *)
LEMMA OpeningData ==
  ASSUME FInv, DInv, Shape', NEW p \in Procs, NEW mode \in Modes, NEW next \in Steps,
         FileIO(p, mode, next), UNCHANGED <<call, known>>, at[p] \in {"called", "create"},
         Op(p) = "open" => at[p] = "called" /\ mode = Mode(p),
         Op(p) = "load" => at[p] = "called" /\ mode = {"r"},
         at[p] = "create" => mode = {"w"},
         Op(p) = "touch" => at[p] = "create",
         Op(p) \in {"open", "load", "touch"}, next \notin {"called", "create", "thrown"}
  PROVE  /\ anew \subseteq anew' /\ emptied \subseteq emptied' /\ Len(data) <= Len(data')
         /\ \A f \in DOMAIN data : data'[f] = data[f] \/ (f \in Cut' /\ data'[f] = <<>>)
         /\ \A f \in DOMAIN data' : f \notin DOMAIN data => data'[f] = <<>> /\ \A q \in Procs : fd[q] # f
         /\ \A r \in Procs \ {p} : at'[r] = at[r] /\ fd'[r] = fd[r] /\ size'[r] = size[r]
         /\ at'[p] \in {next, "thrown"}
         /\ at'[p] = next /\ Op(p) = "open" /\ Creates(mode) /\ "a" \notin mode => fd'[p] \in anew'
         /\ ~Creates(mode) => \/ fd'[p] = fd[p]
                              \/ fd'[p] \in DOMAIN data /\ data' = data /\ size'[p] = Len(data[fd'[p]])
         /\ \A q \in Places : tree'[q] \in {tree[q], Len(data) + 1}
         /\ Moved => Moved'
         /\ Noted'
<1>1. /\ data \in Seq(Seq(Byte)) /\ Len(data) \in Nat /\ DOMAIN data = 1..Len(data)
      /\ at \in [Procs -> Steps] /\ fd \in [Procs -> Nat] /\ size \in [Procs -> Nat]
      /\ tree \in [Places -> {Nothing, Dir} \cup Nat] /\ Path(p) \in Places
      /\ \A q \in Procs : fd[q] # 0 => fd[q] \in DOMAIN data
  BY DataTypes, PathFacts DEF FInv
<1>5. Noted
  BY DEF DInv
<1>6. /\ at'[p] \in {next, "thrown"} /\ \A r \in Procs \ {p} : at'[r] = at[r]
      /\ Moved => Moved'
  <2>1. Goes(p, next) \/ Goes(p, "thrown")
    BY DEF FileIO
  <2>2. at'[p] \in {next, "thrown"} /\ \A r \in Procs \ {p} : at'[r] = at[r]
    BY <1>1, <2>1 DEF Goes
  <2> QED BY <2>2, MovedStays
<1>7. ASSUME DOMAIN data \subseteq DOMAIN data', NEW x \in emptied
      PROVE  NotedOf(x)'
  <2>1. NotedOf(x)
    BY <1>5, <1>7 DEF Noted
  <2>2. at[x[1]] \notin {"called", "create"} => at'[x[1]] \notin {"called", "create"}
    BY <1>6, <2>1 DEF NotedOf
  <2> QED BY <1>6, <1>7, <2>1, <2>2, NotedKept
<1>2. CASE /\ Creates(mode) /\ CanMake(Path(p))
           /\ data' = Append(data, <<>>) /\ tree' = [tree EXCEPT ![Path(p)] = Len(data) + 1]
           /\ fd' = [fd EXCEPT ![p] = Len(data) + 1]
           /\ anew' = IF Anew(p, mode) THEN anew \cup {Len(data) + 1} ELSE anew
           /\ Goes(p, next) /\ UNCHANGED <<size, emptied>>
  <2>1. /\ Len(data') = Len(data) + 1 /\ DOMAIN data' = 1..Len(data) + 1
        /\ \A f \in DOMAIN data : data'[f] = data[f]
        /\ data'[Len(data) + 1] = <<>>
    BY <1>1, <1>2
  <2>2. \A f \in DOMAIN data' : f \notin DOMAIN data => f = Len(data) + 1 /\ f # 0
    BY <1>1, <2>1
  <2>3. DOMAIN data \subseteq DOMAIN data' /\ Len(data) + 1 \in DOMAIN data'
    BY <1>1, <2>1
  <2>4. Noted'
    BY <1>2, <1>5, <1>7, <2>3 DEF Noted
  <2>5. anew \subseteq anew' /\ (Op(p) = "open" /\ Creates(mode) /\ "a" \notin mode => fd'[p] \in anew')
    BY <1>1, <1>2 DEF Anew
  <2> QED BY <1>1, <1>2, <1>6, <2>1, <2>2, <2>4, <2>5 DEF Goes
<1>3. CASE /\ IsFile(Path(p))
           /\ fd' = [fd EXCEPT ![p] = tree[Path(p)]]
           /\ data' = IF Truncates(mode) THEN [data EXCEPT ![tree[Path(p)]] = <<>>] ELSE data
           /\ anew' = IF Anew(p, mode) THEN anew \cup {tree[Path(p)]} ELSE anew
           /\ emptied' = IF Op(p) = "touch" THEN emptied \cup {<<p, tree[Path(p)]>>} ELSE emptied
           /\ size' = [size EXCEPT ![p] = Len(data'[tree[Path(p)]])]
           /\ Goes(p, next) /\ UNCHANGED <<tree, last>>
  <2>1. PICK f0 \in DOMAIN data : tree[Path(p)] = f0
    BY <1>1, <1>3 DEF FInv, Shape, Numbered, IsFile, exists, isDirectory
  <2>2. /\ at'[p] = next /\ fd'[p] = f0 /\ size'[p] = Len(data'[f0])
        /\ \A r \in Procs \ {p} : at'[r] = at[r] /\ fd'[r] = fd[r] /\ size'[r] = size[r]
    BY <1>1, <1>3, <2>1 DEF Goes
  <2>3. /\ DOMAIN data' = DOMAIN data /\ Len(data') = Len(data)
        /\ \A f \in DOMAIN data : f # f0 => data'[f] = data[f]
        /\ Truncates(mode) => data'[f0] = <<>>
        /\ ~Truncates(mode) => data' = data
    <3>1. <<>> \in Seq(Byte)
      OBVIOUS
    <3>2. Len([data EXCEPT ![f0] = <<>>]) = Len(data)
      BY ONLY <1>1, <2>1, <3>1, ExceptSeq
    <3> QED BY <1>1, <1>3, <2>1, <3>2
  <2>4. Truncates(mode) => f0 \in Cut'
    <3>1. SUFFICES ASSUME Truncates(mode)
                   PROVE  f0 \in Cut'
      OBVIOUS
    <3>2. Creates(mode) /\ "a" \notin mode /\ Op(p) \in {"open", "touch"}
      BY <3>1 DEF Truncates, Creates
    <3>3. CASE Op(p) = "open"
      BY <1>3, <2>1, <3>2, <3>3 DEF Anew, Cut
    <3>4. CASE Op(p) = "touch"
      <4>1. <<p, f0>> \in emptied' /\ <<p, f0>>[2] = f0
        BY <1>3, <2>1, <3>4
      <4> QED BY <4>1 DEF Cut
    <3> QED BY <3>2, <3>3, <3>4
  <2>5. Op(p) = "touch" => NotedOf(<<p, f0>>)'
    <3>1. SUFFICES ASSUME Op(p) = "touch"
                   PROVE  NotedOf(<<p, f0>>)'
      OBVIOUS
    <3>2. at[p] = "create"
      BY <3>1
    <3>3. f0 > known[p] \/ Moved
      BY <1>3, <2>1, <3>2 DEF DInv, TouchOf, IsFile, exists, isDirectory
    <3>4. Op(p)' = "touch" /\ at'[p] \notin {"called", "create"} /\ f0 \in DOMAIN data'
      BY <2>1, <2>2, <2>3, <3>1 DEF Op
    <3>5. f0 > known'[p] \/ Moved'
      BY <1>6, <3>3
    <3> QED BY <3>4, <3>5 DEF NotedOf
  <2>6. Noted'
    <3>1. \A x \in emptied' : x \in emptied \/ (Op(p) = "touch" /\ x = <<p, f0>>)
      BY <1>3, <2>1
    <3>2. ASSUME NEW x \in emptied'
          PROVE  NotedOf(x)'
      <4>1. CASE x \in emptied
        BY <1>7, <2>3, <4>1
      <4>2. CASE Op(p) = "touch" /\ x = <<p, f0>>
        BY <2>5, <4>2
      <4> QED BY <3>1, <4>1, <4>2
    <3>3. anew' \subseteq DOMAIN data'
      BY <1>3, <1>5, <2>1, <2>3 DEF Noted
    <3> QED BY <3>2, <3>3 DEF Noted
  <2>7. /\ anew \subseteq anew' /\ emptied \subseteq emptied'
        /\ Op(p) = "open" /\ Creates(mode) /\ "a" \notin mode => fd'[p] \in anew'
    BY <1>3, <2>1, <2>2 DEF Anew
  <2>8. \A f \in DOMAIN data : data'[f] = data[f] \/ (f \in Cut' /\ data'[f] = <<>>)
    BY <2>3, <2>4
  <2>9. ~Creates(mode) => data' = data
    BY <2>3 DEF Truncates
  <2> QED BY <1>1, <1>3, <1>6, <2>1, <2>2, <2>3, <2>6, <2>7, <2>8, <2>9
<1>4. CASE /\ UNCHANGED <<tree, data, fd, size, last, anew, emptied>>
           /\ Goes(p, "thrown") \/ (~Creates(mode) /\ Goes(p, next))
  <2>1. Noted'
    BY <1>4, <1>5, <1>7 DEF Noted
  <2> QED BY <1>1, <1>4, <1>6, <2>1 DEF Goes
<1> QED BY <1>2, <1>3, <1>4 DEF FileIO, Makes

LEMMA OpeningStepData ==
  ASSUME FInv, DInv, Shape', NEW p \in Procs, NEW mode \in Modes, NEW next \in Steps,
         FileIO(p, mode, next), UNCHANGED <<call, n, got, known, removed>>,
         at[p] \in {"called", "create"},
         Op(p) = "open" => at[p] = "called" /\ mode = Mode(p)
                           /\ next = (IF Creates(mode) THEN "write" ELSE "read"),
         Op(p) = "load" => at[p] = "called" /\ mode = {"r"} /\ next = "measure",
         at[p] = "create" => mode = {"w"},
         Op(p) = "touch" => at[p] = "create" /\ next = "stamp",
         Op(p) \in {"open", "load", "touch"}
  PROVE  DInv'
<1>1. /\ anew \subseteq anew' /\ emptied \subseteq emptied' /\ Len(data) <= Len(data')
      /\ \A f \in DOMAIN data : data'[f] = data[f] \/ (f \in Cut' /\ data'[f] = <<>>)
      /\ \A f \in DOMAIN data' : f \notin DOMAIN data => data'[f] = <<>> /\ \A q \in Procs : fd[q] # f
      /\ \A r \in Procs \ {p} : at'[r] = at[r] /\ fd'[r] = fd[r] /\ size'[r] = size[r]
      /\ at'[p] \in {next, "thrown"}
      /\ at'[p] = next /\ Op(p) = "open" /\ Creates(mode) /\ "a" \notin mode => fd'[p] \in anew'
      /\ ~Creates(mode) => \/ fd'[p] = fd[p]
                           \/ fd'[p] \in DOMAIN data /\ data' = data /\ size'[p] = Len(data[fd'[p]])
      /\ \A q \in Places : tree'[q] \in {tree[q], Len(data) + 1}
      /\ Moved => Moved'
      /\ Noted'
  BY OpeningData
<1>0. Cut \subseteq Cut'
  BY <1>1 DEF Cut
<1>2. Alone(p) /\ Op(p)' = Op(p) /\ Mode(p)' = Mode(p)
  BY <1>1 DEF Alone, Op, Mode
<1>3. \A f \in DOMAIN data : f \notin Cut' => Extends(data[f], data'[f])
  BY SMTT(40), <1>1, DataTypes DEF FInv, Extends
<1>4. \A r \in Procs \ {p} : OpensOf(r)' /\ ReadsOf(r)'
  BY <1>0, <1>1, <1>2, <1>3, OthersData
<1>5. Op(p) \in {"open", "load"} => fd[p] = 0 /\ n[p] = 0 /\ got[p] = <<>>
  BY DEF DInv, OpensOf
<1>6. OpensOf(p)'
  BY <1>1, <1>2, <1>5 DEF OpensOf, Appends
<1>7. ReadsOf(p)'
  <2>1. SUFFICES ASSUME Reads(p), fd'[p] # 0
                 PROVE  /\ n[p] <= Len(data'[fd'[p]]) /\ size'[p] <= Len(data'[fd'[p]])
                        /\ got[p] = Upto(data'[fd'[p]], n[p])
                        /\ at'[p] = "returned" => n[p] >= size'[p]
    BY <1>2 DEF ReadsOf, Reads
  <2>2. ~Creates(mode) /\ at'[p] # "returned" /\ n[p] = 0 /\ got[p] = <<>> /\ fd[p] = 0
    BY <1>1, <1>5, <2>1 DEF Reads, Creates
  <2>3. fd'[p] \in DOMAIN data /\ data' = data /\ size'[p] = Len(data[fd'[p]])
    BY <1>1, <2>1, <2>2
  <2>4. data[fd'[p]] \in Seq(Byte) /\ Len(data[fd'[p]]) \in Nat
    BY <2>3, DataTypes DEF FInv
  <2>5. Upto(data[fd'[p]], 0) = <<>>
    BY <2>4 DEF Upto
  <2> QED BY <2>2, <2>3, <2>4, <2>5
<1>8. ASSUME NEW f \in DOMAIN data', f \notin anew'
      PROVE  BytesOf(f)'
  <2>1. \A q \in Procs : Appends(q)' = Appends(q)
    BY DEF Appends, Mode, Op
  <2>4. CASE f \in Cut' /\ data'[f] = <<>>
    <3>1. DOMAIN data'[f] = {}
      BY <2>4
    <3> QED BY <2>4, <3>1 DEF BytesOf
  <2>2. CASE f \in DOMAIN data /\ data'[f] = data[f]
    <3>1. f # 0 /\ BytesOf(f) /\ data'[f] = data[f]
      BY <1>1, <1>8, <2>2, DataTypes DEF FInv, DInv
    <3>2. ASSUME NEW q \in Procs, Appends(q)
          PROVE  n'[q] = n[q] /\ (fd'[q] = fd[q] \/ (fd[q] = 0 /\ n[q] = 0))
      BY <1>2, <1>5, <3>2 DEF Appends, Alone
    <3> QED BY <1>0, <3>1, <3>2, BytesSame
  <2>3. CASE f \notin DOMAIN data
    <3>1. data'[f] = <<>> /\ \A q \in Procs \ {p} : fd'[q] # f
      BY <1>1, <1>8, <2>3
    <3>2. Appends(p) => n'[p] = 0
      BY <1>5 DEF Appends
    <3>3. \A q \in Procs : Appends(q)' /\ fd'[q] = f => n'[q] = 0
      BY <2>1, <3>1, <3>2
    <3> QED BY <3>1, <3>3 DEF BytesOf
  <2> QED BY <1>1, <2>2, <2>3, <2>4
<1>9. \A q \in Procs : TouchOf(q)'
  <2>1. \A q \in Procs : at'[q] = "create" => at[q] = "create"
    BY SMTT(40), <1>1
  <2>2. \A q \in Procs : TouchOf(q)
    BY SMTT(40) DEF DInv
  <2> QED BY <1>1, <2>1, <2>2, TouchSame DEF FInv
<1> QED BY <1>1, <1>4, <1>6, <1>7, <1>8, <1>9 DEF DInv

-----------------------------------------------------------------------------
(* A byte appended by p to a file that was not opened anew. *)
LEMMA AppendedBytes ==
  ASSUME FInv, DInv, NEW p \in Procs, at[p] = "write", Appends(p), UNCHANGED <<call, fd, anew, emptied>>,
         BytesOf(fd[p]), n' = [n EXCEPT ![p] = @ + 1],
         data'[fd[p]] = Append(data[fd[p]], <<p, n[p] + 1>>)
  PROVE  BytesOf(fd[p])'
<1> DEFINE f == fd[p]
           old == data[f]
           new == data'[f]
<1>1. /\ f \in DOMAIN data /\ old \in Seq(Byte) /\ Len(old) \in Nat
      /\ n \in [Procs -> Nat] /\ n[p] \in Nat /\ fd[p] # 0
  BY DataTypes DEF FInv, Shape, Numbered, Holding
<1>2. <<p, n[p] + 1>> \in Byte
  BY <1>1 DEF Byte
<1> DEFINE b == <<p, n[p] + 1>>
<1> HIDE DEF b
<1>3. /\ DOMAIN new = 1..Len(old) + 1 /\ DOMAIN old = 1..Len(old)
      /\ \A j \in DOMAIN old : new[j] = old[j]
      /\ new[Len(old) + 1] = <<p, n[p] + 1>>
  <2>1. new = Append(old, b) /\ b \in Byte
    BY <1>2 DEF b
  <2> HIDE DEF old, new
  <2>2. \A j \in 1..Len(old) : Append(old, b)[j] = old[j]
    BY <1>1, <2>1
  <2> QED BY <1>1, <2>1, <2>2 DEF b
<1> HIDE DEF old, new
<1>5. n'[p] = n[p] + 1 /\ \A q \in Procs \ {p} : n'[q] = n[q]
  BY <1>1
<1>6. \A q \in Procs, k \in Nat : k \in 1..n[q] => k \in 1..n'[q]
  BY <1>1, <1>5
<1>7. \A j \in DOMAIN old : old[j][1] \in Procs =>
        Appends(old[j][1]) /\ fd[old[j][1]] = f /\ old[j][2] \in 1..n[old[j][1]] /\ old[j][2] \in Nat
  BY DEF BytesOf, old
<1>8. ASSUME NEW j \in DOMAIN new, new[j][1] \in Procs
      PROVE  Appends(new[j][1]) /\ fd[new[j][1]] = f /\ new[j][2] \in 1..n'[new[j][1]]
  <2>1. CASE j \in DOMAIN old
    <3>1. new[j] = old[j] /\ old[j][1] \in Procs
      BY <1>3, <1>8, <2>1
    <3> QED BY <1>6, <1>7, <2>1, <3>1
  <2>2. CASE j = Len(old) + 1
    <3>1. new[j] = <<p, n[p] + 1>>
      BY <1>3, <2>2
    <3>2. n[p] + 1 \in 1..n'[p]
      BY <1>1, <1>5
    <3> QED BY <3>1, <3>2
  <2> QED BY <1>1, <1>3, <2>1, <2>2
<1>9. ASSUME NEW q \in Procs, Appends(q), fd[q] = f, NEW k \in 1..n'[q],
             f \notin Cut \/ \E i \in DOMAIN new : new[i][1] = q /\ new[i][2] <= k
      PROVE  \E j \in DOMAIN new : new[j] = <<q, k>>
  <2>1. CASE k \in 1..n[q]
    <3>3. f \notin Cut \/ \E i \in DOMAIN old : old[i][1] = q /\ old[i][2] <= k
      <4>1. ASSUME NEW i \in DOMAIN new, new[i][1] = q, new[i][2] <= k
            PROVE  i \in DOMAIN old /\ new[i] = old[i]
        <5>1. i # Len(old) + 1
          <6>1. SUFFICES ASSUME i = Len(old) + 1
                         PROVE  FALSE
            OBVIOUS
          <6>2. q = p /\ n[p] + 1 <= k
            BY <1>3, <4>1, <6>1
          <6> QED BY <1>1, <2>1, <6>2
        <5> QED BY <1>1, <1>3, <5>1
      <4> QED BY <1>9, <4>1
    <3>1. PICK j \in DOMAIN old : old[j] = <<q, k>>
      BY <1>9, <2>1, <3>3 DEF BytesOf, old
    <3>2. j \in DOMAIN new /\ new[j] = old[j]
      BY <1>1, <1>3, <3>1
    <3> QED BY <3>1, <3>2
  <2>2. CASE k \notin 1..n[q]
    <3>1. q = p /\ k = n[p] + 1
      BY <1>1, <1>5, <1>9, <2>2
    <3> QED BY SMTT(40), <1>1, <1>3, <3>1
  <2> QED BY <2>1, <2>2
<1>10. ASSUME NEW i \in DOMAIN new, NEW j \in DOMAIN new, i < j, new[i][1] = new[j][1], new[i][1] \in Procs
       PROVE  new[i][2] < new[j][2]
  <2>1. i \in DOMAIN old
    BY <1>1, <1>3, <1>10
  <2>2. CASE j \in DOMAIN old
    BY <1>3, <1>10, <2>1, <2>2 DEF BytesOf, old
  <2>3. CASE j = Len(old) + 1
    <3>1. old[i][1] = p /\ old[i][2] \in 1..n[p]
      BY <1>3, <1>7, <1>10, <2>1, <2>3
    <3> QED BY <1>1, <1>3, <2>1, <2>3, <3>1
  <2> QED BY <1>1, <1>3, <2>2, <2>3
<1>11. /\ \A j \in DOMAIN new : new[j][1] \in Procs =>
             Appends(new[j][1]) /\ fd[new[j][1]] = f /\ new[j][2] \in 1..n'[new[j][1]]
       /\ \A q \in Procs : Appends(q) /\ fd[q] = f =>
            \A k \in 1..n'[q] :
              f \notin Cut \/ (\E i \in DOMAIN new : new[i][1] = q /\ new[i][2] <= k) =>
                \E j \in DOMAIN new : new[j] = <<q, k>>
       /\ \A i, j \in DOMAIN new :
            i < j /\ new[i][1] = new[j][1] /\ new[i][1] \in Procs => new[i][2] < new[j][2]
  BY <1>8, <1>9, <1>10
<1>12. Cut' = Cut
  BY DEF Cut
<1> QED BY <1>11, <1>12 DEF BytesOf, new, Appends, Mode, Op

LEMMA WriteData ==
  ASSUME FInv, DInv, Shape', NEW p \in Procs, writeInto(p)
  PROVE  DInv'
<1>1. /\ at[p] = "write" /\ UNCHANGED <<tree, call, fd, size, got, removed, known, anew, emptied>>
      /\ Op(p) = "open" /\ Creates(Mode(p)) /\ ("a" \in Mode(p) \/ fd[p] \in anew)
  BY DEF writeInto, history, FInv, ControlOf, DInv, OpensOf
<1>0. Cut' = Cut /\ anew \subseteq Cut
  BY <1>1 DEF Cut
<1>2. /\ data \in Seq(Seq(Byte)) /\ fd[p] \in DOMAIN data /\ at \in [Procs -> Steps] /\ n \in [Procs -> Nat]
      /\ \A f \in DOMAIN data : data[f] \in Seq(Byte)
  BY <1>1, DataTypes DEF FInv, Shape, Numbered, Holding
<1>3. CASE n[p] = Texts
  <2>1. UNCHANGED <<data, n>> /\ Goes(p, "returned")
    BY <1>3 DEF writeInto
  <2>2. Alone(p) /\ at'[p] = "returned"
    BY <1>1, <1>2, <2>1 DEF Alone, Goes
  <2>3. \A f \in DOMAIN data : Extends(data[f], data'[f])
    BY <2>1, DataTypes DEF FInv, Extends
  <2>4. OpensOf(p)' /\ ReadsOf(p)'
    BY <1>1, <2>1, <2>2 DEF OpensOf, ReadsOf, Reads, Appends, Op, Mode, DInv
  <2>5. \A f \in DOMAIN data' : f \notin anew' => BytesOf(f)'
    <3>1. ASSUME NEW f \in DOMAIN data', f \notin anew'
          PROVE  BytesOf(f)'
      <4>1. f # 0 /\ BytesOf(f)
        BY <1>1, <2>1, <3>1, DataTypes DEF FInv, DInv
      <4> QED BY <1>0, <1>1, <2>1, <4>1, BytesSame
    <3> QED BY <3>1
  <2>6. \A q \in Procs : TouchOf(q)'
    BY <1>1, <2>1, <2>2, MovedStays DEF DInv, TouchOf, Alone, Path
  <2>7. \A q \in Procs : at'[q] = at[q] \/ at'[q] = "returned"
    BY <2>2 DEF Alone
  <2>8. Noted'
    BY <1>1, <2>1, <2>2, <2>7, NotedStays DEF Alone
  <2> QED BY <1>0, <1>1, <2>2, <2>3, <2>4, <2>5, <2>6, <2>8, OthersData DEF DInv
<1>4. CASE n[p] # Texts
  <2> DEFINE f0 == fd[p]
             b == <<p, n[p] + 1>>
  <2>1. /\ n' = [n EXCEPT ![p] = @ + 1] /\ UNCHANGED at
        /\ data' = IF ~Writes(Mode(p)) THEN data
                   ELSE IF "a" \in Mode(p) THEN [data EXCEPT ![f0] = Append(@, b)]
                   ELSE [data EXCEPT ![f0] = Put(@, n[p], b)]
    BY <1>4 DEF writeInto, Mode
  <2>2. Alone(p)
    BY <1>1, <1>2, <2>1 DEF Alone
  <2>3. /\ \A f \in DOMAIN data : f # f0 => data'[f] = data[f]
        /\ Appends(p) => data'[f0] = Append(data[f0], b)
        /\ ~Appends(p) => data' = data \/ f0 \in anew
    BY <1>1, <1>2, <2>1 DEF Appends
  <2>4. DOMAIN data' = DOMAIN data /\ Len(data') = Len(data)
    <3>1. b \in Byte
      BY <1>2 DEF Byte
    <3>2. Append(data[f0], b) \in Seq(Byte) /\ Put(data[f0], n[p], b) \in Seq(Byte)
      <4> HIDE DEF b
      <4>1. data[f0] \in Seq(Byte) /\ n[p] \in Nat
        BY <1>2
      <4> QED BY SMTT(40), <3>1, <4>1, PutIsBytes
    <3>3. ASSUME NEW x \in Seq(Byte)
          PROVE  Len([data EXCEPT ![f0] = x]) = Len(data)
      BY ONLY <1>2, <3>3, ExceptSeq
    <3>4. Len(data') = Len(data) /\ data' \in Seq(Seq(Byte))
      BY <2>1, <3>2, <3>3 DEF Shape, Typed, Byte
    <3> QED BY <1>2, <3>4
  <2>5. ASSUME NEW f \in DOMAIN data, f \notin Cut'
        PROVE  Extends(data[f], data'[f])
    <3>1. data[f] \in Seq(Byte) /\ Len(data[f]) \in Nat
      BY <1>2
    <3>2. CASE data'[f] = data[f]
      BY <3>1, <3>2 DEF Extends
    <3>3. CASE f = f0 /\ data'[f] = Append(data[f0], b)
      <4>1. Len(data'[f]) = Len(data[f]) + 1 /\ \A i \in 1..Len(data[f]) : data'[f][i] = data[f][i]
        BY <3>1, <3>3
      <4> QED BY <3>1, <4>1 DEF Extends
    <3> QED BY <1>0, <1>1, <2>3, <2>5, <3>2, <3>3
  <2>6. OpensOf(p)' /\ ReadsOf(p)'
    BY SMTT(40), <1>1, <1>2, <2>1, DataTypes DEF OpensOf, ReadsOf, Reads, Appends, Op, Mode, DInv, FInv
  <2>7. ASSUME NEW f \in DOMAIN data', f \notin anew'
        PROVE  BytesOf(f)'
    <3>1. f # 0 /\ BytesOf(f) /\ f \in DOMAIN data
      BY SMTT(40), <1>1, <2>4, <2>7, DataTypes DEF FInv, DInv
    <3>2. CASE f = f0 /\ Appends(p)
      BY <1>1, <2>1, <2>3, <3>1, <3>2, AppendedBytes
    <3>3. CASE f # f0 /\ Appends(p)
      <4>1. \A q \in Procs : Appends(q)' = Appends(q)
        BY <1>1 DEF Appends, Mode, Op
      <4>2. /\ data'[f] = data[f]
            /\ \A q \in Procs : fd[q] = f => n'[q] = n[q]
        BY <1>2, <2>1, <2>3, <3>1, <3>3
      <4> QED BY <1>0, <1>1, <3>1, <4>1, <4>2 DEF BytesOf
    <3>4. CASE ~Appends(p)
      <4>1. data'[f] = data[f]
        BY <1>1, <2>3, <2>7, <3>1, <3>4
      <4> QED BY <1>0, <1>1, <2>2, <3>1, <3>4, <4>1, BytesSame DEF Alone
    <3> QED BY SMTT(40), <3>2, <3>3, <3>4
  <2>8. \A q \in Procs : TouchOf(q)'
    BY <1>1, <2>1, <2>4 DEF DInv, TouchOf, Path, Moved, Op
  <2>9. Noted'
    BY <1>1, <2>1, <2>4, NotedStays
  <2> QED BY <1>0, <1>1, <2>2, <2>5, <2>6, <2>7, <2>8, <2>9, OthersData DEF DInv
<1> QED BY <1>3, <1>4

(* readInto() and fread(): a byte more, or the end. *)
LEMMA ReadData ==
  ASSUME FInv, DInv, Shape', NEW p \in Procs, readInto(p) \/ fread(p)
  PROVE  DInv'
<1>1. /\ at[p] \in {"read", "load"} /\ UNCHANGED <<tree, data, call, fd, size, removed, known, anew, emptied>>
      /\ Op(p) \in {"open", "load"} /\ Reads(p) /\ ~Appends(p)
  BY DEF readInto, fread, files, history, FInv, ControlOf, DInv, OpensOf, Reads, Appends, Writes
<1>0. Cut' = Cut
  BY <1>1 DEF Cut
<1>2. /\ at \in [Procs -> Steps] /\ n \in [Procs -> Nat] /\ got \in [Procs -> Seq(Byte)]
      /\ size \in [Procs -> Nat] /\ n[p] \in Nat /\ size[p] \in Nat
      /\ fd[p] # 0 => data[fd[p]] \in Seq(Byte) /\ Len(data[fd[p]]) \in Nat
  BY DataTypes DEF FInv
<1>3. \/ ToRead(p) /\ ReadByte(p) /\ UNCHANGED at
      \/ /\ Goes(p, "returned") /\ UNCHANGED <<got, n>>
         /\ fd[p] # 0 /\ fd[p] \notin Cut => n[p] >= size[p]
  <2>1. CASE readInto(p)
    BY <1>2, <2>1 DEF readInto, ToRead, DInv, ReadsOf, Reads, FInv, ControlOf, OpensOf
  <2>2. CASE fread(p)
    BY <2>2 DEF fread
  <2> QED BY <2>1, <2>2
<1>4. Alone(p) /\ at'[p] \in {at[p], "returned"}
  BY <1>1, <1>2, <1>3 DEF Alone, ReadByte, Goes
<1>5. \A f \in DOMAIN data : Extends(data[f], data'[f])
  BY <1>1, DataTypes DEF FInv, Extends
<1>6. OpensOf(p)'
  BY <1>1, <1>4 DEF OpensOf, Appends, Op, Mode, DInv
<1>7. ReadsOf(p)'
  <2>1. SUFFICES ASSUME fd[p] # 0, fd[p] \notin Cut
                 PROVE  /\ n'[p] <= Len(data[fd[p]]) /\ size[p] <= Len(data[fd[p]])
                        /\ got'[p] = Upto(data[fd[p]], n'[p])
                        /\ at'[p] = "returned" => n'[p] >= size[p]
    BY <1>0, <1>1 DEF ReadsOf, Reads, Op, Mode
  <2>2. /\ n[p] <= Len(data[fd[p]]) /\ size[p] <= Len(data[fd[p]])
        /\ got[p] = Upto(data[fd[p]], n[p])
    BY <1>1, <2>1 DEF DInv, ReadsOf
  <2>3. CASE ToRead(p) /\ ReadByte(p) /\ UNCHANGED at
    <3>1. /\ n'[p] = n[p] + 1 /\ got'[p] = Append(got[p], data[fd[p]][n[p] + 1])
          /\ n[p] < Len(data[fd[p]])
      BY <1>2, <2>3 DEF ReadByte, ToRead
    <3>2. Append(Upto(data[fd[p]], n[p]), data[fd[p]][n[p] + 1]) = Upto(data[fd[p]], n[p] + 1)
      BY <1>2, <2>1, <3>1, OneMore
    <3> QED BY <1>1, <1>2, <2>1, <2>2, <2>3, <3>1, <3>2
  <2>4. CASE Goes(p, "returned") /\ UNCHANGED <<got, n>> /\ n[p] >= size[p]
    BY <1>1, <1>2, <2>2, <2>4 DEF Goes
  <2> QED BY <1>3, <2>1, <2>3, <2>4
<1>8. ASSUME NEW f \in DOMAIN data', f \notin anew'
      PROVE  BytesOf(f)'
  <2>1. f # 0 /\ BytesOf(f)
    BY <1>1, <1>8, DataTypes DEF FInv, DInv
  <2> QED BY <1>0, <1>1, <1>4, <2>1, BytesSame DEF Alone
<1>9. \A q \in Procs : TouchOf(q)'
  BY <1>1, <1>4, MovedStays DEF DInv, TouchOf, Alone, Path
<1>10. Noted'
  BY <1>1, <1>4, NotedStays DEF Alone
<1> QED BY <1>0, <1>10, <1>1, <1>4, <1>5, <1>6, <1>7, <1>8, <1>9, OthersData DEF DInv

(* ftell(): the file was opened just now. *)
LEMMA MeasureData ==
  ASSUME FInv, DInv, Shape', NEW p \in Procs, ftell(p)
  PROVE  DInv'
<1>1. /\ at[p] = "measure" /\ Op(p) = "load" /\ Goes(p, "load")
      /\ size' = [size EXCEPT ![p] = Len(data[fd[p]])]
      /\ UNCHANGED <<tree, data, call, n, fd, got, removed, known, anew, emptied>>
  BY DEF ftell, files, history, FInv, ControlOf
<1>2. /\ at \in [Procs -> Steps] /\ size \in [Procs -> Nat]
      /\ fd[p] # 0 => data[fd[p]] \in Seq(Byte) /\ Len(data[fd[p]]) \in Nat
  BY DataTypes DEF FInv
<1>3. Alone(p) /\ at'[p] = "load" /\ size'[p] = Len(data[fd[p]])
  BY <1>1, <1>2 DEF Alone, Goes
<1>4. Cut' = Cut /\ \A f \in DOMAIN data : Extends(data[f], data'[f])
  BY <1>1, DataTypes DEF FInv, Extends, Cut
<1>5. OpensOf(p)' /\ ReadsOf(p)'
  BY <1>1, <1>2, <1>3, <1>4 DEF OpensOf, ReadsOf, Reads, Appends, Op, Mode, DInv
<1>6. ASSUME NEW f \in DOMAIN data', f \notin anew'
      PROVE  BytesOf(f)'
  <2>1. f # 0 /\ BytesOf(f)
    BY <1>1, <1>6, DataTypes DEF FInv, DInv
  <2> QED BY <1>1, <1>4, <2>1, BytesSame
<1>7. \A q \in Procs : TouchOf(q)'
  BY <1>1, <1>3, MovedStays DEF DInv, TouchOf, Alone, Path
<1>8. Noted'
  BY <1>1, <1>3, NotedStays DEF Alone
<1> QED BY <1>1, <1>3, <1>4, <1>5, <1>6, <1>7, <1>8, OthersData DEF DInv

-----------------------------------------------------------------------------
LEMMA StepDInv ==
  ASSUME FInv, DInv, FInv', NEW p \in Procs, Step(p)
  PROVE  DInv'
<1>1. /\ Shape /\ Shape' /\ ControlOf(p) /\ UNCHANGED call /\ at[p] # "returned"
      /\ Path(p) \in Paths /\ Path(p) \in Places
      /\ at \in [Procs -> Steps] /\ n \in [Procs -> Nat] /\ tree \in [Places -> {Nothing, Dir} \cup Nat]
      /\ known \in [Procs -> Nat] /\ Len(data) \in Nat
  BY OwnStep, PathFacts, DataTypes DEF FInv
<1>2. \A q \in Procs : TouchOf(q)
  BY DEF DInv
<1>3. ASSUME Op(p) \notin {"open", "load"}, NEW to \in Steps, Goes(p, to) \/ UNCHANGED at,
             Goes(p, to) => to \notin {"write", "read", "create"}, at[p] \notin {"write", "read"},
             UNCHANGED <<data, call, fd, size, got, anew, emptied, known>>, OthersSame(p),
             Op(p) # "touch" \/ at'[p] \notin {"called", "create"},
             Moved' \/ \A q \in Places : tree'[q] \in {tree[q], Nothing, Dir}
      PROVE  DInv'
  <2>1. Alone(p) /\ at'[p] \notin {"write", "read"} /\ \A q \in Procs : at'[q] = "create" => at[q] = "create"
    BY <1>1, <1>3 DEF Alone, OthersSame, Goes
  <2>2. \A q \in Procs : TouchOf(q)'
    BY <1>1, <1>2, <1>3, <2>1, TouchSame, MovedStays DEF OthersSame
  <2>3. Noted'
    BY <1>1, <1>3, NotedStays DEF OthersSame
  <2> QED BY <1>1, <1>3, <2>1, <2>2, <2>3, StillStep
<1>4. OthersSame(p)
  BY <1>1, OwnStep
<1>5. CASE mkdir(p)
  <2>1. \A q \in Places : tree'[q] \in {tree[q], Dir}
    BY <1>1, <1>5 DEF mkdir, Makes
  <2>2. Goes(p, "returned") \/ Goes(p, "thrown")
    BY <1>5 DEF mkdir
  <2> QED BY <1>3, <1>4, <1>5, <2>1, <2>2 DEF mkdir, Steps
<1>6. CASE remove(p)
  <2>1. \A q \in Places : tree'[q] \in {tree[q], Nothing}
    BY <1>1, <1>6 DEF remove
  <2>2. Goes(p, "returned") \/ Goes(p, "thrown")
    BY <1>6 DEF remove
  <2> QED BY <1>3, <1>4, <1>6, <2>1, <2>2 DEF remove, Steps
<1>7. CASE rename(p)
  <2>1. Moved' \/ UNCHANGED tree
    BY <1>1, <1>7 DEF rename, Moved, Goes, Op
  <2>2. Goes(p, "returned") \/ Goes(p, "thrown")
    BY <1>7 DEF rename
  <2> QED BY <1>3, <1>4, <1>7, <2>1, <2>2 DEF rename, Steps
<1>8. CASE mkdirs(p)
  BY <1>3, <1>4, <1>8 DEF mkdirs, files, history, Steps
<1>9. CASE mkdirsMake(p)
  <2>1. \A q \in Places : tree'[q] \in {tree[q], Dir}
    BY <1>1, <1>9 DEF mkdirsMake, Makes
  <2>2. Goes(p, "called") \/ Goes(p, "thrown")
    BY <1>9 DEF mkdirsMake
  <2>3. Op(p) = "mkdirs" /\ at[p] = "make"
    BY <1>1, <1>9 DEF mkdirsMake, ControlOf
  <2> QED BY <1>3, <1>4, <1>9, <2>1, <2>2, <2>3 DEF mkdirsMake, Steps
<1>10. CASE open(p)
  <2> DEFINE next == IF Creates(call[p].mode) THEN "write" ELSE "read"
  <2>1. /\ at[p] = "called" /\ Op(p) = "open" /\ call[p].mode \in Modes /\ next \in Steps
        /\ FileIO(p, call[p].mode, next) /\ UNCHANGED <<call, n, got, removed, known>>
    BY <1>1, <1>10, FilesAssumption DEF open, Op, Steps, Shape, Typed
  <2> QED BY <1>1, <2>1, OpeningStepData DEF Mode
<1>11. CASE touchWrite(p)
  <2>1. /\ at[p] = "create" /\ {"w"} \in Modes /\ FileIO(p, {"w"}, "stamp")
        /\ UNCHANGED <<call, n, got, removed, known>> /\ "stamp" \in Steps /\ Op(p) = "touch"
    BY <1>1, <1>11 DEF touchWrite, Modes, Steps, ControlOf
  <2> QED BY <1>1, <2>1, OpeningStepData
<1>12. CASE ReadFile(p)
  <2>1. /\ at[p] = "called" /\ Op(p) = "load" /\ {"r"} \in Modes /\ FileIO(p, {"r"}, "measure")
        /\ UNCHANGED <<call, n, got, removed, known>> /\ "measure" \in Steps
    BY <1>1, <1>12 DEF ReadFile, Modes, Steps
  <2> QED BY <1>1, <2>1, OpeningStepData
<1>13. CASE writeInto(p)
  BY <1>1, <1>13, WriteData
<1>14. CASE readInto(p) \/ fread(p)
  BY <1>1, <1>14, ReadData
<1>15. CASE touch(p)
  <2>1. /\ at[p] = "called" /\ Op(p) = "touch" /\ UNCHANGED <<tree, data, call, fd, size, got, anew, emptied, n, removed>>
        /\ at'[p] = IF exists(Path(p)) THEN "stamp" ELSE "create"
        /\ known' = [known EXCEPT ![p] = Len(data)]
    BY <1>1, <1>15 DEF touch, Goes, files
  <2>2. \A q \in Procs : TouchOf(q)'
    <3>1. known'[p] = Len(data) /\ \A q \in Procs \ {p} : known'[q] = known[q] /\ at'[q] = at[q]
      BY <1>1, <1>4, <2>1 DEF OthersSame
    <3>2. at'[p] = "create" => tree[Path(p)] = Nothing
      BY <2>1 DEF exists
    <3>3. TouchOf(p)'
      <4>1. Path(p)' = Path(p) /\ data' = data /\ tree' = tree /\ Len(data) \in Nat
        BY <1>1, <2>1 DEF Path
      <4>2. known'[p] <= Len(data)
        BY <3>1, <4>1
      <4> QED BY <3>2, <4>1, <4>2 DEF TouchOf
    <3>4. \A q \in Procs \ {p} : TouchOf(q)'
      BY <1>1, <1>2, <2>1, <3>1, MovedStays DEF TouchOf, Path
    <3> QED BY <3>3, <3>4
  <2>3. Noted'
    <3>1. \A x \in emptied : NotedOf(x) /\ x[1] # p
      BY <2>1 DEF DInv, Noted, NotedOf
    <3>2. Moved => Moved'
      BY <1>1, <1>4, MovedStays DEF OthersSame
    <3>3. \A x \in emptied : known'[x[1]] = known[x[1]] /\ at'[x[1]] = at[x[1]]
      BY <1>1, <1>4, <2>1, <3>1 DEF OthersSame, NotedOf
    <3>4. \A x \in emptied : NotedOf(x)'
      BY <1>1, <2>1, <3>1, <3>2, <3>3, NotedKept
    <3> QED BY <2>1, <3>4 DEF DInv, Noted
  <2> QED BY <1>1, <1>4, <2>1, <2>2, <2>3, StillStep DEF Alone, OthersSame
<1>16. CASE touchImpl(p)
  <2>1. at[p] = "stamp" /\ Op(p) = "touch"
    BY <1>1, <1>16 DEF touchImpl, ControlOf
  <2>2. Goes(p, "returned") \/ Goes(p, "thrown")
    BY <1>16 DEF touchImpl
  <2>3. at'[p] \in {"returned", "thrown"}
    BY <1>1, <2>2 DEF Goes
  <2> QED BY <1>3, <1>4, <1>16, <2>1, <2>2, <2>3 DEF touchImpl, files, history, Steps
<1>17. CASE ftell(p)
  BY <1>1, <1>17, MeasureData
<1> QED BY <1>5, <1>6, <1>7, <1>8, <1>9, <1>10, <1>11, <1>12, <1>13, <1>14, <1>15, <1>16, <1>17 DEF Step

LEMMA InitDInv == Init => DInv
<1> SUFFICES ASSUME Init
             PROVE  DInv
  OBVIOUS
<1>1. Shape
  BY InitFInv DEF FInv
<1>2. /\ at = [p \in Procs |-> "called"] /\ n = [p \in Procs |-> 0] /\ fd = [p \in Procs |-> 0]
      /\ got = [p \in Procs |-> <<>>] /\ known = [p \in Procs |-> 0]
      /\ anew = {} /\ emptied = {}
      /\ data = <<>> \/ data = << << <<NoProc, 1>> >> >>
  BY DEF Init
<1>3. Len(data) \in Nat
  BY <1>1, DataTypes
<1>4. ASSUME NEW p \in Procs
      PROVE  OpensOf(p) /\ TouchOf(p) /\ ReadsOf(p)
  <2>1. at[p] = "called" /\ n[p] = 0 /\ fd[p] = 0 /\ got[p] = <<>> /\ known[p] = 0
    BY <1>2
  <2> QED BY <1>3, <2>1 DEF OpensOf, TouchOf, ReadsOf
<1>5. ASSUME NEW f \in DOMAIN data
      PROVE  BytesOf(f)
  <2>1. data[f] = << <<NoProc, 1>> >>
    BY <1>2, <1>5
  <2>2. \A j \in DOMAIN data[f] : data[f][j][1] \notin Procs
    BY <2>1, FilesAssumption
  <2>3. \A p \in Procs : n[p] = 0
    BY <1>2
  <2> QED BY <2>2, <2>3 DEF BytesOf
<1> QED BY <1>2, <1>4, <1>5 DEF DInv, Noted

(* Between any two system calls the files that nobody emptied hold what    *)
(* was appended to them, and every reader has a beginning of its file.     *)
THEOREM BytesConsistent == Spec => [](FInv /\ DInv)
<1>1. ASSUME FInv, DInv, UNCHANGED vars
      PROVE  DInv'
  BY <1>1 DEF vars, files, local, history, DInv, OpensOf, TouchOf, BytesOf, ReadsOf, Reads, Appends,
              Mode, Op, Path, Noted, NotedOf, Moved, Cut
<1>2. FInv /\ DInv /\ [Next]_vars => (FInv /\ DInv)'
  <2>1. FInv /\ [Next]_vars => FInv'
    BY NextFInv
  <2> QED BY <1>1, <2>1, StepDInv DEF Next
<1> QED BY <1>2, InitFInv, InitDInv, PTL DEF Spec

(* Of the files not opened anew, touch() has emptied only those it could   *)
(* not have seen.                                                          *)
LEMMA NotRaced ==
  ASSUME DInv, NEW f, f \notin anew, ~TouchRaced(f), FInv
  PROVE  f \notin Cut
<1>1. ASSUME NEW x \in emptied, x[2] = f
      PROVE  FALSE
  <2>1. NotedOf(x) /\ x = <<x[1], x[2]>>
    BY <1>1 DEF DInv, Noted, FInv, Shape, Typed
  <2>2. x[1] \in Procs /\ <<x[1], f>> \in emptied /\ (f > known[x[1]] \/ Moved)
    BY <1>1, <2>1 DEF NotedOf
  <2> QED BY <2>2 DEF TouchRaced
<1> QED BY <1>1 DEF Cut

(* The types of Files.                                                     *)
THEOREM FilesTypesCorrect == Spec => []TypeOK
<1>1. FInv /\ DInv => TypeOK
  <2> SUFFICES ASSUME FInv, DInv
               PROVE  TypeOK
    OBVIOUS
  <2>1. Typed /\ Numbered
    BY DEF FInv, Shape
  <2>2. \A p \in Procs : call[p].op = "mkdirs" => n[p] <= Len(call[p].path)
    BY DEF FInv, ControlOf, Op, Path
  <2>3. tree \in [Places -> {Nothing, Dir} \cup 1..Len(data)] /\ fd \in [Procs -> 0..Len(data)]
    BY <2>1 DEF Typed, Numbered
  <2>4. DOMAIN data = 1..Len(data)
    BY DataTypes DEF FInv
  <2>5. anew \subseteq 1..Len(data)
    BY <2>4 DEF DInv, Noted
  <2>6. emptied \subseteq Procs \X (1..Len(data))
    BY <2>1, <2>4 DEF Typed, DInv, Noted, NotedOf
  <2> QED BY <2>1, <2>2, <2>3, <2>5, <2>6, Zenon DEF TypeOK, Typed, Steps
<1> QED BY <1>1, BytesConsistent, PTL

(* What a call appends stays in its order, whatever the others append,     *)
(* rename or remove: all of it, unless a touch() that had looked too early *)
(* emptied the file; then an end of it.                                    *)
THEOREM AppendedStays == Spec => []AppendKept
<1>1. FInv /\ DInv => AppendKept
  <2> SUFFICES ASSUME FInv, DInv, NEW p \in Procs, Op(p) = "open", Writes(Mode(p)), "a" \in Mode(p),
                      n[p] > 0, fd[p] \notin anew
               PROVE  LET mine == MineIn(p)
                          kept == {x[2] : x \in mine} IN
                      /\ kept \subseteq 1..n[p] /\ \A k \in kept : k..n[p] \subseteq kept
                      /\ \A x, y \in mine : x[1] < y[1] => x[2] < y[2]
                      /\ ~TouchRaced(fd[p]) => kept = 1..n[p]
    BY DEF AppendKept, Mode
  <2> DEFINE kept == {x[2] : x \in MineIn(p)}
  <2>1. Appends(p)
    BY DEF Appends
  <2>2. fd[p] \in DOMAIN data /\ n[p] \in Nat
    BY <2>1, DataTypes DEF FInv, DInv, OpensOf
  <2>3. BytesOf(fd[p])
    BY <2>2 DEF DInv
  <2>4. \A x \in MineIn(p) : /\ x[1] \in DOMAIN data[fd[p]] /\ data[fd[p]][x[1]][1] = p
                             /\ x[2] = data[fd[p]][x[1]][2]
    BY DEF MineIn
  <2>5. kept \subseteq 1..n[p]
    BY <2>3, <2>4 DEF BytesOf
  <2>6. ASSUME NEW k \in 1..n[p],
               fd[p] \notin Cut \/ \E i \in DOMAIN data[fd[p]] :
                                     data[fd[p]][i][1] = p /\ data[fd[p]][i][2] <= k
        PROVE  k \in kept
    <3>1. PICK j \in DOMAIN data[fd[p]] : data[fd[p]][j] = <<p, k>>
      BY <2>1, <2>3, <2>6 DEF BytesOf
    <3>2. <<j, k>> \in MineIn(p)
      BY <3>1 DEF MineIn
    <3> QED BY <3>2
  <2>7. \A x, y \in MineIn(p) : x[1] < y[1] => x[2] < y[2]
    BY <2>3, <2>4 DEF BytesOf
  <2>8. ASSUME NEW m \in kept, NEW k \in m..n[p]
        PROVE  k \in kept
    <3>1. PICK x \in MineIn(p) : x[2] = m
      OBVIOUS
    <3>2. m \in 1..n[p]
      BY <2>5
    <3>3. k \in 1..n[p] /\ m <= k
      BY <2>2, <3>2
    <3>4. /\ x[1] \in DOMAIN data[fd[p]] /\ data[fd[p]][x[1]][1] = p /\ data[fd[p]][x[1]][2] <= k
      BY <2>4, <3>1, <3>3
    <3> QED BY <2>6, <3>3, <3>4
  <2>9. ~TouchRaced(fd[p]) => fd[p] \notin Cut
    BY NotRaced
  <2>10. ~TouchRaced(fd[p]) => kept = 1..n[p]
    BY <2>5, <2>6, <2>9
  <2> QED BY <2>5, <2>7, <2>8, <2>10
<1> QED BY <1>1, BytesConsistent, PTL

(* read() and ReadFile() give a beginning of the file, and at least what   *)
(* was in it when it was opened, however many bytes the calls take.        *)
THEOREM ReadIsPrefix == Spec => []ReadPrefix
<1>1. FInv /\ DInv => ReadPrefix
  <2> SUFFICES ASSUME FInv, DInv, NEW p \in Procs, Reads(p), fd[p] # 0, fd[p] \notin anew, ~TouchRaced(fd[p])
               PROVE  /\ Len(got[p]) <= Len(data[fd[p]])
                      /\ got[p] = Upto(data[fd[p]], Len(got[p]))
                      /\ at[p] = "returned" => Len(got[p]) >= size[p]
    BY DEF ReadPrefix, Reads, Mode
  <2>1. /\ n[p] <= Len(data[fd[p]]) /\ got[p] = Upto(data[fd[p]], n[p])
        /\ at[p] = "returned" => n[p] >= size[p]
    BY NotRaced DEF DInv, ReadsOf
  <2>2. data[fd[p]] \in Seq(Byte) /\ n[p] \in Nat
    BY DataTypes DEF FInv
  <2>3. Len(got[p]) = n[p]
    BY <2>1, <2>2 DEF Upto
  <2> QED BY <2>1, <2>3
<1> QED BY <1>1, BytesConsistent, PTL
=============================================================================
