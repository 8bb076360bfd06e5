------------------------------- MODULE Files -------------------------------
(***************************************************************************)
(* The file engine (file-engine.cc, file-engine.js), and ReadFile() of     *)
(* narwhal.c, over a file system that several processes change.  Each of   *)
(* Procs is one call, made by a process of its own; every system call of   *)
(* it is a step.                                                           *)
(*                                                                         *)
(* A path is a sequence of names.  tree says what is at each path: Nothing, *)
(* Dir or the number of a file, whose bytes are in data.  Files are         *)
(* numbered in the order they are made.                                    *)
(***************************************************************************)
EXTENDS Naturals, Sequences

CONSTANTS Procs,      \* the calls
          NoProc,
          Paths,      \* the paths that can be made
          Calls,      \* what may be called: records with op and path
          Scripts,    \* which calls may be made together
          Texts,      \* how many bytes a writer writes
          Nothing, Dir

Root == <<>>
Places == Paths \cup {Root}
Parent(path) == SubSeq(path, 1, Len(path) - 1)
Upto(path, k) == SubSeq(path, 1, k)
Under(path, top) == Len(path) >= Len(top) /\ Upto(path, Len(top)) = top
Below(path, top) == Under(path, top) /\ path # top

Modes == SUBSET {"r", "w", "a", "+"}

ASSUME FilesAssumption ==
  /\ Scripts \subseteq [Procs -> Calls]
  /\ NoProc \notin Procs
  /\ Paths \subseteq {path \in Seq(STRING) : Len(path) > 0}
  /\ \A path \in Paths : \A k \in 1..Len(path) : Upto(path, k) \in Paths
  /\ Texts \in Nat
  /\ Nothing \notin Nat /\ Dir \notin Nat /\ Nothing # Dir
  /\ \A c \in Calls : /\ c.path \in Paths
                      /\ c.op = "rename" => c.target \in Paths
                      /\ c.op = "open" => c.mode \in Modes

VARIABLES
  tree,       \* what is at each of Places
  data,       \* the bytes of each file: <<writer, which>>
  call,       \* the call each of Procs makes
  at,         \* where each is in it
  n,          \* mkdirs: components done with; else: the offset of the next byte
  fd,         \* the file opened, or 0 for a directory
  size,       \* its size when it was opened, or measured
  got,        \* the bytes read
  last,       \* who was the last to make a file or directory
  removed,    \* the paths from which something was removed
  known,      \* how many files there were when touch() looked
  anew,       \* the files opened to be written from their beginning
  emptied     \* who emptied a file by touch(), and which

files == <<tree, data>>
local == <<at, n, fd, size, got>>
history == <<last, removed, known, anew, emptied>>
vars == <<files, call, local, history>>

TypeOK ==
  /\ tree \in [Places -> {Nothing, Dir} \cup 1..Len(data)]
  /\ data \in Seq(Seq((Procs \cup {NoProc}) \X Nat))
  /\ call \in [Procs -> Calls]
  /\ at \in [Procs -> {"called", "make", "create", "stamp", "write", "read", "measure",
                       "load", "returned", "thrown"}]
  /\ n \in [Procs -> Nat] /\ fd \in [Procs -> 0..Len(data)] /\ size \in [Procs -> Nat]
  /\ \A p \in Procs : call[p].op = "mkdirs" => n[p] <= Len(call[p].path)
  /\ got \in [Procs -> Seq((Procs \cup {NoProc}) \X Nat)]
  /\ last \in Procs \cup {NoProc}
  /\ removed \subseteq Paths /\ known \in [Procs -> Nat]
  /\ anew \subseteq 1..Len(data) /\ emptied \subseteq Procs \X (1..Len(data))

(* At first there is nothing, or one file.                                 *)
Init ==
  /\ \E old \in {path \in Places : Len(path) <= 1} :
       /\ tree = [path \in Places |-> IF path = Root THEN Dir ELSE IF path = old THEN 1 ELSE Nothing]
       /\ data = IF old = Root THEN <<>> ELSE << << <<NoProc, 1>> >> >>
  /\ call \in Scripts
  /\ at = [p \in Procs |-> "called"]
  /\ n = [p \in Procs |-> 0] /\ fd = [p \in Procs |-> 0] /\ size = [p \in Procs |-> 0]
  /\ got = [p \in Procs |-> <<>>]
  /\ last = NoProc /\ removed = {} /\ known = [p \in Procs |-> 0]
  /\ anew = {} /\ emptied = {}

Op(p) == call[p].op
Path(p) == call[p].path
Goes(p, to) == at' = [at EXCEPT ![p] = to]

-----------------------------------------------------------------------------
(* Single system calls *)

isDirectory(path) == tree[path] = Dir
exists(path) == tree[path] # Nothing
IsFile(path) == exists(path) /\ ~isDirectory(path)
Empty(path) == \A q \in Paths : Below(q, path) => tree[q] = Nothing
CanMake(path) == tree[path] = Nothing /\ isDirectory(Parent(path))
Makes(p, path, what) == tree' = [tree EXCEPT ![path] = what] /\ last' = p

mkdir(p) ==
  /\ at[p] = "called" /\ Op(p) = "mkdir"
  /\ IF CanMake(Path(p))
     THEN Makes(p, Path(p), Dir) /\ Goes(p, "returned")
     ELSE Goes(p, "thrown") /\ UNCHANGED <<tree, last>>
  /\ UNCHANGED <<data, call, n, fd, size, got, removed, known, anew, emptied>>

CanRemove(path) == IsFile(path)
CanRmdir(path) == isDirectory(path) /\ Empty(path)

remove(p) ==
  /\ at[p] = "called" /\ Op(p) \in {"remove", "rmdir"}
  /\ IF IF Op(p) = "remove" THEN CanRemove(Path(p)) ELSE CanRmdir(Path(p))
     THEN /\ tree' = [tree EXCEPT ![Path(p)] = Nothing]
          /\ removed' = removed \cup {Path(p)}
          /\ Goes(p, "returned")
     ELSE Goes(p, "thrown") /\ UNCHANGED <<tree, removed>>
  /\ UNCHANGED <<data, call, n, fd, size, got, last, known, anew, emptied>>

CanRename(source, target) ==
  /\ exists(source) /\ isDirectory(Parent(target)) /\ ~Below(target, source)
  /\ IF isDirectory(source)
     THEN tree[target] = Nothing \/ (isDirectory(target) /\ Empty(target))
     ELSE ~isDirectory(target)
(* What was under source is under target now. *)
Renamed(source, target) ==
  [path \in Places |->
     IF Under(path, target)
     THEN LET from == source \o SubSeq(path, Len(target) + 1, Len(path))
          IN IF from \in Paths THEN tree[from] ELSE Nothing
     ELSE IF Under(path, source) THEN Nothing ELSE tree[path]]

rename(p) ==
  LET target == call[p].target IN
  /\ at[p] = "called" /\ Op(p) = "rename"
  /\ IF CanRename(Path(p), target)
     THEN /\ tree' = Renamed(Path(p), target)
          /\ removed' = removed \cup {path \in Paths : Under(path, Path(p)) \/ Under(path, target)}
          /\ Goes(p, "returned")
     ELSE Goes(p, "thrown") /\ UNCHANGED <<tree, removed>>
  /\ UNCHANGED <<data, call, n, fd, size, got, last, known, anew, emptied>>

-----------------------------------------------------------------------------
(* mkdirs(): asks for each directory on the way, and makes it *)

(* [mutant] Begins with the second component.  [mutant] Ends before the last. *)
(* [mutant] i <= components.length: slice() gives the whole path again.    *)
mkdirs_FromOne(p) ==
  /\ at[p] = "called" /\ Op(p) = "mkdirs"
  /\ IF n[p] = Len(Path(p)) THEN Goes(p, "returned") /\ UNCHANGED n
     ELSE IF n[p] = 0 \/ isDirectory(Upto(Path(p), n[p] + 1))
     THEN n' = [n EXCEPT ![p] = @ + 1] /\ UNCHANGED at
     ELSE Goes(p, "make") /\ UNCHANGED n
  /\ UNCHANGED <<files, call, fd, size, got, history>>

mkdirs_ShortOfLast(p) ==
  /\ at[p] = "called" /\ Op(p) = "mkdirs"
  /\ IF n[p] = Len(Path(p)) - 1 THEN Goes(p, "returned") /\ UNCHANGED n
     ELSE IF isDirectory(Upto(Path(p), n[p] + 1))
     THEN n' = [n EXCEPT ![p] = @ + 1] /\ UNCHANGED at
     ELSE Goes(p, "make") /\ UNCHANGED n
  /\ UNCHANGED <<files, call, fd, size, got, history>>

mkdirs_OneMore(p) ==
  LET most == Len(Path(p)) IN
  /\ at[p] = "called" /\ Op(p) = "mkdirs"
  /\ IF n[p] > most THEN Goes(p, "returned") /\ UNCHANGED n
     ELSE IF isDirectory(Upto(Path(p), IF n[p] < most THEN n[p] + 1 ELSE most))
     THEN n' = [n EXCEPT ![p] = @ + 1] /\ UNCHANGED at
     ELSE Goes(p, "make") /\ UNCHANGED n
  /\ UNCHANGED <<files, call, fd, size, got, history>>

mkdirs(p) ==
  /\ at[p] = "called" /\ Op(p) = "mkdirs"
  /\ IF n[p] = Len(Path(p)) THEN Goes(p, "returned") /\ UNCHANGED n
     ELSE IF isDirectory(Upto(Path(p), n[p] + 1))
     THEN n' = [n EXCEPT ![p] = @ + 1] /\ UNCHANGED at
     ELSE Goes(p, "make") /\ UNCHANGED n
  /\ UNCHANGED <<files, call, fd, size, got, history>>

(* [mutant] Asks again when it cannot make the directory. *)
mkdirsMake_Retry(p) ==
  LET dir == Upto(Path(p), n[p] + 1) IN
  /\ at[p] = "make" /\ Goes(p, "called")
  /\ IF CanMake(dir)
     THEN Makes(p, dir, Dir) /\ n' = [n EXCEPT ![p] = @ + 1]
     ELSE UNCHANGED <<tree, last, n>>
  /\ UNCHANGED <<data, call, fd, size, got, removed, known, anew, emptied>>

mkdirsMake(p) ==
  LET dir == Upto(Path(p), n[p] + 1) IN
  /\ at[p] = "make"
  /\ IF CanMake(dir)
     THEN Makes(p, dir, Dir) /\ n' = [n EXCEPT ![p] = @ + 1] /\ Goes(p, "called")
     ELSE Goes(p, "thrown") /\ UNCHANGED <<tree, last, n>>
  /\ UNCHANGED <<data, call, fd, size, got, removed, known, anew, emptied>>

-----------------------------------------------------------------------------
(* Opening *)

Creates(mode) == "w" \in mode \/ "a" \in mode

Truncates(mode) == Creates(mode) /\ "a" \notin mode

(* O_RDWR | O_WRONLY is the mode that allows neither. *)
Writes(mode) == Creates(mode) /\ ~({"r", "w", "a"} \subseteq mode)
Allowed(mode) == "+" \notin mode /\ mode \cap {"r", "w", "a"} # {}

(* History: open() was asked to write the file from its beginning. *)
Anew(p, mode) == Op(p) = "open" /\ Creates(mode) /\ "a" \notin mode

(* FILE_FileIO: p opens its path and goes on to next. *)
FileIO(p, mode, next) ==
  LET path == Path(p) IN
  \/ /\ Allowed(mode) /\ Creates(mode) /\ CanMake(path)
     /\ data' = Append(data, <<>>)
     /\ Makes(p, path, Len(data) + 1)
     /\ fd' = [fd EXCEPT ![p] = Len(data) + 1]
     /\ anew' = IF Anew(p, mode) THEN anew \cup {Len(data) + 1} ELSE anew
     /\ Goes(p, next) /\ UNCHANGED <<size, emptied>>
  \/ /\ Allowed(mode) /\ IsFile(path)
     /\ fd' = [fd EXCEPT ![p] = tree[path]]
     /\ data' = IF Truncates(mode) THEN [data EXCEPT ![tree[path]] = <<>>] ELSE data
     /\ anew' = IF Anew(p, mode) THEN anew \cup {tree[path]} ELSE anew
     /\ emptied' = IF Op(p) = "touch" THEN emptied \cup {<<p, tree[path]>>} ELSE emptied
     /\ size' = [size EXCEPT ![p] = Len(data'[tree[path]])]
     /\ Goes(p, next) /\ UNCHANGED <<tree, last>>
  \/ /\ Allowed(mode) /\ ~Creates(mode) /\ isDirectory(path)
     /\ Goes(p, next) /\ UNCHANGED <<tree, data, fd, size, last, anew, emptied>>
  \/ /\ ~Allowed(mode) \/ ~(IsFile(path) \/ IF Creates(mode) THEN CanMake(path) ELSE isDirectory(path))
     /\ Goes(p, "thrown") /\ UNCHANGED <<tree, data, fd, size, last, anew, emptied>>

open(p) ==
  /\ at[p] = "called" /\ Op(p) = "open"
  /\ FileIO(p, call[p].mode, IF Creates(call[p].mode) THEN "write" ELSE "read")
  /\ UNCHANGED <<call, n, got, removed, known>>

(* A byte nobody wrote, behind an old end. *)
Missing == <<NoProc, 0>>

(* The bytes of a file after b was written at offset k. *)
Put(bytes, k, b) ==
  [j \in 1..(IF k < Len(bytes) THEN Len(bytes) ELSE k + 1) |->
     IF j = k + 1 THEN b ELSE IF j <= Len(bytes) THEN bytes[j] ELSE Missing]

(* IO_writeInto, a byte at a time; the IO is closed after the last. *)
writeInto(p) ==
  /\ at[p] = "write"
  /\ IF n[p] = Texts THEN Goes(p, "returned") /\ UNCHANGED <<data, n>>
     ELSE /\ n' = [n EXCEPT ![p] = @ + 1]
          /\ data' = IF ~Writes(call[p].mode) THEN data
                     ELSE IF "a" \in call[p].mode
                     THEN [data EXCEPT ![fd[p]] = Append(@, <<p, n[p] + 1>>)]
                     ELSE [data EXCEPT ![fd[p]] = Put(@, n[p], <<p, n[p] + 1>>)]
          /\ UNCHANGED at
  /\ UNCHANGED <<tree, call, fd, size, got, history>>

ToRead(p) == fd[p] # 0 /\ n[p] < Len(data[fd[p]])
ReadByte(p) ==
  /\ got' = [got EXCEPT ![p] = Append(@, data[fd[p]][n[p] + 1])]
  /\ n' = [n EXCEPT ![p] = @ + 1]

(* IO_readInto, a byte at a time, until nothing comes.  read() from a      *)
(* directory fails, which is taken for its end.                            *)
readInto(p) ==
  /\ at[p] = "read"
  /\ IF ToRead(p) THEN ReadByte(p) /\ UNCHANGED at
     ELSE Goes(p, "returned") /\ UNCHANGED <<got, n>>
  /\ UNCHANGED <<files, call, fd, size, history>>

-----------------------------------------------------------------------------
(* touch(): looks whether there is something, else writes "", then utime() *)

(* [mutant] Does not look. *)
touch_Blind(p) ==
  /\ at[p] = "called" /\ Op(p) = "touch"
  /\ known' = [known EXCEPT ![p] = Len(data)]
  /\ Goes(p, "create")
  /\ UNCHANGED <<files, call, n, fd, size, got, last, removed, anew, emptied>>

touch(p) ==
  /\ at[p] = "called" /\ Op(p) = "touch"
  /\ known' = [known EXCEPT ![p] = Len(data)]
  /\ Goes(p, IF exists(Path(p)) THEN "stamp" ELSE "create")
  /\ UNCHANGED <<files, call, n, fd, size, got, last, removed, anew, emptied>>

touchWrite(p) ==
  /\ at[p] = "create"
  /\ FileIO(p, {"w"}, "stamp")
  /\ UNCHANGED <<call, n, got, removed, known>>

touchImpl(p) ==
  /\ at[p] = "stamp"
  /\ Goes(p, IF exists(Path(p)) THEN "returned" ELSE "thrown")
  /\ UNCHANGED <<files, call, n, fd, size, got, history>>

-----------------------------------------------------------------------------
(* ReadFile() of narwhal.c opens the file, takes its size, and goes on until *)
(* so much has been read: at an earlier end it goes round without progress. *)
(* Not called for a directory here.                                        *)

ReadFile(p) ==
  /\ at[p] = "called" /\ Op(p) = "load" /\ ~isDirectory(Path(p))
  /\ FileIO(p, {"r"}, "measure")
  /\ UNCHANGED <<call, n, got, removed, known>>

(* [mutant] No rewind(). *)
ftell_NoRewind(p) ==
  /\ at[p] = "measure" /\ Goes(p, "load")
  /\ size' = [size EXCEPT ![p] = Len(data[fd[p]])]
  /\ n' = [n EXCEPT ![p] = Len(data[fd[p]])]
  /\ UNCHANGED <<files, call, fd, got, history>>

ftell(p) ==
  /\ at[p] = "measure" /\ Goes(p, "load")
  /\ size' = [size EXCEPT ![p] = Len(data[fd[p]])]
  /\ UNCHANGED <<files, call, n, fd, got, history>>

fread(p) ==
  /\ at[p] = "load"
  /\ \/ n[p] < size[p] /\ ToRead(p) /\ ReadByte(p) /\ UNCHANGED at
     \/ n[p] >= size[p] /\ Goes(p, "returned") /\ UNCHANGED <<got, n>>
  /\ UNCHANGED <<files, call, fd, size, history>>

-----------------------------------------------------------------------------
Step(p) ==
  \/ mkdir(p) \/ remove(p) \/ rename(p)
  \/ mkdirs(p) \/ mkdirsMake(p)
  \/ open(p) \/ writeInto(p) \/ readInto(p)
  \/ touch(p) \/ touchWrite(p) \/ touchImpl(p)
  \/ ReadFile(p) \/ ftell(p) \/ fread(p)

Next == \E p \in Procs : Step(p)
Spec == Init /\ [][Next]_vars

(* Every process runs. *)
FairSpec == Spec /\ \A p \in Procs : WF_vars(Step(p))

-----------------------------------------------------------------------------
Ended(p) == at[p] \in {"returned", "thrown"}

(* Of several calls that race to make directories (or files), the one that *)
(* made something last does not fail unless something was removed: a       *)
(* mkdirs() that finds its directory made between its test and its mkdir() *)
(* has lost to one that goes on.  If nobody made anything, a mkdirs() fails *)
(* only where a file is in the way.                                        *)
SomeoneFinishes ==
  removed = {} =>
    /\ last \in Procs => at[last] # "thrown"
    /\ last = NoProc =>
         \A p \in Procs : Op(p) = "mkdirs" /\ at[p] = "thrown" =>
           \E k \in 1..Len(Path(p)) : IsFile(Upto(Path(p), k))

(* A mkdirs() that has returned has left every directory of its path there, *)
(* and a touch() its file, unless it was removed by someone.               *)
MadeIsThere ==
  \A p \in Procs : at[p] = "returned" =>
    /\ Op(p) = "mkdirs" =>
         \A k \in 1..Len(Path(p)) :
           isDirectory(Upto(Path(p), k)) \/ Upto(Path(p), k) \in removed
    /\ Op(p) = "touch" => exists(Path(p)) \/ Path(p) \in removed

MineIn(p) == {<<j, data[fd[p]][j][2]>> : j \in {j \in DOMAIN data[fd[p]] : data[fd[p]][j][1] = p}}

(* File f was emptied by a touch() that could not have seen it: the file   *)
(* was made after touch() had looked, or rename() put it at the path.      *)
Moved == \E r \in Procs : Op(r) = "rename" /\ at[r] = "returned"
TouchRaced(f) == \E q \in Procs : <<q, f>> \in emptied /\ (f > known[q] \/ Moved)

(* What was appended to a file that nobody opened to write it anew stays in *)
(* it, in the order it was written in, whatever others append: all of it,  *)
(* unless a touch() that had looked too early emptied the file; then what  *)
(* was written last, from some byte to the end.  (A touch() empties no file *)
(* that was there when it looked.)                                         *)
AppendKept ==
  \A p \in Procs : Op(p) = "open" /\ Writes(call[p].mode) /\ "a" \in call[p].mode
                   /\ n[p] > 0 /\ fd[p] \notin anew =>
    LET mine == MineIn(p)
        kept == {x[2] : x \in mine} IN
    /\ kept \subseteq 1..n[p] /\ \A k \in kept : k..n[p] \subseteq kept
    /\ \A x, y \in mine : x[1] < y[1] => x[2] < y[2]
    /\ ~TouchRaced(fd[p]) => kept = 1..n[p]

(* Reading, and ReadFile(), give a beginning of the file, and at least what *)
(* was in it when it was opened (or measured), while others append, rename *)
(* or touch, unless such a touch() emptied it.                             *)
ReadPrefix ==
  \A p \in Procs : Op(p) \in {"open", "load"} /\ (Op(p) = "open" => ~Creates(call[p].mode))
                   /\ fd[p] # 0 /\ fd[p] \notin anew /\ ~TouchRaced(fd[p]) =>
    /\ Len(got[p]) <= Len(data[fd[p]])
    /\ got[p] = Upto(data[fd[p]], Len(got[p]))
    /\ at[p] = "returned" => Len(got[p]) >= size[p]

(* Every call ends, but for a ReadFile() whose file became shorter after   *)
(* its size was taken.                                                     *)
CallsEnd ==
  \A p \in Procs :
    <>(Ended(p) \/ (at[p] = "load" /\ Len(data[fd[p]]) < size[p])
       \/ (Op(p) = "load" /\ isDirectory(Path(p))))
=============================================================================
