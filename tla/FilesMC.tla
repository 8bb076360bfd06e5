------------------------------ MODULE FilesMC ------------------------------
(***************************************************************************)
(* Instances of Files for TLC: the paths /a, /a/b and /c, and the calls.   *)
(***************************************************************************)
EXTENDS Files

A == <<"a">>
AB == <<"a", "b">>
C == <<"c">>
ThreePaths == {A, AB, C}

On(op, path) == [op |-> op, path |-> path]
Open(path, mode) == [op |-> "open", path |-> path, mode |-> mode]

CallList ==
  <<On("mkdirs", AB), On("mkdir", A), On("rmdir", A), On("touch", A), On("touch", AB),
    On("remove", A), On("load", A), On("load", C),
    [op |-> "rename", path |-> A, target |-> C], [op |-> "rename", path |-> C, target |-> A],
    Open(A, {"r"}), Open(A, {"w"}), Open(A, {"a"}), Open(C, {"r", "a"}), Open(A, {"r", "w", "a"}), Open(A, {"a", "+"})>>

ManyCalls == {CallList[i] : i \in DOMAIN CallList}

CONSTANTS p1, p2, p3
(* Any three calls; which process makes which does not matter. *)
AnyThree ==
  LET Numbers == DOMAIN CallList IN
  {[p \in Procs |-> CallList[CASE p = p1 -> i [] p = p2 -> j [] OTHER -> k]] :
     <<i, j, k>> \in {t \in Numbers \X Numbers \X Numbers : t[1] <= t[2] /\ t[2] <= t[3]}}
=============================================================================
