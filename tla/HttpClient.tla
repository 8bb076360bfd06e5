----------------------------- MODULE HttpClient -----------------------------
(***************************************************************************)
(* The client of http-client-engine.js: a script that sends a request to   *)
(* curl, a child it is connected with by the channels that popen promises, *)
(* and gets the answer's status and headers from curl's stderr, where -vv  *)
(* logs them, and its body from curl's stdout.                             *)
(*                                                                         *)
(* A byte of the "err" channel stands for a line; a header's item is its   *)
(* name.  curl is external: it carries out a plan of what it logs and      *)
(* writes, then exits, or a signal ends it before.                         *)
(***************************************************************************)
EXTENDS Channels, FiniteSets

CONSTANTS curl,
          Names,     \* of the headers
          Plans,     \* [does: Seq(Item), exit: Nat, reads: BOOLEAN (its stdin first?)]
          Sends,     \* bound: how many bytes the script writes
          Chunk      \* what read(n) and copy() ask for

Success == {"100", "200"}
Failure == {"404"}
Statuses == Success \cup Failure \cup {"301"}
Lines == Statuses \cup Names \cup {"blank", "info"}
Items == Lines \cup {"body"}

(* A response that is neither a redirection nor a "100 Continue" is the    *)
(* last.                                                                   *)
LogsResponses(does) ==
  \A i, j \in DOMAIN does : i < j /\ does[i] \in Failure \cup {"200"} => does[j] \notin Statuses

ASSUME HttpClientAssumption ==
  /\ Children = {curl} /\ Room \in Nat \ {0} /\ Sends \in Nat /\ Chunk \in Nat \ {0}
  /\ Names \cap (Statuses \cup {"blank", "info", "body"}) = {}
  /\ Plans \subseteq [does : Seq(Items), exit : Nat, reads : BOOLEAN]
  /\ \A p \in Plans : LogsResponses(p.does)

VARIABLES
  plan, done,      \* curl's, and how much of it is carried out
  killed,          \* a signal ended curl
  at,              \* the script's call: "idle", "write", "stderr", "stdout", "wait", "dead"
  mode,            \* "all" of read(), "some" of read(n), "copy"
  phase,           \* `state`: 0 not asked, 1 no status yet, 2 has a status
  status, headers, \* of the request object; by name, the number on stderr of
                   \* the line that a header's value is from, or 0
  result,          \* the bytes this read() has
  waits,           \* calls of wait() that returned
  outcome,         \* of the last call: "none", "data", "end", "status", "exit", "closed"
  closed           \* close() was called

curlVars == <<plan, done, killed>>
clientVars == <<at, mode, phase, status, headers, result, waits, outcome, closed>>
httpVars == <<vars, curlVars, clientVars>>

(* The lines that curl logs, and the k-th of them. *)
Where(S) == {i \in DOMAIN plan.does : plan.does[i] \in S}
LineNumber(i) == Cardinality({j \in Where(Lines) : j <= i})
LineAt(k) == CHOOSE i \in Where(Lines) : LineNumber(i) = k
ErrLine(k) == plan.does[LineAt(k)]

NoHeaders == [name \in Names |-> 0]

ClientTypeOK ==
  /\ plan \in Plans /\ done \in 0..Len(plan.does) /\ killed \in BOOLEAN
  /\ at \in {"idle", "write", "stderr", "stdout", "wait", "dead"}
  /\ mode \in {"all", "some", "copy"} /\ phase \in 0..2
  /\ status \in Success \cup {"none"} /\ headers \in [Names -> 0..Len(plan.does)]
  /\ result \in Nat /\ waits \in 0..2 /\ closed \in BOOLEAN
  /\ outcome \in {"none", "data", "end", "status", "exit", "closed"}
  /\ \A s \in Stream : written[curl][s] - Len(got[curl][s]) \in 0..Room

HttpInit ==
  /\ Init /\ plan \in Plans /\ done = 0 /\ killed = FALSE
  /\ at = "idle" /\ mode = "all" /\ phase = 0
  /\ status = "none" /\ headers = NoHeaders /\ result = 0 /\ waits = 0
  /\ outcome = "none" /\ closed = FALSE

-----------------------------------------------------------------------------
(* curl *)
NextItem == plan.does[done + 1]
StreamOf(item) == IF item = "body" THEN "out" ELSE "err"
Ready == state[curl] = "running" /\ (plan.reads => told[curl]["in"])

CurlReads ==
  /\ state[curl] = "running" /\ plan.reads /\ ~told[curl]["in"]
  /\ Read(curl, "in") \/ Tell(curl, "in")
  /\ UNCHANGED <<curlVars, clientVars>>

CurlWrites ==
  /\ Ready /\ done < Len(plan.does)
  /\ IF NextItem = "body" /\ closed
     THEN End(curl) /\ killed' = TRUE /\ UNCHANGED done              \* SIGPIPE
     ELSE Write(curl, StreamOf(NextItem)) /\ done' = done + 1 /\ UNCHANGED killed
  /\ UNCHANGED <<plan, clientVars>>

CurlExits ==
  /\ Ready /\ done = Len(plan.does) /\ End(curl)
  /\ UNCHANGED <<curlVars, clientVars>>

CurlKilled ==
  /\ state[curl] = "running" /\ End(curl) /\ killed' = TRUE
  /\ UNCHANGED <<plan, done, clientVars>>

Curl == \/ Start(curl) /\ UNCHANGED <<curlVars, clientVars>>
        \/ CurlReads \/ CurlWrites \/ CurlExits

-----------------------------------------------------------------------------
(* write() *)
BeginWrite ==
  /\ at = "idle" /\ written[curl]["in"] < Sends
  /\ IF curl \in shut THEN outcome' = "closed" /\ UNCHANGED at ELSE at' = "write" /\ UNCHANGED outcome
  /\ UNCHANGED <<vars, curlVars, mode, phase, status, headers, result, waits, closed>>

WriteByte ==
  /\ at = "write"
  /\ IF state[curl] = "ended" THEN at' = "dead" /\ UNCHANGED vars     \* SIGPIPE
     ELSE Write(curl, "in") /\ at' = "idle"
  /\ UNCHANGED <<curlVars, mode, phase, status, headers, result, waits, outcome, closed>>

close ==
  /\ at = "idle" /\ ~closed
  /\ closed' = TRUE /\ Shut({curl})
  /\ UNCHANGED <<curlVars, at, mode, phase, status, headers, result, waits, outcome>>

-----------------------------------------------------------------------------
(* read() and copy(): the first one closes curl's input and reads the log. *)

(* [mutant] It does not close curl's input. *)
StartLog_Open == UNCHANGED vars

StartLog == Shut({curl})

BeginRead(m) ==
  /\ at = "idle" /\ state[curl] # "new" /\ waits < 2
  /\ mode' = m /\ result' = 0
  /\ IF phase = 0 THEN at' = "stderr" /\ phase' = 1 /\ StartLog
     ELSE at' = "stdout" /\ UNCHANGED <<vars, phase>>
  /\ UNCHANGED <<curlVars, status, headers, waits, outcome, closed>>

Returns(what) == at' = "idle" /\ outcome' = what

(* [mutant] A redirection is an answer. *)
Found_Redirect(line) == phase = 1 /\ line \in Statuses \ Failure

Found(line) == phase = 1 /\ line \in Success

(* [mutant] The headers of every response are taken. *)
IsHeader_OfAny(line) == line \in Names

IsHeader(line) == phase = 2 /\ line \in Names

Refused(line) == phase = 1 /\ line \in Failure

(* The k-th line of the log.  A header overwrites one of the same name. *)
TakeLine(line, k) ==
  \/ /\ Found(line) /\ phase' = 2 /\ status' = line
     /\ UNCHANGED <<at, headers, outcome>>
  \/ /\ Refused(line) /\ Returns("status")
     /\ UNCHANGED <<phase, status, headers>>
  \/ /\ IsHeader(line) /\ headers' = [headers EXCEPT ![line] = k]
     /\ UNCHANGED <<at, phase, status, outcome>>
  \/ /\ ~Found(line) /\ ~Refused(line) /\ ~IsHeader(line)
     /\ at' = IF phase = 2 THEN "stdout" ELSE at
     /\ UNCHANGED <<phase, status, headers, outcome>>

ReadLog ==
  /\ at = "stderr"
  /\ \/ /\ Read(curl, "err")
        /\ TakeLine(ErrLine(Len(got[curl]["err"]) + 1), Len(got[curl]["err"]) + 1)
     \/ Tell(curl, "err") /\ at' = "stdout" /\ UNCHANGED <<phase, status, headers, outcome>>
  /\ UNCHANGED <<curlVars, mode, result, waits, closed>>

(* read() reads to the end of curl's output, read(n) and copy() a chunk.   *)
Enough == mode # "all" /\ result = Chunk

(* [mutant] wait() only after something was read. *)
MustWait_Late == mode = "all" /\ result > 0

(* "is there a better way to detect EOF?" *)
MustWait == mode = "all" /\ result = 0

ReadBody ==
  /\ at = "stdout" /\ UNCHANGED <<curlVars, mode, phase, status, headers, waits, closed>>
  /\ \/ closed /\ Returns("closed") /\ UNCHANGED <<vars, result>>
     \/ /\ ~closed /\ ~Enough /\ Read(curl, "out")
        /\ result' = result + 1 /\ UNCHANGED <<at, outcome>>
     \/ /\ ~closed
        /\ IF Enough THEN UNCHANGED vars ELSE Tell(curl, "out")
        /\ IF mode = "copy" /\ result > 0 THEN result' = 0 /\ UNCHANGED <<at, outcome>>
           ELSE /\ UNCHANGED result
                /\ IF MustWait THEN at' = "wait" /\ UNCHANGED outcome
                   ELSE Returns(IF result = 0 THEN "end" ELSE "data")

(* wait() has null for a curl that a signal ended, which is not above 0.   *)
(* The second wait() gets no status: what it returns was never set.        *)
Wait ==
  /\ at = "wait" /\ state[curl] = "ended"
  /\ waits' = waits + 1
  /\ \/ (waits > 0 \/ killed \/ plan.exit = 0) /\ Returns("end")
     \/ (waits > 0 \/ (~killed /\ plan.exit > 0)) /\ Returns("exit")
  /\ UNCHANGED <<vars, curlVars, mode, phase, status, headers, result, closed>>

ScriptGoesOn == WriteByte \/ ReadLog \/ ReadBody \/ Wait
HttpNext == \/ Curl \/ CurlKilled
            \/ BeginWrite \/ close \/ (\E m \in {"all", "some", "copy"} : BeginRead(m))
            \/ ScriptGoesOn

(* curl and the script's calls go on when they can. *)
HttpSpec == HttpInit /\ [][HttpNext]_httpVars /\ WF_httpVars(Curl) /\ WF_httpVars(ScriptGoesOn)

-----------------------------------------------------------------------------
First(S) == CHOOSE i \in S : \A j \in S : i <= j
Count(S) == Cardinality(S)

(* Where the client stops reading the log: at a failure, or where the      *)
(* headers end after the first success; behind the plan if at neither.     *)
Answers == Where(Success \cup Failure)
HeadEnds == {j \in Where(Lines \ Names) : j > First(Answers)}
LeavesAt ==
  IF Answers = {} THEN Len(plan.does) + 1
  ELSE IF plan.does[First(Answers)] \in Failure THEN First(Answers)
  ELSE IF HeadEnds = {} THEN Len(plan.does) + 1 ELSE First(HeadEnds)

(* Nothing but headers stands between a status and its headers: no line of *)
(* another kind, and no header whose value is empty, which the client does *)
(* not take for one ("info", too).                                         *)
HeadersTogether ==
  \A i \in Where({"blank", "info"}), j \in Where(Names) :
    i < j => \E k \in Where(Statuses) : i < k /\ k < j

(* Once a read has come back from the log, the request has the status of   *)
(* the last response and, under each name, the last of its headers of that *)
(* name, and no other, though responses that redirect came before; but not *)
(* if a "100 Continue" did, for its status stays, nor if something comes   *)
(* between the headers.  A failure is thrown (http-client-engine.js:44-69). *)
LastOf(S) == CHOOSE i \in S : \A j \in S : j <= i
LastStatus == LastOf(Where(Statuses))
HeadersOf(i, name) == {j \in Where({name}) : j > i}
ResponseKnown ==
  phase # 0 /\ at \in {"idle", "stdout", "wait"} /\ Where(Statuses) # {} /\ Where({"100"}) = {}
  /\ HeadersTogether /\ state[curl] = "ended" /\ done = Len(plan.does) =>
    IF plan.does[LastStatus] \in Success
    THEN /\ status = plan.does[LastStatus]
         /\ \A name \in Names :
              LET all == HeadersOf(LastStatus, name) IN
              headers[name] = IF all = {} THEN 0 ELSE LineNumber(LastOf(all))
    ELSE status = "none" /\ headers = NoHeaders

(* Whoever reads to the end by read(), and is told by the first such call  *)
(* that this is the end, has all of the body, and curl exited without a    *)
(* failure; but not if a signal ended curl, of which nobody is told, for   *)
(* wait() is null then (http-client-engine.js:73-78, os-engine.cc:97-112). *)
FailureTold ==
  mode = "all" /\ at = "idle" /\ outcome = "end" /\ waits <= 1 /\ ~killed =>
    plan.exit = 0 /\ Len(got[curl]["out"]) = Count(Where({"body"}))

(* A call returns if what curl logs after the client has left the log, and *)
(* what it writes before, fit in their pipes: nobody reads them until then *)
(* (http-client-engine.js:44-71).                                          *)
Fits ==
  /\ Count({j \in Where(Lines) : j > LeavesAt}) <= Room
  /\ Count({j \in Where({"body"}) : j < LeavesAt}) <= Room
ReadReturns == Fits /\ at # "idle" ~> at \in {"idle", "dead"}
=============================================================================
