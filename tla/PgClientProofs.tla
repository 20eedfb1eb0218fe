--------------------------- MODULE PgClientProofs ---------------------------
(***************************************************************************)
(* Theorems about ConnectRetry and PgClient: the loop of connect alone, and *)
(* then the client that runs it, for every number of commands, whatever    *)
(* the server and the connection do.                                       *)
(***************************************************************************)
EXTENDS PgClient, TLAPS

-----------------------------------------------------------------------------
(* The loop of connect, for every budget, pause and answer time.            *)

\* Where the clock can be in each phase of the loop; no outcome before the end.
ClockInv ==
    /\ pc = "check" => now <= Timeout + Backoff
    /\ pc = "attempt" => asked <= now /\ now <= Timeout /\ remaining = Timeout - asked
    /\ pc = "sleep" => now <= wake /\ wake <= now + Backoff /\ wake <= Timeout + Backoff
    /\ pc = "done" => now <= Timeout + Backoff
    /\ pc # "done" => outcome = "none"

\* An attempt that has not met a silent server is answered on time.
AnswerInv == pc = "attempt" /\ ~Hung => server # "silent" /\ now <= asked + AnswerTime

\* Once the server is ready, the next attempt begins at most one refused attempt
\* and one pause later.
ReadyInv ==
    server = "ready" /\ ~Hung =>
        /\ pc = "check" => now <= since + AnswerTime + Backoff
        /\ pc = "attempt" => asked <= since + AnswerTime + Backoff
        /\ pc = "sleep" => wake <= since + AnswerTime + Backoff

RetryInv ==
    TypeOK /\ ClockInv /\ AnswerInv /\ ReadyInv /\ OkWithinBudget /\ ReadyServerReached

LEMMA RetryInit == Init => RetryInv
BY RetryAssumption DEF Init, Hung, RetryInv, TypeOK, ClockInv, AnswerInv, ReadyInv,
                       OkWithinBudget, ReadyServerReached

LEMMA RetryStep == RetryInv /\ [Next]_vars => RetryInv'
<1> SUFFICES ASSUME RetryInv, [Next]_vars PROVE RetryInv'
  OBVIOUS
<1> USE RetryAssumption
    DEF Hung, RetryInv, TypeOK, ClockInv, AnswerInv, ReadyInv, OkWithinBudget, ReadyServerReached
<1>1. CASE GiveUp
  BY <1>1 DEF GiveUp, Return
<1>2. CASE Attempt
  BY <1>2 DEF Attempt
<1>3. CASE AttemptTimesOut
  BY <1>3 DEF AttemptTimesOut, Return
<1>4. CASE AttemptSucceeds
  BY <1>4 DEF AttemptSucceeds, Return
<1>5. CASE AttemptRejected
  BY <1>5 DEF AttemptRejected, Return
<1>6. CASE AttemptRefused
  BY <1>6 DEF AttemptRefused
<1>7. CASE WakeUp
  BY <1>7 DEF WakeUp
<1>8. CASE ServerBinds
  BY <1>8 DEF ServerBinds, client
<1>9. CASE Tick
  <2>1. now' = now + 1 /\ UNCHANGED <<pc, remaining, last, wake, outcome, asked, server, since, met>>
    BY <1>9 DEF Tick, client
  <2>2. TypeOK' /\ OkWithinBudget' /\ ReadyServerReached'
    BY <1>9, <2>1 DEF Tick
  <2>3. ClockInv'
    BY <1>9, <2>1 DEF Tick
  <2>4. AnswerInv'
    BY <1>9, <2>1 DEF Tick
  <2>5. ReadyInv'
    BY <1>9, <2>1 DEF Tick
  <2> QED
    BY <2>2, <2>3, <2>4, <2>5 DEF RetryInv
<1>10. CASE UNCHANGED vars
  BY <1>10 DEF vars
<1> QED
  BY <1>1, <1>2, <1>3, <1>4, <1>5, <1>6, <1>7, <1>8, <1>9, <1>10
     DEF Next, Loop, Terminated

LEMMA RetryInvariant == Spec => []RetryInv
BY RetryInit, RetryStep, PTL DEF Spec

\* connect never overruns its budget by more than one pause, and hands out no
\* connection after the deadline.
THEOREM RetryReturnsInTime == Spec => []ReturnsInTime
<1>1. RetryInv => ReturnsInTime
  BY RetryAssumption DEF RetryInv, TypeOK, ClockInv, ReturnsInTime
<1> QED
  BY <1>1, RetryInvariant, PTL

\* connect reaches every server that becomes ready one refused attempt, one pause
\* and one answer before the deadline.
THEOREM RetryReachesServer == Spec => []ReadyServerReached
<1>1. RetryInv => ReadyServerReached
  BY DEF RetryInv
<1> QED
  BY <1>1, RetryInvariant, PTL

-----------------------------------------------------------------------------
(* The queries.                                                            *)

Before(s, t) == \A i \in DOMAIN s, j \in DOMAIN t : s[i] < t[j]
Ascending(s) == \A i, j \in DOMAIN s : i < j => s[i] < s[j]
Absentee(n, s) == \A i \in DOMAIN s : s[i] # n

Types ==
    /\ calls \in Nat /\ queue \in Seq(Nat) /\ executed \in Seq(Nat)
    /\ rx \in {"none", "waiting", "ok", "db", "closed", "other"}

\* What was executed comes before what is queued, and nothing is later than the
\* last command.
QueueInv ==
    /\ Ascending(queue) /\ Ascending(executed) /\ Before(executed, queue)
    /\ \A i \in DOMAIN queue : queue[i] <= calls
    /\ \A i \in DOMAIN executed : executed[i] <= calls

\* What the query in progress has been told is true, and stays true: its statement
\* is no longer queued.
RxInv ==
    /\ rx # "none" => step = "query" /\ cmd = "query"
    /\ step = "query" => mode = "connected" /\ cmd = "query"
    /\ step = "connect" => cmd = "connect"
    /\ rx = "ok" => ~Absentee(calls, executed)
    /\ rx = "db" => Absentee(calls, executed) /\ Absentee(calls, queue)
    /\ rx = "closed" => task = "ended"

\* What the last query has reported is true, and stays true.
ReportInv ==
    cmd = "query" /\ step = "idle" =>
        /\ result = "ok" => ~Absentee(calls, executed)
        /\ result = "query" => Absentee(calls, executed) /\ Absentee(calls, queue)
        /\ result = "network" => task = "ended"

QInv == Types /\ QueueInv /\ RxInv /\ ReportInv /\ TaskOwned

LEMMA QInitInv == PInit => QInv
BY PgAssumption
DEF PInit, QInv, Types, QueueInv, RxInv, ReportInv, TaskOwned, Ascending, Before

\* The steps of the connect loop change nothing the queries depend on.
LEMMA LoopInv == ASSUME QInv, UNCHANGED pgvars PROVE QInv'
BY DEF pgvars, QInv, Types, QueueInv, RxInv, ReportInv, TaskOwned, Ascending, Before, Absentee

\* A new command is later than everything that is queued or executed.
LEMMA NextCallIsNew ==
    ASSUME QInv
    PROVE  Absentee(calls + 1, queue) /\ Absentee(calls + 1, executed)
BY DEF QInv, Types, QueueInv, Absentee

LEMMA QueueKept ==
    ASSUME QInv, calls' \in {calls, calls + 1}, UNCHANGED <<queue, executed>>
    PROVE  QueueInv' /\ calls' \in Nat
BY DEF QInv, Types, QueueInv, Ascending, Before

\* Losing the queue leaves what was executed.
LEMMA QueueDropped ==
    ASSUME QInv, calls' \in {calls, calls + 1}, queue' = <<>>, UNCHANGED executed
    PROVE  QueueInv' /\ calls' \in Nat /\ queue' \in Seq(Nat)
BY DEF QInv, Types, QueueInv, Ascending, Before

LEMMA AppendFacts ==
    ASSUME NEW s \in Seq(Nat), NEW n \in Nat
    PROVE  /\ Append(s, n) \in Seq(Nat)
           /\ Len(s) \in Nat /\ DOMAIN s = 1..Len(s)
           /\ DOMAIN Append(s, n) = 1..(Len(s) + 1)
           /\ \A i \in 1..Len(s) : Append(s, n)[i] = s[i]
           /\ Append(s, n)[Len(s) + 1] = n
OBVIOUS

\* Every element of Append(s, n) is an element of s or n itself.
LEMMA AppendCases ==
    ASSUME NEW s \in Seq(Nat), NEW n \in Nat, NEW i \in DOMAIN Append(s, n)
    PROVE  \/ i \in DOMAIN s /\ Append(s, n)[i] = s[i] /\ i <= Len(s)
           \/ i = Len(s) + 1 /\ Append(s, n)[i] = n
BY AppendFacts

\* What is appended to an ascending sequence and is later than all of it keeps
\* it ascending.
LEMMA AppendAscending ==
    ASSUME NEW s \in Seq(Nat), NEW n \in Nat, Ascending(s), \A i \in DOMAIN s : s[i] < n
    PROVE  Ascending(Append(s, n))
BY AppendFacts DEF Ascending

LEMMA AppendBound ==
    ASSUME NEW s \in Seq(Nat), NEW n \in Nat, NEW b \in Nat,
           \A i \in DOMAIN s : s[i] <= b, n <= b
    PROVE  \A i \in DOMAIN Append(s, n) : Append(s, n)[i] <= b
BY AppendCases

LEMMA AppendAfter ==
    ASSUME NEW s \in Seq(Nat), NEW t \in Seq(Nat), NEW n \in Nat,
           Before(s, t), \A i \in DOMAIN s : s[i] < n
    PROVE  Before(s, Append(t, n))
<1>. SUFFICES ASSUME NEW i \in DOMAIN s, NEW j \in DOMAIN Append(t, n)
              PROVE  s[i] < Append(t, n)[j]
  BY DEF Before
<1>. QED BY AppendCases DEF Before

LEMMA AppendBefore ==
    ASSUME NEW s \in Seq(Nat), NEW t \in Seq(Nat), NEW n \in Nat,
           Before(s, t), \A j \in DOMAIN t : n < t[j]
    PROVE  Before(Append(s, n), t)
<1>. SUFFICES ASSUME NEW i \in DOMAIN Append(s, n), NEW j \in DOMAIN t
              PROVE  Append(s, n)[i] < t[j]
  BY DEF Before
<1>. QED BY AppendCases DEF Before

LEMMA AppendAbsentee ==
    ASSUME NEW s \in Seq(Nat), NEW n \in Nat, NEW c \in Nat
    PROVE  /\ ~Absentee(c, s) => ~Absentee(c, Append(s, n))
           /\ ~Absentee(n, Append(s, n))
           /\ Absentee(c, s) /\ n # c => Absentee(c, Append(s, n))
<1>1. ~Absentee(c, s) => ~Absentee(c, Append(s, n))
  BY AppendFacts DEF Absentee
<1>2. ~Absentee(n, Append(s, n))
  <2>1. Len(s) + 1 \in DOMAIN Append(s, n) /\ Append(s, n)[Len(s) + 1] = n
    BY AppendFacts
  <2>. QED BY <2>1 DEF Absentee
<1>3. Absentee(c, s) /\ n # c => Absentee(c, Append(s, n))
  BY AppendCases DEF Absentee
<1>. QED BY <1>1, <1>2, <1>3

\* What is left when the head of an ascending sequence leaves is later than it.
LEMMA TailFacts ==
    ASSUME NEW t \in Seq(Nat), t # <<>>
    PROVE  /\ Head(t) \in Nat /\ 1 \in DOMAIN t /\ Head(t) = t[1]
           /\ Tail(t) \in Seq(Nat)
           /\ \A i \in DOMAIN Tail(t) :
                  i \in Nat \ {0} /\ i + 1 \in DOMAIN t /\ Tail(t)[i] = t[i + 1]
<1>1. /\ Len(t) \in Nat \ {0} /\ DOMAIN t = 1..Len(t) /\ Head(t) = t[1]
      /\ Tail(t) \in Seq(Nat) /\ DOMAIN Tail(t) = 1..(Len(t) - 1)
      /\ \A i \in 1..(Len(t) - 1) : Tail(t)[i] = t[i + 1]
  OBVIOUS
<1>2. 1 \in DOMAIN t /\ t[1] \in Nat
  BY <1>1
<1>3. \A i \in DOMAIN Tail(t) :
          i \in Nat \ {0} /\ i + 1 \in DOMAIN t /\ Tail(t)[i] = t[i + 1]
  BY <1>1
<1>. QED BY <1>1, <1>2, <1>3

LEMMA CommandsInv ==
    ASSUME QInv,
           NotImplemented \/ ConnectBadConfig \/ QueryBadSql \/ ConnectStarts
    PROVE  QInv'
<1>1. /\ calls' = calls + 1 /\ UNCHANGED <<mode, task, queue, executed, rx>>
      /\ step = "idle" /\ step' \in {"idle", "connect"}
      /\ step' = "connect" => cmd' = "connect"
      /\ result' \in {"not_implemented", "connect", "query_other", "none"}
  BY DEF NotImplemented, ConnectBadConfig, QueryBadSql, ConnectStarts, Begin, session, query
<1>2. QueueInv' /\ calls' \in Nat
  BY <1>1, QueueKept
<1>3. RxInv'
  BY <1>1 DEF QInv, RxInv, Types
<1>4. ReportInv'
  BY <1>1, NextCallIsNew DEF ReportInv, Absentee
<1>5. Types' /\ TaskOwned'
  BY <1>1, <1>2 DEF QInv, Types, TaskOwned
<1>. QED BY <1>2, <1>3, <1>4, <1>5 DEF QInv

LEMMA ConnectReturnsInv ==
    ASSUME QInv, ConnectReturnsOk \/ ConnectReturnsError
    PROVE  QInv'
<1>1. /\ UNCHANGED <<calls, cmd, queue, executed, rx>>
      /\ step = "connect" /\ step' = "idle"
      /\ \/ mode' = "connected" /\ task' = "running" /\ result' = "ok"
         \/ UNCHANGED <<mode, task>> /\ result' \in {"connect", "network"}
  BY DEF ConnectReturnsOk, ConnectReturnsError, session, query
<1>2. cmd = "connect" /\ rx = "none"
  BY <1>1 DEF QInv, RxInv
<1>3. QueueInv' /\ calls' \in Nat
  BY <1>1, QueueKept
<1>4. RxInv' /\ ReportInv'
  BY <1>1, <1>2 DEF RxInv, ReportInv
<1>5. Types' /\ TaskOwned'
  BY <1>1, <1>3 DEF QInv, Types, TaskOwned
<1>. QED BY <1>3, <1>4, <1>5 DEF QInv

LEMMA QueryStartsInv == ASSUME QInv, QueryStarts PROVE QInv'
<1>1. /\ mode = "connected" /\ step = "idle" /\ calls' = calls + 1 /\ cmd' = "query"
      /\ step' = "query" /\ UNCHANGED <<mode, task, executed>>
      /\ \/ task = "running" /\ queue' = Append(queue, calls + 1) /\ rx' = "waiting"
         \/ task # "running" /\ rx' = "closed" /\ UNCHANGED queue
         \/ rx' = "other" /\ UNCHANGED queue
  BY DEF QueryStarts, Begin
<1>2. TaskOwned' /\ RxInv' /\ ReportInv'
  BY <1>1 DEF QInv, TaskOwned, RxInv, ReportInv
<1>3. CASE UNCHANGED queue
  <2>1. QueueInv' /\ calls' \in Nat
    BY <1>1, <1>3, QueueKept
  <2>. QED BY <1>1, <1>2, <1>3, <2>1 DEF QInv, Types
<1>4. CASE queue' = Append(queue, calls + 1)
  <2>0. calls \in Nat /\ queue \in Seq(Nat) /\ executed \in Seq(Nat) /\ QueueInv
    BY DEF QInv, Types
  <2>1. queue' \in Seq(Nat)
    BY <1>4, <2>0, AppendFacts
  <2>2. \A i \in DOMAIN queue : queue[i] \in Nat /\ queue[i] <= calls
    BY <2>0 DEF QueueInv
  <2>3. \A i \in DOMAIN executed : executed[i] \in Nat /\ executed[i] <= calls
    BY <2>0 DEF QueueInv
  <2>4. Ascending(queue')
    BY <1>4, <2>0, <2>2, AppendAscending DEF QueueInv
  <2>5. Before(executed, queue')
    <3>1. calls + 1 \in Nat /\ \A i \in DOMAIN executed : executed[i] < calls + 1
      BY <2>0, <2>3
    <3>. QED BY <1>4, <2>0, <3>1, AppendAfter DEF QueueInv
  <2>6. \A i \in DOMAIN queue' : queue'[i] <= calls + 1
    <3>1. /\ calls + 1 \in Nat /\ calls + 1 <= calls + 1
          /\ \A i \in DOMAIN queue : queue[i] <= calls + 1
      BY <2>0, <2>2
    <3>. QED BY <1>4, <2>0, <3>1, AppendBound
  <2>7. QueueInv'
    <3>1. \A i \in DOMAIN executed : executed[i] <= calls + 1
      BY <2>0, <2>3
    <3>. QED BY <1>1, <2>0, <2>4, <2>5, <2>6, <3>1 DEF QueueInv, Ascending, Before
  <2>. QED BY <1>1, <1>2, <2>0, <2>1, <2>7 DEF QInv, Types
<1>. QED BY <1>1, <1>3, <1>4

LEMMA QueryingInv == ASSUME QInv, Querying PROVE QInv'
<1>1. /\ step = "query" /\ step' = "idle" /\ rx' = "none"
      /\ UNCHANGED <<cmd, calls, mode, task, queue, executed>>
      /\ \/ rx = "ok" /\ result' = "ok"
         \/ rx = "db" /\ result' = "query"
         \/ rx = "closed" /\ result' = "network"
         \/ result' \in {"query_other", "query_timeout"}
  BY DEF Querying, QueryReturns, HasAnswer, QueryTimesOut, QueryDone, session
<1>2. QueueInv' /\ calls' \in Nat
  BY <1>1, QueueKept
<1>3. Types' /\ TaskOwned' /\ RxInv'
  BY <1>1, <1>2 DEF QInv, Types, TaskOwned, RxInv
<1>4. ReportInv'
  BY <1>1 DEF QInv, RxInv, ReportInv, Absentee
<1>. QED BY <1>2, <1>3, <1>4 DEF QInv

LEMMA DropInv == ASSUME QInv, Disconnect \/ Teardown \/ DropInstance PROVE QInv'
<1>1. /\ mode' = "disconnected" /\ queue' = <<>> /\ rx' = "none" /\ UNCHANGED executed
      /\ task' = IF mode = "connected" THEN "aborted" ELSE task
      /\ calls' \in {calls, calls + 1} /\ cmd' \in {"disconnect", "teardown", "drop"}
      /\ step' \in {"idle", "torn"}
  BY DEF Disconnect, Teardown, DropInstance, DropConnected, Begin
<1>2. QueueInv' /\ calls' \in Nat /\ queue' \in Seq(Nat)
  BY <1>1, QueueDropped
<1>3. Types' /\ TaskOwned' /\ RxInv' /\ ReportInv'
  BY <1>1, <1>2 DEF QInv, Types, TaskOwned, RxInv, ReportInv
<1>. QED BY <1>2, <1>3 DEF QInv

\* The head of the queue is executed, or it is refused, and leaves the queue.
LEMMA HeadLeaves ==
    ASSUME QInv, queue # <<>>, UNCHANGED calls,
           executed' \in {executed, Append(executed, Head(queue))},
           queue' \in {Tail(queue), <<>>}
    PROVE  /\ QueueInv' /\ queue' \in Seq(Nat) /\ executed' \in Seq(Nat)
           /\ Head(queue) = calls => Absentee(calls, queue')
           /\ Head(queue) = calls => Absentee(calls, executed)
           /\ executed' # executed /\ Head(queue) = calls => ~Absentee(calls, executed')
           /\ ~Absentee(calls, executed) => ~Absentee(calls, executed')
           /\ Absentee(calls, executed) /\ Absentee(calls, queue) =>
                  Absentee(calls, executed') /\ Absentee(calls, queue')
<1>. DEFINE h == Head(queue)
<1>1. /\ calls \in Nat /\ queue \in Seq(Nat) /\ executed \in Seq(Nat)
      /\ Ascending(queue) /\ Ascending(executed) /\ Before(executed, queue)
      /\ \A i \in DOMAIN queue : queue[i] <= calls
      /\ \A i \in DOMAIN executed : executed[i] <= calls
  BY DEF QInv, Types, QueueInv
<1>2. /\ h \in Nat /\ 1 \in DOMAIN queue /\ h = queue[1]
      /\ Tail(queue) \in Seq(Nat)
      /\ \A i \in DOMAIN Tail(queue) :
             i \in Nat \ {0} /\ i + 1 \in DOMAIN queue /\ Tail(queue)[i] = queue[i + 1]
  BY <1>1, TailFacts
<1>3. /\ h <= calls
      /\ \A i \in DOMAIN executed : executed[i] < h
      /\ \A j \in DOMAIN Tail(queue) : h < Tail(queue)[j]
  <2>. HIDE DEF h
  <2>1. h <= calls /\ \A i \in DOMAIN executed : executed[i] < h
    BY <1>1, <1>2 DEF Before
  <2>2. ASSUME NEW j \in DOMAIN Tail(queue) PROVE h < Tail(queue)[j]
    <3>1. j \in Nat \ {0} /\ j + 1 \in DOMAIN queue /\ Tail(queue)[j] = queue[j + 1]
      BY <1>2
    <3>2. 1 < j + 1
      BY <3>1
    <3>3. queue[1] < queue[j + 1]
      BY <1>1, <1>2, <3>1, <3>2 DEF Ascending
    <3>. QED BY <1>2, <3>1, <3>3
  <2>. QED BY <2>1, <2>2
<1>4. /\ queue' \in Seq(Nat) /\ Ascending(queue') /\ Before(executed, queue')
      /\ \A j \in DOMAIN queue' : h < queue'[j] /\ queue'[j] <= calls
      /\ Absentee(calls, queue) => Absentee(calls, queue')
  <2>1. CASE queue' = <<>>
    BY <2>1 DEF Ascending, Before, Absentee
  <2>2. CASE queue' = Tail(queue)
    <3>. HIDE DEF h
    <3>1. Ascending(Tail(queue))
      <4>. SUFFICES ASSUME NEW i \in DOMAIN Tail(queue), NEW j \in DOMAIN Tail(queue), i < j
                    PROVE  Tail(queue)[i] < Tail(queue)[j]
        BY DEF Ascending
      <4>1. /\ i \in Nat /\ i + 1 \in DOMAIN queue /\ Tail(queue)[i] = queue[i + 1]
            /\ j \in Nat /\ j + 1 \in DOMAIN queue /\ Tail(queue)[j] = queue[j + 1]
        BY <1>2
      <4>2. i + 1 < j + 1
        BY <4>1
      <4>. QED BY <1>1, <4>1, <4>2 DEF Ascending
    <3>2. Before(executed, Tail(queue))
      BY <1>1, <1>2 DEF Before
    <3>3. \A j \in DOMAIN Tail(queue) : Tail(queue)[j] <= calls
      BY <1>1, <1>2
    <3>4. Absentee(calls, queue) => Absentee(calls, Tail(queue))
      BY <1>2 DEF Absentee
    <3>. QED BY <1>2, <1>3, <2>2, <3>1, <3>2, <3>3, <3>4
  <2>. QED BY <2>1, <2>2
<1>5. h = calls => Absentee(calls, queue') /\ Absentee(calls, executed)
  <2>1. \A i \in DOMAIN executed : executed[i] \in Nat
    BY <1>1
  <2>2. \A j \in DOMAIN queue' : queue'[j] \in Nat
    BY <1>4
  <2>. HIDE DEF h
  <2>3. ASSUME h = calls, NEW j \in DOMAIN queue' PROVE queue'[j] # calls
    BY <1>2, <1>4, <2>2, <2>3
  <2>4. ASSUME h = calls, NEW i \in DOMAIN executed PROVE executed[i] # calls
    BY <1>2, <1>3, <2>1, <2>4
  <2>. QED BY <2>3, <2>4 DEF Absentee
<1>6. CASE executed' = executed
  <2>1. QueueInv'
    BY <1>1, <1>4, <1>6 DEF QueueInv, Ascending, Before
  <2>. QED BY <1>1, <1>4, <1>5, <1>6, <2>1 DEF Absentee
<1>7. CASE executed' = Append(executed, h)
  <2>. HIDE DEF h
  <2>1. executed' \in Seq(Nat)
    BY <1>1, <1>2, <1>7, AppendFacts
  <2>2. Ascending(executed')
    BY <1>1, <1>2, <1>3, <1>7, AppendAscending
  <2>3. Before(executed', queue')
    BY <1>1, <1>2, <1>4, <1>7, AppendBefore
  <2>4. \A i \in DOMAIN executed' : executed'[i] <= calls
    BY <1>1, <1>2, <1>3, <1>7, AppendBound
  <2>5. QueueInv'
    BY <1>4, <2>2, <2>3, <2>4 DEF QueueInv, Ascending, Before
  <2>6. /\ ~Absentee(calls, executed) => ~Absentee(calls, executed')
        /\ h = calls => ~Absentee(calls, executed')
        /\ Absentee(calls, executed) /\ h # calls => Absentee(calls, executed')
    BY <1>1, <1>2, <1>7, AppendAbsentee
  <2>7. Absentee(calls, queue) => h # calls
    BY <1>2 DEF Absentee
  <2>. QED BY <1>4, <1>5, <2>1, <2>5, <2>6, <2>7 DEF h
<1>. QED BY <1>6, <1>7

LEMMA TaskAnswersInv == ASSUME QInv, TaskAnswers PROVE QInv'
<1>1. /\ task = "running" /\ queue # <<>> /\ queue' = Tail(queue)
      /\ UNCHANGED <<mode, step, cmd, calls, result, task>>
      /\ executed' \in {executed, Append(executed, Head(queue))}
  BY DEF TaskAnswers
<1>2. \/ rx' = rx
      \/ rx = "waiting" /\ Head(queue) = calls /\ rx' = "ok" /\ executed' # executed
      \/ rx = "waiting" /\ Head(queue) = calls /\ rx' = "db" /\ executed' = executed
  <2>1. Append(executed, Head(queue)) # executed
    BY DEF QInv, Types
  <2>. QED BY <2>1 DEF TaskAnswers, Answered
<1>3. /\ QueueInv' /\ queue' \in Seq(Nat) /\ executed' \in Seq(Nat)
      /\ Head(queue) = calls => Absentee(calls, queue') /\ Absentee(calls, executed)
      /\ executed' # executed /\ Head(queue) = calls => ~Absentee(calls, executed')
      /\ ~Absentee(calls, executed) => ~Absentee(calls, executed')
      /\ Absentee(calls, executed) /\ Absentee(calls, queue) =>
             Absentee(calls, executed') /\ Absentee(calls, queue')
  BY <1>1, HeadLeaves
<1>4. Types' /\ TaskOwned'
  BY <1>1, <1>2, <1>3 DEF QInv, Types, TaskOwned
<1>5. RxInv'
  <2>. USE DEF Absentee
  <2>. QED BY <1>1, <1>2, <1>3 DEF QInv, RxInv
<1>6. ReportInv'
  BY <1>1, <1>2, <1>3 DEF QInv, RxInv, ReportInv, Absentee
<1>. QED BY <1>3, <1>4, <1>5, <1>6 DEF QInv

\* An unexpected answer tells the query nothing about its statement.
LEMMA UnexpectedInv == ASSUME QInv, UnexpectedAnswer PROVE QInv'
<1>1. rx # "none" /\ rx' = "other" /\ UNCHANGED <<mode, task, queue, executed, step, cmd, calls, result>>
  BY DEF UnexpectedAnswer, session
<1>2. QueueInv' /\ calls' \in Nat
  BY <1>1, QueueKept
<1>3. Types' /\ TaskOwned' /\ RxInv' /\ ReportInv'
  BY <1>1, <1>2 DEF QInv, Types, TaskOwned, RxInv, ReportInv
<1>. QED BY <1>2, <1>3 DEF QInv

LEMMA TaskLostInv == ASSUME QInv, TaskLost PROVE QInv'
<1>1. /\ task = "running" /\ task' = "ended" /\ queue' = <<>>
      /\ UNCHANGED <<mode, step, cmd, calls, result>>
      /\ rx' = IF rx = "waiting" THEN "closed" ELSE rx
      /\ executed' = executed \/ (queue # <<>> /\ executed' = Append(executed, Head(queue)))
  BY DEF TaskLost
<1>2. CASE queue = <<>> /\ executed' = executed
  <2>1. QueueInv' /\ calls' \in Nat /\ queue' \in Seq(Nat)
    BY <1>1, <1>2, QueueDropped
  <2>2. Types' /\ TaskOwned' /\ RxInv' /\ ReportInv'
    BY <1>1, <1>2, <2>1 DEF QInv, Types, TaskOwned, RxInv, ReportInv, Absentee
  <2>. QED BY <2>1, <2>2 DEF QInv
<1>3. CASE queue # <<>>
  <2>1. /\ QueueInv' /\ queue' \in Seq(Nat) /\ executed' \in Seq(Nat)
        /\ ~Absentee(calls, executed) => ~Absentee(calls, executed')
        /\ Absentee(calls, executed) /\ Absentee(calls, queue) =>
               Absentee(calls, executed') /\ Absentee(calls, queue')
    BY <1>1, <1>3, HeadLeaves
  <2>2. Types' /\ TaskOwned'
    BY <1>1, <2>1 DEF QInv, Types, TaskOwned
  <2>3. RxInv' /\ ReportInv'
    BY <1>1, <2>1 DEF QInv, RxInv, ReportInv, Absentee
  <2>. QED BY <2>1, <2>2, <2>3 DEF QInv
<1>. QED BY <1>1, <1>2, <1>3

LEMMA QNextInv == QInv /\ [PNext]_pvars => QInv'
<1>1. ASSUME QInv, UNCHANGED pvars PROVE QInv'
  BY <1>1, LoopInv DEF pvars
<1>2. ASSUME QInv, ConnectStep \/ ConnectWaits \/ ServerStep \/ Over PROVE QInv'
  BY <1>2, LoopInv DEF ConnectStep, ConnectWaits, ServerStep, Over, pvars
<1>. QED
  BY <1>1, <1>2, CommandsInv, ConnectReturnsInv, QueryStartsInv, QueryingInv, DropInv,
     TaskAnswersInv, UnexpectedInv, TaskLostInv
  DEF PNext, Connecting, Commands

LEMMA QInvariance == PSpec => []QInv
BY QInitInv, QNextInv, PTL DEF PSpec

\* The background task never outlives its session.
THEOREM TaskNeverDetached == PSpec => []TaskOwned
<1>1. QInv => TaskOwned
  BY DEF QInv
<1>. QED BY <1>1, QInvariance, PTL

\* A query reports what became of its own statement, however many earlier queries
\* timed out and however late they were answered, and a query error with an
\* sqlstate is the server's own: the errors the client makes itself, or of an
\* answer it did not expect, say nothing about the statement.
THEOREM QueryVerdict == PSpec => []VerdictIsServers
<1>1. QInv => VerdictIsServers
  BY DEF QInv, ReportInv, VerdictIsServers, Absentee
<1>. QED BY <1>1, QInvariance, PTL

\* Statements take effect in order and at most once.
THEOREM QueryEffects == PSpec => []EffectsInOrder
<1>1. QInv => EffectsInOrder
  BY DEF QInv, QueueInv, Ascending, EffectsInOrder
<1>. QED BY <1>1, QInvariance, PTL
-----------------------------------------------------------------------------
(* The connect loop inside the client, and the types.                      *)

\* What the step of a call implies of the loop, the mode and the result.
CallInv ==
    /\ step = "connect" => mode = "disconnected"
    /\ step \in {"connect", "query"} => result = "none"
    /\ rx # "none" <=> step = "query"

PInv == RetryInv /\ QInv /\ PgTypeOK /\ CallInv

\* The loop at rest, and at its first check.
LEMMA RetryParked ==
    ASSUME NEW p \in {"check", "done"}, RetryAt(p)
    PROVE  RetryInv' /\ TypeOK' /\ pc' = p
BY RetryAssumption
DEF RetryAt, RetryInv, TypeOK, ClockInv, AnswerInv, ReadyInv, OkWithinBudget,
    ReadyServerReached, Hung

LEMMA PInvInit == PInit => PInv
<1>. SUFFICES ASSUME PInit PROVE PInv
  OBVIOUS
<1>1. RetryInv
  BY RetryAssumption DEF PInit, RetryInv, TypeOK, ClockInv, AnswerInv, ReadyInv, OkWithinBudget,
     ReadyServerReached, Hung
<1>2. PgTypeOK
  <2>1. calls \in 0..MaxCalls
    BY PgAssumption DEF PInit
  <2>2. timed \in BOOLEAN
    BY DEF PInit
  <2>. QED BY <1>1, <2>1, <2>2 DEF PInit, PgTypeOK, RetryInv
<1>3. CallInv
  BY DEF PInit, CallInv
<1>. QED BY <1>1, <1>2, <1>3, QInitInv DEF PInv

\* A step of the loop is one of the client's only while it connects.
LEMMA LoopStep ==
    ASSUME PInv, ConnectStep \/ ConnectWaits \/ ServerStep
    PROVE  RetryInv' /\ PgTypeOK' /\ CallInv'
<1>1. Next /\ UNCHANGED pgvars /\ step = "connect"
  BY DEF ConnectStep, ConnectWaits, ServerStep, Next
<1>2. RetryInv'
  BY <1>1, RetryStep DEF PInv
<1>3. TypeOK'
  BY <1>2 DEF RetryInv
<1>4. UNCHANGED <<mode, step, cmd, calls, result, task, queue, rx, timed, executed>>
  BY <1>1 DEF pgvars
<1>5. PgTypeOK'
  BY <1>1, <1>3, <1>4 DEF PInv, PgTypeOK
<1>6. CallInv'
  BY <1>4 DEF PInv, CallInv
<1>. QED BY <1>2, <1>5, <1>6

\* Every other step leaves the loop alone, or parks or starts it.
LEMMA LoopKept == ASSUME PInv, UNCHANGED vars PROVE RetryInv' /\ TypeOK' /\ UNCHANGED pc
<1>1. RetryInv'
  BY RetryStep DEF PInv
<1>. QED BY <1>1 DEF RetryInv, vars

\* The types of the queues are part of QInv.
LEMMA QueueTypes ==
    ASSUME QInv'
    PROVE  /\ queue' \in Seq(Nat) /\ executed' \in Seq(Nat)
           /\ rx' \in {"none", "waiting", "ok", "db", "closed", "other"}
           /\ step' = "query" => mode' = "connected"
           /\ rx' # "none" => step' = "query"
BY DEF QInv, Types, RxInv

LEMMA CommandTypes ==
    ASSUME PInv, QInv', Commands
    PROVE  RetryInv' /\ PgTypeOK' /\ CallInv'
<1>1. RetryInv' /\ TypeOK' /\ UNCHANGED pc
  BY LoopKept DEF Commands, NotImplemented, ConnectBadConfig, QueryBadSql, QueryStarts, Disconnect
<1>2. calls' \in 0..MaxCalls /\ step = "idle" /\ rx = "none"
  BY PgAssumption DEF Commands, NotImplemented, ConnectBadConfig, QueryBadSql, QueryStarts,
     Disconnect, Begin, PInv, PgTypeOK, CallInv
<1>3. /\ mode' \in {"disconnected", "connected"}
      /\ step' \in {"idle", "query"}
      /\ result' \in {"none", "ok", "connect", "query_other", "not_implemented"}
      /\ step' = "query" => result' = "none"
      /\ task' \in {"none", "running", "ended", "aborted"}
      /\ rx' # "none" <=> step' = "query"
  BY <1>2 DEF Commands, NotImplemented, ConnectBadConfig, QueryBadSql, QueryStarts, Disconnect,
     DropConnected, session, query, PInv, PgTypeOK, CallInv
<1>4. timed' \in BOOLEAN
  <2>1. timed \in BOOLEAN
    BY DEF PInv, PgTypeOK
  <2>2. CASE QueryStarts
    <3>1. PICK kw \in Timeouts : timed' = (kw > 0)
      BY <2>2 DEF QueryStarts
    <3>. QED BY <3>1
  <2>3. CASE ~QueryStarts
    <3>1. timed' = timed
      BY <2>3 DEF Commands, NotImplemented, ConnectBadConfig, QueryBadSql, Disconnect,
                  DropConnected, query
    <3>. QED BY <2>1, <3>1
  <2>. QED BY <2>2, <2>3
<1>5. pc' = "done"
  BY <1>1, <1>2 DEF PInv, PgTypeOK, TypeOK
<1>6. PgTypeOK'
  BY <1>1, <1>2, <1>3, <1>4, <1>5, QueueTypes DEF PgTypeOK
<1>. QED BY <1>1, <1>3, <1>6 DEF CallInv

LEMMA ConnectTypes ==
    ASSUME PInv, QInv', ConnectStarts \/ ConnectReturnsOk \/ ConnectReturnsError
    PROVE  RetryInv' /\ PgTypeOK' /\ CallInv'
<1>1. RetryInv' /\ TypeOK' /\ (pc' = "done" \/ (pc' = "check" /\ step' = "connect"))
  BY RetryParked DEF ConnectStarts, ConnectReturnsOk, ConnectReturnsError
<1>2. calls' \in 0..MaxCalls /\ rx = "none"
  BY PgAssumption DEF ConnectStarts, ConnectReturnsOk, ConnectReturnsError, Begin, PInv, PgTypeOK,
     CallInv
<1>3. /\ mode' \in {"disconnected", "connected"}
      /\ step' \in {"idle", "connect"}
      /\ step' = "connect" => mode' = "disconnected" /\ result' = "none"
      /\ result' \in {"none", "ok", "connect", "network"}
      /\ task' \in {"none", "running", "ended", "aborted"}
      /\ rx' = "none"
  BY <1>2 DEF ConnectStarts, ConnectReturnsOk, ConnectReturnsError, session, query, PInv, PgTypeOK
<1>4. timed' = timed /\ timed \in BOOLEAN
  BY DEF ConnectStarts, ConnectReturnsOk, ConnectReturnsError, query, PInv, PgTypeOK
<1>5. PgTypeOK'
  BY <1>1, <1>2, <1>3, <1>4, QueueTypes DEF PgTypeOK
<1>. QED BY <1>1, <1>3, <1>5 DEF CallInv

LEMMA EndTypes ==
    ASSUME PInv, QInv', Querying \/ Teardown \/ DropInstance
    PROVE  RetryInv' /\ PgTypeOK' /\ CallInv'
<1>1. RetryInv' /\ TypeOK' /\ pc' = "done"
  <2>1. CASE DropInstance
    BY <2>1, RetryParked DEF DropInstance
  <2>2. CASE Querying \/ Teardown
    <3>1. UNCHANGED vars /\ step \in {"query", "idle"}
      BY <2>2 DEF Querying, QueryReturns, HasAnswer, QueryTimesOut, QueryDone, Teardown
    <3>. QED BY <3>1, LoopKept DEF PInv, PgTypeOK, TypeOK
  <2>. QED BY <2>1, <2>2
<1>2. /\ mode' \in {"disconnected", "connected"} /\ calls' = calls /\ calls \in 0..MaxCalls
      /\ step' \in {"idle", "torn"} /\ rx' = "none"
      /\ result' \in {"none", "ok", "query", "query_other", "network", "query_timeout"}
      /\ task' \in {"none", "running", "ended", "aborted"}
  BY DEF Querying, QueryReturns, HasAnswer, QueryTimesOut, QueryDone, Teardown, DropInstance, DropConnected,
     session, PInv, PgTypeOK
<1>3. timed' = timed /\ timed \in BOOLEAN
  BY DEF Querying, QueryReturns, HasAnswer, QueryTimesOut, QueryDone, Teardown, DropInstance, DropConnected,
     PInv, PgTypeOK
<1>4. PgTypeOK'
  BY <1>1, <1>2, <1>3, QueueTypes DEF PgTypeOK
<1>. QED BY <1>1, <1>2, <1>4 DEF CallInv

LEMMA TaskTypes ==
    ASSUME PInv, QInv', TaskAnswers \/ UnexpectedAnswer \/ TaskLost \/ Over \/ UNCHANGED pvars
    PROVE  RetryInv' /\ PgTypeOK' /\ CallInv'
<1>1. UNCHANGED <<vars, mode, step, calls, result, timed>>
  BY DEF TaskAnswers, UnexpectedAnswer, TaskLost, Over, session, pvars, pgvars
<1>2. RetryInv' /\ TypeOK' /\ UNCHANGED pc
  BY <1>1, LoopKept
<1>3. task' \in {"none", "running", "ended", "aborted"} /\ (rx' # "none" <=> rx # "none")
  BY DEF TaskAnswers, Answered, UnexpectedAnswer, TaskLost, Over, session, pvars, pgvars, PInv,
     PgTypeOK
<1>4. PgTypeOK'
  BY <1>1, <1>2, <1>3, QueueTypes DEF PInv, PgTypeOK
<1>. QED BY <1>1, <1>2, <1>3, <1>4 DEF PInv, CallInv

LEMMA PNextInv == PInv /\ [PNext]_pvars => PInv'
<1>. SUFFICES ASSUME PInv, [PNext]_pvars PROVE PInv'
  OBVIOUS
<1>1. QInv'
  BY QNextInv DEF PInv
<1>2. RetryInv' /\ PgTypeOK' /\ CallInv'
  BY <1>1, LoopStep, CommandTypes, ConnectTypes, EndTypes, TaskTypes DEF PNext, Connecting
<1>. QED BY <1>1, <1>2 DEF PInv

LEMMA PInvariance == PSpec => []PInv
BY PInvInit, PNextInv, PTL DEF PSpec

\* Types; a query listens only while it is in progress, and the retry loop runs
\* only inside connect, also when a panic drops the instance in the middle of it.
THEOREM PgTypeCorrect == PSpec => []PgTypeOK
<1>1. PInv => PgTypeOK
  BY DEF PInv
<1>. QED BY <1>1, PInvariance, PTL

\* Every connect of a client, not only its first, returns by its own deadline plus
\* at most one pause.
THEOREM PgConnectInTime == PSpec => []ReturnsInTime
<1>1. PInv => ReturnsInTime
  BY RetryAssumption DEF PInv, RetryInv, TypeOK, ClockInv, ReturnsInTime
<1>. QED BY <1>1, PInvariance, PTL

\* Every connect of a client reaches a server that is ready early enough.
THEOREM PgConnectReaches == PSpec => []ReadyServerReached
<1>1. PInv => ReadyServerReached
  BY DEF PInv, RetryInv
<1>. QED BY <1>1, PInvariance, PTL
-----------------------------------------------------------------------------
(* The client implements the contract of an actor instance.                *)

acall == CASE step = "idle" -> "none" [] step = "torn" -> "torn" [] OTHER -> cmd
aresult == IF result \in {"none", "ok", "not_implemented"} THEN result ELSE "error"

PgCmds == {"connect", "query", "disconnect"}

\* The rows of the runtime table for pg_client.
LEMMA PgTable ==
    /\ Contract!CommandsOf("pg_client") = PgCmds
    /\ \A c \in PgCmds \ {"connect"} :
          Contract!Results("pg_client", "disconnected", c) = {<<"not_implemented", "disconnected">>}
    /\ Contract!Results("pg_client", "disconnected", "connect")
         = {<<"ok", "connected">>, <<"error", "disconnected">>}
    /\ Contract!Results("pg_client", "connected", "connect") = {<<"not_implemented", "connected">>}
    /\ Contract!Results("pg_client", "connected", "query")
         = {<<"ok", "connected">>, <<"error", "connected">>}
    /\ Contract!Results("pg_client", "connected", "disconnect") = {<<"ok", "disconnected">>}
    /\ Contract!InitialMode("pg_client") = "disconnected"
<1>1. Contract!CommandsOf("pg_client") = PgCmds
  <2>1. Contract!CommandTable["pg_client"] = Contract!PgCommands
    BY DEF Contract!CommandTable
  <2>2. DOMAIN Contract!PgCommands = PgCmds
    BY DEF Contract!PgCommands, PgCmds
  <2>. QED BY <2>1, <2>2 DEF Contract!CommandsOf, Contract!Types
<1>. QED
  BY <1>1 DEF Contract!Results, Contract!PgResults, Contract!InitialMode, PgCmds

LEMMA ContractCall ==
    ASSUME acall = "none", acall' \in PgCmds, aresult' = "none", mode' = mode
    PROVE  Contract!ANext
<1>1. Contract!Call
  BY PgTable DEF acall, aresult, Contract!Call
<1>. QED BY <1>1 DEF Contract!ANext

LEMMA ContractReturn ==
    ASSUME NEW c \in PgCmds, acall \in {"none", c}, acall' = "none",
           <<aresult', mode'>> \in Contract!Results("pg_client", mode, c)
    PROVE  Contract!ANext
<1>1. Contract!Return \/ Contract!CallAndReturn
  BY PgTable DEF acall, aresult, Contract!Return, Contract!CallAndReturn, Contract!Returns, PgCmds
<1>. QED BY <1>1 DEF Contract!ANext

LEMMA ContractEnd ==
    ASSUME acall' = "torn", mode' = "disconnected",
           \/ acall = "none" /\ aresult' = "ok"
           \/ acall # "torn" /\ aresult' = "none"
    PROVE  Contract!ANext
<1>1. Contract!TornDown \/ Contract!Dropped
  BY PgTable DEF acall, aresult, Contract!TornDown, Contract!Dropped
<1>. QED BY <1>1 DEF Contract!ANext

LEMMA ContractStutter ==
    ASSUME UNCHANGED <<mode, step, cmd, result>>
    PROVE  UNCHANGED Contract!avars
BY DEF Contract!avars

\* Commands that return at once, and the calls that begin.
LEMMA RefineCommands ==
    ASSUME PInv, Commands \/ ConnectStarts
    PROVE  Contract!ANext
<1>1. acall = "none"
  BY DEF Commands, NotImplemented, ConnectBadConfig, QueryBadSql, QueryStarts, Disconnect,
     ConnectStarts, Begin, acall
<1>2. CASE NotImplemented
  <2>1. PICK c \in PgCmds : \/ mode = "disconnected" /\ c # "connect"
                            \/ mode = "connected" /\ c = "connect"
    BY <1>2 DEF NotImplemented, PgCmds
  <2>2. acall' = "none" /\ aresult' = "not_implemented" /\ mode' = mode
    BY <1>2 DEF NotImplemented, Begin, session, acall, aresult
  <2>. QED BY <1>1, <2>1, <2>2, PgTable, ContractReturn
<1>3. CASE ConnectBadConfig
  <2>1. acall' = "none" /\ aresult' = "error" /\ mode = "disconnected" /\ mode' = mode
    BY <1>3 DEF ConnectBadConfig, Begin, session, acall, aresult
  <2>. QED BY <1>1, <2>1, PgTable, ContractReturn DEF PgCmds
<1>4. CASE QueryBadSql
  <2>1. acall' = "none" /\ aresult' = "error" /\ mode = "connected" /\ mode' = mode
    BY <1>4 DEF QueryBadSql, Begin, session, acall, aresult
  <2>. QED BY <1>1, <2>1, PgTable, ContractReturn DEF PgCmds
<1>5. CASE Disconnect
  <2>1. acall' = "none" /\ aresult' = "ok" /\ mode = "connected" /\ mode' = "disconnected"
    BY <1>5 DEF Disconnect, DropConnected, Begin, acall, aresult
  <2>. QED BY <1>1, <2>1, PgTable, ContractReturn DEF PgCmds
<1>6. CASE QueryStarts \/ ConnectStarts
  <2>1. acall' \in PgCmds /\ aresult' = "none" /\ mode' = mode
    BY <1>6 DEF QueryStarts, ConnectStarts, Begin, session, acall, aresult, PgCmds
  <2>. QED BY <1>1, <2>1, ContractCall
<1>. QED BY <1>2, <1>3, <1>4, <1>5, <1>6 DEF Commands

\* The call in progress returns.
LEMMA RefineReturns ==
    ASSUME PInv, ConnectReturnsOk \/ ConnectReturnsError \/ Querying
    PROVE  Contract!ANext
<1>1. CASE ConnectReturnsOk \/ ConnectReturnsError
  <2>1. acall = "connect" /\ mode = "disconnected" /\ acall' = "none"
    BY <1>1 DEF ConnectReturnsOk, ConnectReturnsError, acall, PInv, CallInv, QInv, RxInv
  <2>2. \/ aresult' = "ok" /\ mode' = "connected"
        \/ aresult' = "error" /\ mode' = mode
    BY <1>1 DEF ConnectReturnsOk, ConnectReturnsError, session, aresult
  <2>. QED BY <2>1, <2>2, PgTable, ContractReturn DEF PgCmds
<1>2. CASE Querying
  <2>1. acall = "query" /\ mode = "connected" /\ acall' = "none" /\ mode' = mode
    BY <1>2 DEF Querying, QueryReturns, HasAnswer, QueryTimesOut, QueryDone, session, acall, PInv, QInv, RxInv
  <2>2. aresult' \in {"ok", "error"}
    BY <1>2 DEF Querying, QueryReturns, HasAnswer, QueryTimesOut, QueryDone, aresult
  <2>. QED BY <2>1, <2>2, PgTable, ContractReturn DEF PgCmds
<1>. QED BY <1>1, <1>2

LEMMA RefineEnd ==
    ASSUME PInv, Teardown \/ DropInstance
    PROVE  Contract!ANext
<1>1. acall' = "torn" /\ mode' = "disconnected"
  BY DEF Teardown, DropInstance, DropConnected, acall
<1>2. CASE Teardown
  <2>1. acall = "none" /\ aresult' = "ok"
    BY <1>2 DEF Teardown, acall, aresult
  <2>. QED BY <1>1, <2>1, ContractEnd
<1>3. CASE DropInstance
  <2>1. acall # "torn" /\ aresult' = "none"
    BY <1>3 DEF DropInstance, acall, aresult, PInv, PgTypeOK, QInv, RxInv
  <2>. QED BY <1>1, <2>1, ContractEnd
<1>. QED BY <1>2, <1>3

LEMMA PgRefineStep ==
    ASSUME PInv, [PNext]_pvars
    PROVE  [Contract!ANext]_(Contract!avars)
<1>1. CASE \/ ConnectStep \/ ConnectWaits \/ ServerStep \/ TaskAnswers \/ UnexpectedAnswer
           \/ TaskLost \/ Over \/ UNCHANGED pvars
  BY <1>1, ContractStutter DEF ConnectStep, ConnectWaits, ServerStep, TaskAnswers, UnexpectedAnswer,
     TaskLost, Over, session, pvars, pgvars
<1>2. CASE \/ Commands \/ ConnectStarts \/ ConnectReturnsOk \/ ConnectReturnsError \/ Querying
           \/ Teardown \/ DropInstance
  BY <1>2, RefineCommands, RefineReturns, RefineEnd
<1>. QED BY <1>1, <1>2 DEF PNext, Connecting

\* Whatever the loop, the connection and the server do, the client behaves as the
\* harness expects: one call at a time, each returning with an outcome and a mode
\* of the runtime table, also after queries whose answers nobody waited for.
THEOREM PgMeetsContract == PSpec => ContractSpec
<1>1. PInit => Contract!AInit
  BY PgTable DEF PInit, Contract!AInit
<1>. QED
  BY <1>1, PgRefineStep, PInvariance, PTL DEF PSpec, ContractSpec, Contract!ASpec
=============================================================================
