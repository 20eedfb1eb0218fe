------------------------------ MODULE PgClient ------------------------------
(***************************************************************************)
(* The runtime of the `pg_client` actor (actor_type/pg_client/runtime.rs). *)
(*                                                                         *)
(* Two tasks: the one that executes commands, and conn_task, which drives  *)
(* the connection and hands every answer to the query it belongs to, in    *)
(* the order the queries were sent.  `connect` is the loop of module       *)
(* ConnectRetry, whose variables are parked between two calls.  A query    *)
(* that times out stops listening; its statement stays with the server.    *)
(***************************************************************************)
EXTENDS ConnectRetry, Sequences

CONSTANT MaxCalls   \* bound: commands issued

ASSUME PgAssumption == MaxCalls \in Nat

VARIABLES
    mode,      \* PgClientInstance.mode
    step,      \* "idle", "connect", "query"; "torn" after the teardown
    cmd,       \* the command in progress, or the last one
    calls,     \* commands so far; the number of a command is its identity
    result,    \* variant of the last RunOutcome
    task,      \* conn_task: "none", "running", "ended", "aborted"
    queue,     \* statements sent and not answered, oldest first
    rx,        \* the query's own answer: "none", "waiting", "ok", "db" (an error
               \* of the server), "closed", "other" (any other error)
    timed,     \* the query has a timeout
    executed   \* history: statements the server has executed

session == <<mode, task, queue, executed>>
query   == <<rx, timed>>
pgvars  == <<mode, step, cmd, calls, result, task, queue, rx, timed, executed>>
pvars   == <<pgvars, vars>>

\* The retry loop at rest (p = "done") or at its first check.
RetryAt(p) ==
    /\ now' = 0 /\ pc' = p /\ remaining' = 0 /\ last' = "none" /\ wake' = 0
    /\ outcome' = "none" /\ server' = "unbound" /\ since' = 0 /\ asked' = 0
    /\ met' = {}

PInit ==
    /\ mode = "disconnected" /\ step = "idle" /\ cmd = "none" /\ calls = 0
    /\ result = "none" /\ task = "none" /\ queue = <<>> /\ rx = "none"
    /\ timed = FALSE /\ executed = <<>>
    /\ now = 0 /\ pc = "done" /\ remaining = 0 /\ last = "none" /\ wake = 0
    /\ outcome = "none" /\ server = "unbound" /\ since = 0 /\ asked = 0 /\ met = {}

Begin(c) ==
    /\ step = "idle" /\ calls < MaxCalls
    /\ calls' = calls + 1 /\ cmd' = c

-----------------------------------------------------------------------------
(* execute.                                                                *)

NotImplemented ==
    /\ \/ mode = "disconnected" /\ \E c \in {"query", "disconnect"} : Begin(c)
       \/ mode = "connected" /\ Begin("connect")
    /\ result' = "not_implemented"
    /\ UNCHANGED <<step, session, query, vars>>

\* build_config refuses a missing or mistyped keyword.
ConnectBadConfig ==
    /\ mode = "disconnected" /\ Begin("connect")
    /\ result' = "connect"
    /\ UNCHANGED <<step, session, query, vars>>

ConnectStarts ==
    /\ mode = "disconnected" /\ Begin("connect")
    /\ step' = "connect" /\ result' = "none"
    /\ RetryAt("check")
    /\ UNCHANGED <<session, query>>

ConnectStep  == step = "connect" /\ Loop /\ UNCHANGED pgvars
ConnectWaits == step = "connect" /\ Tick /\ UNCHANGED pgvars
ServerStep   == step = "connect" /\ ServerBinds /\ UNCHANGED pgvars

ConnectReturnsOk ==
    /\ step = "connect" /\ pc = "done" /\ outcome = "ok"
    /\ mode' = "connected" /\ task' = "running"
    /\ step' = "idle" /\ result' = "ok"
    /\ RetryAt("done")
    /\ UNCHANGED <<cmd, calls, queue, executed, query>>

\* A timeout of the whole loop is a network error too.
ConnectReturnsError ==
    /\ step = "connect" /\ pc = "done" /\ outcome # "ok"
    /\ result' = IF outcome = "connect" THEN "connect" ELSE "network"
    /\ step' = "idle"
    /\ RetryAt("done")
    /\ UNCHANGED <<cmd, calls, session, query>>

\* Mutant: the early return leaves the mode that mem::take put in its place.
QueryBadSqlLosesMode ==
    /\ mode = "connected" /\ Begin("query")
    /\ result' = "query_other" /\ mode' = "disconnected" /\ task' = "aborted"
    /\ queue' = <<>>
    /\ UNCHANGED <<step, executed, query, vars>>

\* The early return of execute puts the connection back.
QueryBadSql ==
    /\ mode = "connected" /\ Begin("query")
    /\ result' = "query_other"
    /\ UNCHANGED <<step, session, query, vars>>

\* `timeout:` counts only when it is positive; 0 and below mean no timeout, as
\* does its absence.
Timeouts == {-1, 0, 1}

\* The client may refuse the statement itself, before it is sent.
QueryStarts ==
    /\ mode = "connected" /\ Begin("query")
    /\ step' = "query" /\ result' = "none"
    /\ \E kw \in Timeouts : timed' = (kw > 0)
    /\ \/ task = "running" /\ queue' = Append(queue, calls + 1) /\ rx' = "waiting"
       \/ task # "running" /\ rx' = "closed" /\ UNCHANGED queue
       \/ rx' = "other" /\ UNCHANGED queue
    /\ UNCHANGED <<mode, task, executed, vars>>

\* Mutant: the query returns and keeps listening.
QueryDoneListening(r) ==
    /\ step' = "idle" /\ result' = r
    /\ UNCHANGED <<cmd, calls, timed, rx, vars>>

QueryDone(r) ==
    /\ step' = "idle" /\ result' = r /\ rx' = "none"
    /\ UNCHANGED <<cmd, calls, timed, vars>>

HasAnswer == step = "query" /\ rx \notin {"none", "waiting"}

\* Mutant: a closed connection is taken for a query without rows.
QueryReturnsNoRows ==
    /\ HasAnswer
    /\ QueryDone(CASE rx = "db" -> "query" [] rx = "other" -> "query_other" [] OTHER -> "ok")
    /\ UNCHANGED session

\* classify_query_error: an error of the server is a query error with its
\* sqlstate, a closed connection is connection_lost, and what is left is a query
\* error too, with an empty sqlstate: "query_other" here.
QueryReturns ==
    /\ HasAnswer
    /\ QueryDone(CASE rx = "ok" -> "ok" [] rx = "db" -> "query"
                   [] rx = "closed" -> "network" [] OTHER -> "query_other")
    /\ UNCHANGED session

\* Mutant: there is no timeout around the query.
QueryUntimed ==
    /\ step = "query" /\ timed /\ rx = "none"
    /\ QueryDone("query_timeout")
    /\ UNCHANGED session

\* Mutant: a query that times out is sent once more before it gives up.
QueryTimesOutResends ==
    /\ step = "query" /\ timed /\ rx = "waiting"
    /\ QueryDone("query_timeout")
    /\ queue' = Append(queue, calls)
    /\ UNCHANGED <<mode, task, executed>>

\* The future is dropped: nobody listens, the statement stays in the queue.  An
\* answer that is there is taken first (tokio polls it before the timer).
QueryTimesOut ==
    /\ step = "query" /\ timed /\ rx = "waiting"
    /\ QueryDone("query_timeout")
    /\ UNCHANGED session

\* Mutant: dropping the session detaches conn_task.
DropConnectedDetached ==
    /\ mode' = "disconnected" /\ queue' = <<>> /\ rx' = "none"
    /\ UNCHANGED <<task, executed, timed>>

\* impl Drop for Connected: the task is aborted with what it still had queued.
DropConnected ==
    /\ mode' = "disconnected" /\ queue' = <<>> /\ rx' = "none"
    /\ task' = IF mode = "connected" THEN "aborted" ELSE task
    /\ UNCHANGED <<executed, timed>>

Disconnect ==
    /\ mode = "connected" /\ Begin("disconnect")
    /\ result' = "ok"
    /\ DropConnected
    /\ UNCHANGED <<step, vars>>

Teardown ==
    /\ step = "idle"
    /\ step' = "torn" /\ cmd' = "teardown" /\ result' = "ok"
    /\ DropConnected
    /\ UNCHANGED <<calls, vars>>

\* A panic drops the instance, with the call that is in progress.
DropInstance ==
    /\ step # "torn"
    /\ step' = "torn" /\ cmd' = "drop" /\ result' = "none"
    /\ DropConnected
    /\ RetryAt("done")
    /\ UNCHANGED calls

-----------------------------------------------------------------------------
(* conn_task and the server (external: tokio-postgres).                     *)

Answered(a) == IF rx = "waiting" /\ Head(queue) = calls THEN a ELSE rx

TaskAnswers ==
    /\ task = "running" /\ queue # <<>>
    /\ \/ rx' = Answered("ok") /\ executed' = Append(executed, Head(queue))
       \/ rx' = Answered("db") /\ UNCHANGED executed
    /\ queue' = Tail(queue)
    /\ UNCHANGED <<mode, step, cmd, calls, result, task, timed, vars>>

\* A message the client does not expect for a query, say the start of a COPY, is
\* an error of that query; the server goes on with the statement.
UnexpectedAnswer ==
    /\ task = "running" /\ queue # <<>> /\ rx = "waiting" /\ Head(queue) = calls
    /\ rx' = "other"
    /\ UNCHANGED <<session, step, cmd, calls, result, timed, vars>>

\* The connection ends, possibly between the execution and its answer.
TaskLost ==
    /\ task = "running"
    /\ task' = "ended" /\ queue' = <<>>
    /\ \/ UNCHANGED executed
       \/ queue # <<>> /\ executed' = Append(executed, Head(queue))
    /\ rx' = IF rx = "waiting" THEN "closed" ELSE rx
    /\ UNCHANGED <<mode, step, cmd, calls, result, timed, vars>>

Over == step = "torn" /\ UNCHANGED pvars

Connecting == ConnectStarts \/ ConnectStep \/ ConnectReturnsOk \/ ConnectReturnsError
Querying == QueryReturns \/ QueryTimesOut
Commands == NotImplemented \/ ConnectBadConfig \/ QueryBadSql \/ QueryStarts \/ Disconnect

PNext ==
    \/ Connecting \/ ConnectWaits \/ ServerStep \/ Querying \/ Commands
    \/ Teardown \/ DropInstance \/ TaskAnswers \/ UnexpectedAnswer \/ TaskLost
    \/ Over

PSpec == PInit /\ [][PNext]_pvars

\* The executing task is scheduled and timers fire.  Neither the server nor the
\* connection owes it anything.
PFairSpec ==
    /\ PSpec
    /\ WF_pvars(ConnectStep \/ ConnectReturnsOk \/ ConnectReturnsError)
    /\ WF_pvars(ConnectWaits) /\ WF_pvars(Querying)

-----------------------------------------------------------------------------
\* Types, also of the connect loop; a query listens only while it is in progress,
\* and the retry loop runs only inside connect.
PgTypeOK ==
    /\ TypeOK
    /\ mode \in {"disconnected", "connected"}
    /\ step \in {"idle", "connect", "query", "torn"}
    /\ calls \in 0..MaxCalls
    /\ result \in {"none", "ok", "network", "connect", "query", "query_other",
                   "query_timeout", "not_implemented"}
    /\ task \in {"none", "running", "ended", "aborted"}
    /\ queue \in Seq(Nat) /\ executed \in Seq(Nat) /\ timed \in BOOLEAN
    /\ rx \in {"none", "waiting", "ok", "db", "closed", "other"}
    /\ rx # "none" <=> step = "query"
    /\ step = "query" => mode = "connected"
    /\ pc # "done" => step = "connect"

\* The background task belongs to a session: it never outlives disconnect, the
\* teardown or a panic, and a client that is connected has one, alive or ended.
TaskOwned == mode = "connected" <=> task \in {"running", "ended"}

\* What a query reports is what became of its own statement, also after earlier
\* queries timed out and their answers came late: ok only if it was executed, a
\* query error with an sqlstate only if it was not and will not be, and
\* connection_lost only if the connection ended.  A query error without one
\* ("query_other") and a timeout leave open whether it takes effect.
VerdictIsServers ==
    cmd = "query" /\ step = "idle" =>
        /\ result = "ok" => \E i \in DOMAIN executed : executed[i] = calls
        /\ result = "query" => /\ \A i \in DOMAIN executed : executed[i] # calls
                               /\ \A i \in DOMAIN queue : queue[i] # calls
        /\ result = "network" => task = "ended"

\* Statements take effect in the order they were issued and at most once: one
\* that timed out is not sent again, and takes effect before its successors or
\* not at all.
EffectsInOrder ==
    \A i, j \in DOMAIN executed : i < j => executed[i] < executed[j]

\* connect returns whatever the server does.  A query with a timeout returns
\* although the server is silent, and a query whose connection ends returns
\* without one.
CallEnds ==
    (step = "connect" \/ (step = "query" /\ (timed \/ task = "ended")))
        ~> (step \in {"idle", "torn"})

\* The instance implements the contract the harness relies on.
Contract == INSTANCE ActorContract WITH
    Type   <- "pg_client",
    amode  <- mode,
    call   <- CASE step = "idle" -> "none" [] step = "torn" -> "torn" [] OTHER -> cmd,
    result <- IF result \in {"none", "ok", "not_implemented"} THEN result ELSE "error"

ContractSpec == Contract!ASpec
=============================================================================
