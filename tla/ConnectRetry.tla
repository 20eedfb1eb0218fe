---------------------------- MODULE ConnectRetry ----------------------------
(***************************************************************************)
(* The retry loop of Disconnected::connect, written twice in the code with *)
(* the same control (mqtt_client/runtime.rs and pg_client/runtime.rs):     *)
(* attempts until one succeeds, fails for good or the budget is used up.   *)
(*                                                                         *)
(* Time is discrete; code between two awaits takes none.  The server is    *)
(* external: it is unbound (connections are refused), silent (a connection *)
(* is neither refused nor answered), ready, or it rejects the credentials. *)
(* It answers or refuses within AnswerTime.                                *)
(***************************************************************************)
EXTENDS Integers

CONSTANTS
    Timeout,     \* the `timeout:` budget
    Backoff,     \* the pause after a failed attempt (200 ms in the code)
    AnswerTime,  \* environment: the longest a server takes to answer
    MayHang      \* environment: the server can be silent

ASSUME RetryAssumption ==
    /\ Timeout \in Nat \ {0} /\ Backoff \in Nat \ {0}
    /\ AnswerTime \in Nat /\ MayHang \in BOOLEAN

VARIABLES
    now,        \* the clock; connect is called at 0, so the deadline is Timeout
    pc,         \* "check", "attempt", "sleep", "done"
    remaining,  \* what the loop computed before the attempt
    last,       \* last_outcome: "none" or a network error
    wake,       \* when the sleep ends
    outcome,    \* RunOutcome of connect
    server,     \* "unbound", "silent", "ready", "rejecting"
    since,      \* when the server reached that state
    asked,      \* when the attempt in progress began
    met         \* history: the server states the attempts have met

vars == <<now, pc, remaining, last, wake, outcome, server, since, asked, met>>
client == <<pc, remaining, last, wake, outcome, asked>>

Init ==
    /\ now = 0 /\ pc = "check" /\ remaining = 0 /\ last = "none"
    /\ wake = 0 /\ outcome = "none"
    /\ server = "unbound" /\ since = 0 /\ asked = 0 /\ met = {}

Return(o) ==
    /\ pc' = "done" /\ outcome' = o
    /\ UNCHANGED <<now, remaining, last, wake, server, since, asked, met>>

\* The budget is used up: the last network error, or `timeout` if there is none.
GiveUp ==
    /\ pc = "check" /\ now >= Timeout
    /\ Return(IF last = "none" THEN "timeout" ELSE last)

\* Mutant: every attempt gets the whole budget.
AttemptWholeBudget ==
    /\ pc = "check" /\ now < Timeout
    /\ pc' = "attempt" /\ remaining' = Timeout /\ asked' = now
    /\ met' = met \cup {server}
    /\ UNCHANGED <<now, last, wake, outcome, server, since>>

Attempt ==
    /\ pc = "check" /\ now < Timeout
    /\ pc' = "attempt" /\ remaining' = Timeout - now /\ asked' = now
    /\ met' = met \cup {server}
    /\ UNCHANGED <<now, last, wake, outcome, server, since>>

\* tokio::time::timeout(remaining, ...) elapses.
AttemptTimesOut ==
    /\ pc = "attempt" /\ now >= asked + remaining
    /\ Return("timeout")

AttemptSucceeds ==
    /\ pc = "attempt" /\ server = "ready"
    /\ Return("ok")

\* The server's own refusal is final.
AttemptRejected ==
    /\ pc = "attempt" /\ server = "rejecting"
    /\ Return("connect")

\* Mutant: a transport failure is final too.
AttemptRefusedFinal ==
    /\ pc = "attempt" /\ (since >= asked \/ server = "unbound")
    /\ Return("network")

\* Mutant: the pause is the whole rest of the budget.
AttemptRefusedPatient ==
    /\ pc = "attempt" /\ (since >= asked \/ server = "unbound")
    /\ last' = "network"
    /\ pc' = "sleep" /\ wake' = now + remaining
    /\ UNCHANGED <<now, remaining, outcome, server, since, asked, met>>

\* A transport failure is transient.  An attempt that began before the server
\* was bound may also fail after it.  The pause is bounded by the budget that
\* was left BEFORE the attempt.
AttemptRefused ==
    /\ pc = "attempt" /\ (since >= asked \/ server = "unbound")
    /\ last' = "network"
    /\ pc' = "sleep"
    /\ wake' = now + (IF Backoff < remaining THEN Backoff ELSE remaining)
    /\ UNCHANGED <<now, remaining, outcome, server, since, asked, met>>

WakeUp ==
    /\ pc = "sleep" /\ now >= wake
    /\ pc' = "check"
    /\ UNCHANGED <<now, remaining, last, wake, outcome, server, since, asked, met>>

-----------------------------------------------------------------------------
(* The server and the clock (external).                                    *)

\* Some attempt met a silent server.
Hung == "silent" \in met

ServerBinds ==
    /\ pc # "done" /\ server \in {"unbound", "silent"}
    /\ server' \in {"ready", "rejecting"} \cup
          (IF MayHang /\ server = "unbound" THEN {"silent"} ELSE {})
    /\ since' = now
    /\ met' = IF pc = "attempt" THEN met \cup {server'} ELSE met
    /\ UNCHANGED <<now, client>>

\* Timers fire on time and a server that is not silent answers on time.
Tick ==
    /\ \/ pc = "sleep" /\ now < wake
       \/ /\ pc = "attempt" /\ now < asked + remaining
          /\ server # "silent" => now < asked + AnswerTime \/ Hung
    /\ now' = now + 1
    /\ UNCHANGED <<client, server, since, met>>

Terminated == pc = "done" /\ UNCHANGED vars

Loop == GiveUp \/ Attempt \/ AttemptTimesOut \/ AttemptSucceeds \/ AttemptRejected
            \/ AttemptRefused \/ WakeUp

Next == Loop \/ ServerBinds \/ Tick \/ Terminated

Spec == Init /\ [][Next]_vars

-----------------------------------------------------------------------------
\* The loop's variables have their types; in particular the saturating
\* subtraction never leaves an attempt a negative budget.
TypeOK ==
    /\ now \in Nat /\ pc \in {"check", "attempt", "sleep", "done"}
    /\ remaining \in 0..Timeout /\ last \in {"none", "network"}
    /\ wake \in Nat /\ asked \in 0..Timeout
    /\ outcome \in {"none", "ok", "connect", "network", "timeout"}
    /\ server \in {"unbound", "silent", "ready", "rejecting"}
    /\ since \in 0..now
    /\ met \subseteq {"unbound", "silent", "ready", "rejecting"}

OkWithinBudget == outcome = "ok" => now <= Timeout

\* connect returns by the deadline, plus at most one pause: the budget the pause
\* is capped with is stale by the time the attempt has failed.  A connection is
\* never handed out after the deadline.
ReturnsInTime == now <= Timeout + Backoff /\ OkWithinBudget

\* A server that becomes ready early enough (one refused attempt, one pause and
\* one answer before the deadline) is reached: connect does not give up on a
\* server that was merely slow to start.
ReadyServerReached ==
    /\ pc = "done" /\ server = "ready" /\ ~Hung
    /\ since + AnswerTime + Backoff + AnswerTime < Timeout
    => outcome = "ok"
=============================================================================
