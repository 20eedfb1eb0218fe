------------------------------ MODULE ExecActor -----------------------------
(***************************************************************************)
(* The runtime of the `exec` actor (actor_type/exec/runtime.rs) and the    *)
(* operating-system process it owns.                                       *)
(*                                                                         *)
(* Three parties: the harness calling `run` and `teardown` on the          *)
(* instance, the child process, which can exit at any time, may ignore     *)
(* SIGTERM and may be one the system lets us send no signal to, and the    *)
(* runtime's orphan reaper, which collects children whose handle was       *)
(* dropped (kill_on_drop).  An exited child is a zombie until somebody     *)
(* waits for it.                                                           *)
(***************************************************************************)
EXTENDS Naturals

CONSTANT MaxRuns   \* bound: calls of `run`

ASSUME ExecAssumption == MaxRuns \in Nat

VARIABLES
    mode,      \* ExecInstance.mode
    pc,        \* "idle", "grace" (timeout around wait), "reap" (last wait)
    outcome,   \* result of the last command
    tore,      \* TeardownOutcome: "none", "ok", "failed"
    calls,     \* calls of `run` so far
    handle,    \* who holds the Child: "none", "owned", "orphaned", "gone"
    proc,      \* "none", "alive", "zombie", "reaped"
    shield,    \* signals without effect on the child: "none", "term" (it
               \* ignores SIGTERM), "all" (the system refuses to send any)
    signals,   \* signals sent to the child and not yet acted on
    killed,    \* start_kill was Ok
    waitFailed \* history: the last wait of a teardown returned an error

vars == <<mode, pc, outcome, tore, calls, handle, proc, shield, signals, killed, waitFailed>>

Init ==
    /\ mode = "stopped" /\ pc = "idle" /\ outcome = "none" /\ tore = "none"
    /\ calls = 0 /\ handle = "none" /\ proc = "none" /\ shield = "none"
    /\ signals = {} /\ killed = FALSE /\ waitFailed = FALSE

\* The instance exists and has no call in progress.
Ready == pc = "idle" /\ handle \in {"none", "owned"} /\ tore = "none"

\* The signals on their way once s has been sent, or refused.
Send(s) == IF shield = "all" THEN signals ELSE signals \cup {s}

-----------------------------------------------------------------------------
(* execute.                                                                *)

BeginRun == Ready /\ calls < MaxRuns /\ calls' = calls + 1

\* Stopped::run: the command line, the env or the spawn itself fails.
RunFails ==
    /\ BeginRun /\ mode = "stopped"
    /\ outcome' = "error"
    /\ UNCHANGED <<mode, pc, tore, handle, proc, shield, signals, killed, waitFailed>>

\* Mutant: a child that has exited before its pid is read is an error that
\* keeps the mode Running.
RunSpawnsOrErrs ==
    /\ BeginRun /\ mode = "stopped"
    /\ mode' = "running" /\ outcome' \in {"ok", "error"}
    /\ handle' = "owned" /\ proc' = "alive" /\ shield' \in {"none", "term", "all"}
    /\ UNCHANGED <<pc, tore, signals, killed, waitFailed>>

RunSpawns ==
    /\ BeginRun /\ mode = "stopped"
    /\ mode' = "running" /\ outcome' = "ok"
    /\ handle' = "owned" /\ proc' = "alive" /\ shield' \in {"none", "term", "all"}
    /\ UNCHANGED <<pc, tore, signals, killed, waitFailed>>

\* Running::execute: already_running, whether or not the child still lives.
RunAgain ==
    /\ BeginRun /\ mode = "running"
    /\ outcome' = "error"
    /\ UNCHANGED <<mode, pc, tore, handle, proc, shield, signals, killed, waitFailed>>

-----------------------------------------------------------------------------
(* teardown and Running::stop.                                             *)

TeardownStopped ==
    /\ Ready /\ mode = "stopped"
    /\ tore' = "ok"
    /\ UNCHANGED <<mode, pc, outcome, calls, handle, proc, shield, signals, killed, waitFailed>>

\* SIGTERM; the handle has not been waited for, so the pid is the child's.
StopTerm ==
    /\ Ready /\ mode = "running"
    /\ pc' = "grace"
    /\ signals' = Send("TERM")
    /\ UNCHANGED <<mode, outcome, tore, calls, handle, proc, shield, killed, waitFailed>>

\* Every way out of `stop` returns to the mode Stopped; the handle is dropped.
Stopped(result) ==
    /\ mode' = "stopped" /\ pc' = "idle" /\ tore' = result

GraceExited ==
    /\ pc = "grace" /\ proc = "zombie"
    /\ proc' = "reaped" /\ handle' = "gone"
    /\ Stopped("ok")
    /\ UNCHANGED <<outcome, calls, shield, signals, killed, waitFailed>>

\* Mutant: the child is spawned without kill_on_drop.
GraceWaitFailsNoKill ==
    /\ pc = "grace"
    /\ handle' = "orphaned"
    /\ Stopped("failed")
    /\ UNCHANGED <<outcome, calls, proc, shield, signals, killed, waitFailed>>

\* wait() itself fails: the handle is dropped unreaped, kill_on_drop applies.
GraceWaitFails ==
    /\ pc = "grace"
    /\ handle' = "orphaned" /\ signals' = Send("KILL")
    /\ Stopped("failed")
    /\ UNCHANGED <<outcome, calls, proc, shield, killed, waitFailed>>

\* Mutant: after the grace period the child is waited for without SIGKILL.
GraceExpiresNoKill ==
    /\ pc = "grace"
    /\ pc' = "reap" /\ killed' = TRUE
    /\ UNCHANGED <<mode, outcome, tore, calls, handle, proc, shield, signals, waitFailed>>

\* TEARDOWN_GRACE passes: start_kill, then wait.  The child may have exited
\* since it was last looked at.
GraceExpires ==
    /\ pc = "grace" /\ ~(proc = "alive" /\ shield = "all")
    /\ pc' = "reap" /\ signals' = Send("KILL") /\ killed' = TRUE
    /\ UNCHANGED <<mode, outcome, tore, calls, handle, proc, shield, waitFailed>>

\* As before, but start_kill is an error: the wait that follows has no timeout.
\* (A comment says that a child that has exited gives none; no property needs it.)
GraceExpiresKillFails ==
    /\ pc = "grace" /\ shield = "all"
    /\ pc' = "reap" /\ killed' = FALSE
    /\ UNCHANGED <<mode, outcome, tore, calls, handle, proc, shield, signals, waitFailed>>

\* Mutant: start_kill is not followed by a wait.
ReapWithoutWait ==
    /\ pc = "reap"
    /\ handle' = "orphaned"
    /\ Stopped(IF killed THEN "ok" ELSE "failed")
    /\ UNCHANGED <<outcome, calls, proc, shield, signals, killed, waitFailed>>

Reap ==
    /\ pc = "reap" /\ proc = "zombie"
    /\ proc' = "reaped" /\ handle' = "gone"
    /\ Stopped(IF killed THEN "ok" ELSE "failed")
    /\ UNCHANGED <<outcome, calls, shield, signals, killed, waitFailed>>

\* The last wait fails as well.  Its error is ignored: the teardown reports what
\* start_kill returned, and the child is left to kill_on_drop and the reaper.
ReapWaitFails ==
    /\ pc = "reap"
    /\ handle' = "orphaned" /\ signals' = Send("KILL") /\ waitFailed' = TRUE
    /\ Stopped(IF killed THEN "ok" ELSE "failed")
    /\ UNCHANGED <<outcome, calls, proc, shield, killed>>

\* A panic in the test body, or a cancelled teardown, drops the instance:
\* kill_on_drop sends SIGKILL and leaves the child to the reaper.
DropInstance ==
    /\ handle = "owned"
    /\ handle' = "orphaned" /\ signals' = Send("KILL")
    /\ mode' = "stopped" /\ pc' = "idle"
    /\ UNCHANGED <<outcome, tore, calls, proc, shield, killed, waitFailed>>

-----------------------------------------------------------------------------
(* The operating system and the tokio reaper (external).                   *)

ChildExits ==
    /\ proc = "alive" /\ proc' = "zombie"
    /\ UNCHANGED <<mode, pc, outcome, tore, calls, handle, shield, signals, killed, waitFailed>>

SignalEnds ==
    /\ proc = "alive"
    /\ "KILL" \in signals \/ ("TERM" \in signals /\ shield = "none")
    /\ proc' = "zombie"
    /\ UNCHANGED <<mode, pc, outcome, tore, calls, handle, shield, signals, killed, waitFailed>>

ReaperCollects ==
    /\ handle = "orphaned" /\ proc = "zombie"
    /\ proc' = "reaped" /\ handle' = "gone"
    /\ UNCHANGED <<mode, pc, outcome, tore, calls, shield, signals, killed, waitFailed>>

\* The instance is gone and its child, if there was one, is collected.
Done == (tore # "none" \/ handle \in {"orphaned", "gone"}) /\ handle # "owned"
Terminated == Done /\ proc \in {"none", "reaped"} /\ UNCHANGED vars

Harness == RunFails \/ RunSpawns \/ RunAgain
Teardown == TeardownStopped \/ StopTerm
Stop == GraceExited \/ GraceExpires \/ GraceExpiresKillFails \/ Reap
WaitFails == GraceWaitFails \/ ReapWaitFails
System == SignalEnds \/ ReaperCollects

Next ==
    \/ Harness \/ Teardown \/ Stop \/ WaitFails \/ DropInstance
    \/ ChildExits \/ System \/ Terminated

Spec == Init /\ [][Next]_vars

\* The harness always tears down, a timer fires, signals are delivered and the
\* reaper runs; a child never has to exit by itself and a wait never has to fail.
FairSpec ==
    Spec /\ WF_vars(Teardown) /\ WF_vars(Stop) /\ WF_vars(System)

-----------------------------------------------------------------------------
\* The fields have their types; the mode is Running exactly while the instance
\* owns the Child, in particular while a stop is in progress.
TypeOK ==
    /\ mode \in {"stopped", "running"} /\ pc \in {"idle", "grace", "reap"}
    /\ outcome \in {"none", "ok", "error"} /\ tore \in {"none", "ok", "failed"}
    /\ calls \in 0..MaxRuns /\ handle \in {"none", "owned", "orphaned", "gone"}
    /\ proc \in {"none", "alive", "zombie", "reaped"}
    /\ shield \in {"none", "term", "all"} /\ signals \subseteq {"TERM", "KILL"}
    /\ killed \in BOOLEAN /\ waitFailed \in BOOLEAN
    /\ mode = "running" <=> handle = "owned"
    /\ pc # "idle" => mode = "running"

\* A teardown that reports ok leaves no process running for long: no child was
\* ever started, or it has exited and been collected, or, in the one case where
\* the code ignores an error, the last wait failed: then the child has exited or
\* has a SIGKILL on its way, and the reaper holds it.
TeardownOkEnds ==
    tore = "ok" =>
        \/ proc \in {"none", "reaped"}
        \/ /\ waitFailed /\ handle = "orphaned"
           /\ proc = "zombie" \/ "KILL" \in signals

\* A process nobody has collected still has an owner that will: the instance in
\* mode Running, or the reaper with a SIGKILL on its way, unless the system lets
\* nobody signal it.
NoLostChild ==
    proc \in {"alive", "zombie"} =>
        \/ handle = "owned" /\ mode = "running"
        \/ handle = "orphaned" /\ ("KILL" \in signals \/ shield = "all")

\* The child of every run is eventually collected, also one that ignores
\* SIGTERM, also when a panic skips the teardown and also when a wait fails; only
\* one that can be sent no signal has to exit first, as long as it likes.
EventuallyReaped ==
    (proc = "zombie" \/ (proc = "alive" /\ shield # "all")) ~> (proc = "reaped")

\* The instance implements the contract the harness relies on.
Contract == INSTANCE ActorContract WITH
    Type   <- "exec",
    amode  <- mode,
    call   <- CASE Done -> "torn" [] pc # "idle" -> "teardown" [] OTHER -> "none",
    result <- IF pc # "idle" \/ (Done /\ tore = "none") THEN "none" ELSE outcome
ContractSpec == Contract!ASpec
=============================================================================
