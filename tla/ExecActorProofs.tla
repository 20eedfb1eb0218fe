--------------------------- MODULE ExecActorProofs --------------------------
(***************************************************************************)
(* Proofs about ExecActor, for any number of runs.                         *)
(***************************************************************************)
EXTENDS ExecActor, TLAPS

\* Who holds the Child determines what is known of the process.
Ownership ==
    /\ handle = "none" => proc = "none"
    /\ handle = "owned" => proc \in {"alive", "zombie"}
    /\ handle = "orphaned" => /\ proc \in {"alive", "zombie"}
                              /\ "KILL" \in signals \/ shield = "all"
    /\ handle = "gone" => proc = "reaped"

\* A child that has not exited has a SIGKILL on its way.
Ending == proc = "zombie" \/ "KILL" \in signals

\* A teardown reports ok only after it has given the Child up for good, or, with
\* a failed last wait, after the kill; and an error only after it has dropped it.
OkMeansEnding ==
    /\ pc = "reap" /\ killed => Ending
    /\ tore = "ok" => \/ handle \in {"none", "gone"}
                      \/ waitFailed /\ handle = "orphaned" /\ Ending
    /\ tore = "failed" => handle \in {"orphaned", "gone"}

ChildInv == TypeOK /\ Ownership /\ OkMeansEnding

LEMMA ChildInit == Init => ChildInv
<1> SUFFICES ASSUME Init PROVE ChildInv
  OBVIOUS
<1>1. calls \in 0..MaxRuns
  BY ExecAssumption DEF Init
<1>2. waitFailed \in BOOLEAN /\ killed \in BOOLEAN
  BY DEF Init
<1> QED
  BY <1>1, <1>2 DEF Init, ChildInv, TypeOK, Ownership, OkMeansEnding

LEMMA ChildStep == ChildInv /\ [Next]_vars => ChildInv'
<1> SUFFICES ASSUME ChildInv, [Next]_vars PROVE ChildInv'
  OBVIOUS
<1> USE ExecAssumption DEF ChildInv, TypeOK, Ownership, OkMeansEnding, Ending
<1>0. BeginRun => calls' \in 0..MaxRuns /\ Ready
  BY DEF BeginRun
<1>1. CASE RunFails \/ RunAgain
  BY <1>0, <1>1 DEF RunFails, RunAgain, Ready
<1>2. CASE RunSpawns
  BY <1>0, <1>2 DEF RunSpawns, Ready
<1>3. CASE TeardownStopped
  BY <1>3 DEF TeardownStopped, Ready
<1>4. CASE StopTerm
  BY <1>4 DEF StopTerm, Ready, Send
<1>5. CASE GraceExited \/ Reap
  BY <1>5 DEF GraceExited, Reap, Stopped
<1>6. CASE WaitFails \/ DropInstance
  BY <1>6 DEF WaitFails, GraceWaitFails, ReapWaitFails, DropInstance, Stopped, Send
<1>7. CASE GraceExpires \/ GraceExpiresKillFails
  BY <1>7 DEF GraceExpires, GraceExpiresKillFails, Send
<1>8. CASE ChildExits \/ SignalEnds \/ ReaperCollects
  BY <1>8 DEF ChildExits, SignalEnds, ReaperCollects
<1>9. CASE UNCHANGED vars
  BY <1>9 DEF vars
<1> QED
  BY <1>1, <1>2, <1>3, <1>4, <1>5, <1>6, <1>7, <1>8, <1>9
     DEF Next, Harness, Teardown, Stop, System, Terminated

LEMMA ChildInvariant == Spec => []ChildInv
BY ChildInit, ChildStep, PTL DEF Spec

\* The instance is in mode Running exactly while it owns the Child.
THEOREM ExecTypeCorrect == Spec => []TypeOK
<1>1. ChildInv => TypeOK
  BY DEF ChildInv
<1> QED
  BY <1>1, ChildInvariant, PTL

\* A teardown that reports ok has left no process behind, also when the grace
\* period expired and the child ignored SIGTERM: it is collected.  The one
\* exception is a last wait that fails, whose error the code ignores; then the
\* child has exited or is being killed, and the reaper holds it.
THEOREM TeardownCorrect == Spec => []TeardownOkEnds
<1>1. ChildInv => TeardownOkEnds
  BY DEF ChildInv, Ownership, OkMeansEnding, Ending, TeardownOkEnds
<1> QED
  BY <1>1, ChildInvariant, PTL

\* No reachable state has lost its child: the instance owns it, or it is orphaned
\* with a SIGKILL on its way, unless the system refuses to send it any signal.
THEOREM ChildNeverLost == Spec => []NoLostChild
<1>1. ChildInv => NoLostChild
  BY DEF ChildInv, TypeOK, Ownership, NoLostChild
<1> QED
  BY <1>1, ChildInvariant, PTL
-----------------------------------------------------------------------------
(* The instance implements the contract of an actor instance.              *)

ecall == CASE Done -> "torn" [] pc # "idle" -> "teardown" [] OTHER -> "none"
eresult == IF pc # "idle" \/ (Done /\ tore = "none") THEN "none" ELSE outcome

\* The rows of the runtime table for exec.
LEMMA ExecTable ==
    /\ Contract!CommandsOf("exec") = {"run"}
    /\ Contract!Results("exec", "stopped", "run") = {<<"ok", "running">>, <<"error", "stopped">>}
    /\ Contract!Results("exec", "running", "run") = {<<"error", "running">>}
    /\ Contract!InitialMode("exec") = "stopped"
<1>1. Contract!CommandsOf("exec") = {"run"}
  BY DEF Contract!CommandsOf, Contract!Types, Contract!CommandTable, Contract!ExecCommands
<1> QED
  BY <1>1 DEF Contract!Results, Contract!ExecResults, Contract!InitialMode

\* `run` is called and returns in one step.
LEMMA RefineRun ==
    ASSUME ChildInv, Harness
    PROVE  Contract!ANext
<1> USE DEF BeginRun, Ready, ChildInv, TypeOK, Ownership
<1>1. ecall = "none" /\ ecall' = "none" /\ eresult' = outcome'
  BY DEF Harness, RunFails, RunSpawns, RunAgain, ecall, eresult, Done
<1>2. <<outcome', mode'>> \in Contract!Results("exec", mode, "run")
  BY ExecTable DEF Harness, RunFails, RunSpawns, RunAgain
<1>3. Contract!CallAndReturn
  BY <1>1, <1>2, ExecTable DEF Contract!CallAndReturn, Contract!Returns, ecall, eresult
<1> QED
  BY <1>3 DEF Contract!ANext

\* The teardown is called, or has nothing to stop.
LEMMA RefineTeardown ==
    ASSUME ChildInv, Teardown
    PROVE  Contract!ANext
<1> USE DEF Ready, ChildInv, TypeOK, Ownership
<1>1. CASE TeardownStopped
  <2>1. ecall = "none" /\ ecall' = "torn" /\ mode' = "stopped" /\ eresult' = outcome
    BY <1>1 DEF TeardownStopped, ecall, eresult, Done
  <2>2. Contract!TornDown
    BY <2>1, ExecTable DEF Contract!TornDown, ecall, eresult
  <2> QED
    BY <2>2 DEF Contract!ANext
<1>2. CASE StopTerm
  <2>1. ecall = "none" /\ ecall' = "teardown" /\ mode' = mode /\ eresult' = "none"
    BY <1>2 DEF StopTerm, ecall, eresult, Done
  <2>2. Contract!Call
    BY <2>1, ExecTable DEF Contract!Call, ecall, eresult
  <2> QED
    BY <2>2 DEF Contract!ANext
<1> QED
  BY <1>1, <1>2 DEF Teardown

\* Every way out of `stop` ends the instance in its initial mode.
LEMMA RefineStopped ==
    ASSUME ChildInv, GraceExited \/ Reap \/ WaitFails
    PROVE  Contract!ANext
<1>1. ecall = "teardown"
  BY DEF GraceExited, Reap, WaitFails, GraceWaitFails, ReapWaitFails, ecall, Done, ChildInv, TypeOK
<1>2. ecall' = "torn" /\ mode' = "stopped" /\ eresult' = outcome
  BY DEF GraceExited, Reap, WaitFails, GraceWaitFails, ReapWaitFails, Stopped, ecall, eresult, Done
<1>3. Contract!TornDown
  BY <1>1, <1>2, ExecTable DEF Contract!TornDown, ecall, eresult, ChildInv, TypeOK
<1> QED
  BY <1>3 DEF Contract!ANext

LEMMA RefineDrop ==
    ASSUME ChildInv, DropInstance
    PROVE  Contract!ANext
<1>1. ecall # "torn" /\ ecall' = "torn" /\ mode' = "stopped" /\ eresult' = "none"
  BY DEF DropInstance, ecall, eresult, Done, ChildInv, TypeOK, OkMeansEnding
<1>2. Contract!Dropped
  BY <1>1, ExecTable DEF Contract!Dropped, ecall, eresult
<1> QED
  BY <1>2 DEF Contract!ANext

\* The contract does not see the signals, the exit of the child or the reaper.
LEMMA RefineHidden ==
    ASSUME ChildInv, \/ GraceExpires \/ GraceExpiresKillFails \/ ChildExits \/ System
                     \/ UNCHANGED vars
    PROVE  UNCHANGED Contract!avars
<1>1. /\ UNCHANGED <<mode, outcome, tore>>
      /\ pc' # "idle" <=> pc # "idle"
      /\ handle' = handle \/ (handle = "orphaned" /\ handle' = "gone")
  BY DEF GraceExpires, GraceExpiresKillFails, ChildExits, System, SignalEnds, ReaperCollects, vars
<1>2. Done' <=> Done
  BY <1>1 DEF Done
<1>3. ecall' = ecall /\ eresult' = eresult
  BY <1>1, <1>2 DEF ecall, eresult
<1> QED
  BY <1>1, <1>3 DEF Contract!avars, ecall, eresult

LEMMA ExecRefineStep ==
    ASSUME ChildInv, [Next]_vars
    PROVE  [Contract!ANext]_(Contract!avars)
BY RefineRun, RefineTeardown, RefineStopped, RefineDrop, RefineHidden DEF Next, Stop, Terminated

\* Whatever the child process, the timer and the reaper do, the instance behaves
\* as the harness expects: a run returns with an outcome and a mode of the
\* runtime table, and every teardown, also a failed or an abandoned one, leaves
\* the instance in its initial mode, once.
THEOREM ExecMeetsContract == Spec => ContractSpec
<1>1. Init => Contract!AInit
  BY ExecTable DEF Init, Contract!AInit, Done
<1> QED
  BY <1>1, ExecRefineStep, ChildInvariant, PTL DEF Spec, ContractSpec, Contract!ASpec
=============================================================================
