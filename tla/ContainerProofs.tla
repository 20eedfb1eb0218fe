--------------------------- MODULE ContainerProofs --------------------------
(***************************************************************************)
(* Theorems about module ContainerActor, for every number of calls, every  *)
(* set of port numbers and every set of image references.                  *)
(***************************************************************************)
EXTENDS ContainerActor, SequenceTheorems, WellFoundedInduction, TLAPS

Containers == [state : {"none", "alive", "gone"}, port : SUBSET (0..U16Max)]

\* What the step of a call implies of the mode, the handle and the command.
StepInv ==
    /\ cont \in [Runs -> Containers]
    /\ step = "starting" => mode = "stopped" /\ calls # 0 /\ cmd = "run"
    /\ step = "torn" => mode = "stopped"
    /\ step = "idle" /\ mode = "running" => cmd = "run"

IInv == TypeOK /\ StepInv /\ NoOrphan /\ PortFreed

\* value_as_u16 gives ports.
LEMMA PortRange == ASSUME NEW v PROVE value_as_u16(v) \in SUBSET (0..U16Max)
BY DEF value_as_u16

LEMMA PublishedRange == Published \in SUBSET (0..U16Max)
BY PortRange DEF Published

\* A removed container leaves the others as they are.
LEMMA GoneContainers ==
    ASSUME IInv, own \in Runs
    PROVE  /\ Gone \in [Runs -> Containers]
           /\ Gone[own].state = "gone"
           /\ \A i \in Runs : i # own => Gone[i] = cont[i]
BY DEF Gone, IInv, StepInv, Containers

\* A call that returns without its handle: what is left is types, and that no
\* container is alive unless its removal was refused.
LEMMA ReturnInv ==
    ASSUME IInv, NEW r, ReturnStopped(r),
           UNCHANGED <<stage, internal, calls>>,
           cont' \in [Runs -> Containers], lost' \in SUBSET Runs,
           \A i \in Runs : cont'[i].state = "alive" => i \in lost',
           r = "port_in_use" => lost' # {}
    PROVE  IInv'
<1>1. TypeOK'
  BY DEF IInv, TypeOK, ReturnStopped, Containers
<1>2. StepInv'
  BY DEF StepInv, ReturnStopped
<1>3. NoOrphan' /\ PortFreed'
  BY DEF NoOrphan, PortFreed, ReturnStopped
<1>. QED BY <1>1, <1>2, <1>3 DEF IInv

\* While nobody holds a handle every live container is one whose removal was
\* refused.
LEMMA Unowned ==
    ASSUME IInv, own = 0
    PROVE  \A i \in Runs : cont[i].state = "alive" => i \in lost
BY ContainerAssumption DEF IInv, NoOrphan, Runs

LEMMA InitInv == Init => IInv
BY ContainerAssumption
DEF Init, IInv, TypeOK, StepInv, NoOrphan, PortFreed, Containers, NoContainer, Runs

\* A call that neither starts nor removes anything.
Quiet ==
    \/ Construct \/ Run \/ RunAgain \/ StopStopped \/ StopRunning \/ Teardown
    \/ DropInstance \/ Over

LEMMA QuietInv == ASSUME IInv, Quiet PROVE IInv'
<1>. USE ContainerAssumption
<1>1. CASE ConstructFails
  BY <1>1 DEF ConstructFails, IInv, TypeOK, StepInv, NoOrphan, PortFreed, daemon
<1>2. ASSUME NEW img, NEW file, NEW port, ConstructOk(img, file, port) PROVE IInv'
  <2>1. internal' \in SUBSET (0..U16Max)
    BY <1>2, PortRange DEF ConstructOk
  <2>. QED
    BY <1>2, <2>1 DEF ConstructOk, IInv, TypeOK, StepInv, NoOrphan, PortFreed, daemon
<1>3. ASSUME NEW port, NEW env, RunRefused(port, env) PROVE IInv'
  BY <1>3 DEF RunRefused, Begin, IInv, TypeOK, StepInv, NoOrphan, PortFreed, daemon, declaration
<1>4. ASSUME NEW port, NEW env, RunStarts(port, env) PROVE IInv'
  BY <1>4 DEF RunStarts, Begin, IInv, TypeOK, StepInv, NoOrphan, PortFreed, daemon, declaration
<1>5. CASE RunAgain
  BY <1>5 DEF RunAgain, Begin, IInv, TypeOK, StepInv, NoOrphan, PortFreed, daemon, declaration
<1>6. CASE StopStopped
  BY <1>6 DEF StopStopped, Begin, IInv, TypeOK, StepInv, NoOrphan, PortFreed, daemon, declaration
<1>7. CASE StopRunning
  BY <1>7 DEF StopRunning, Begin, IInv, TypeOK, StepInv, NoOrphan, PortFreed, daemon, declaration
<1>8. CASE Teardown
  BY <1>8 DEF Teardown, IInv, TypeOK, StepInv, NoOrphan, PortFreed, daemon, declaration
<1>9. CASE DropInstance
  BY <1>9 DEF DropInstance, IInv, TypeOK, StepInv, NoOrphan, PortFreed, daemon, declaration
<1>10. CASE Over
  BY <1>10 DEF Over, vars, IInv, TypeOK, StepInv, NoOrphan, PortFreed
<1>. QED
  BY <1>1, <1>2, <1>3, <1>4, <1>5, <1>6, <1>7, <1>8, <1>9, <1>10
  DEF Quiet, Construct, Run

\* The container that StartOk and StartTimesOut create.
LEMMA StartedInv ==
    ASSUME IInv, step = "starting",
           cont' = [cont EXCEPT ![calls] = [state |-> "alive", port |-> Published]]
    PROVE  /\ calls \in Runs /\ calls # 0
           /\ cont' \in [Runs -> Containers]
           /\ \A i \in Runs : cont'[i].state = "alive" => i = calls \/ i \in lost
<1>1. calls \in Runs /\ calls # 0 /\ own = 0
  BY ContainerAssumption DEF IInv, StepInv, TypeOK, Runs
<1>2. cont' \in [Runs -> Containers]
  BY <1>1, PublishedRange DEF IInv, StepInv, Containers
<1>3. \A i \in Runs : i # calls => cont'[i] = cont[i]
  BY <1>1 DEF IInv, StepInv
<1>. QED BY <1>1, <1>2, <1>3, Unowned

LEMMA StartingInv == ASSUME IInv, Starting PROVE IInv'
<1>1. CASE StartOk
  <2>1. /\ calls \in Runs /\ calls # 0
        /\ cont' \in [Runs -> Containers]
        /\ \A i \in Runs : cont'[i].state = "alive" => i = calls \/ i \in lost
    BY <1>1, StartedInv DEF StartOk
  <2>. QED
    <3>1. TypeOK'
      BY <1>1, <2>1 DEF StartOk, IInv, TypeOK, Containers, declaration
    <3>2. StepInv'
      <4>1. cmd' = "run"
        BY <1>1 DEF StartOk, IInv, StepInv
      <4>. QED BY <1>1, <2>1, <4>1 DEF StartOk, StepInv
    <3>3. NoOrphan' /\ PortFreed'
      BY <1>1, <2>1 DEF StartOk, NoOrphan, PortFreed
    <3>. QED BY <3>1, <3>2, <3>3 DEF IInv
<1>2. CASE StartFails
  <2>1. own = 0
    BY <1>2 DEF StartFails, IInv, TypeOK, StepInv
  <2>2. \A i \in Runs : cont[i].state = "alive" => i \in lost
    BY <2>1, Unowned
  <2>3. PICK r \in {"timeout", "docker_unavailable"}
                      \cup (IF InUse(Published) THEN {"port_in_use"} ELSE {}) :
            ReturnStopped(r)
    BY <1>2 DEF StartFails
  <2>4. r = "port_in_use" => lost # {}
    BY <2>2, <2>3 DEF InUse
  <2>5. /\ UNCHANGED <<stage, internal, calls, cont, lost>>
        /\ cont \in [Runs -> Containers] /\ lost \in SUBSET Runs
    BY <1>2 DEF StartFails, declaration, daemon, IInv, StepInv, TypeOK
  <2>. QED BY <2>2, <2>3, <2>4, <2>5, ReturnInv
<1>3. CASE StartTimesOut
  <2>1. /\ calls \in Runs /\ calls # 0
        /\ cont' \in [Runs -> Containers]
        /\ \A i \in Runs : cont'[i].state = "alive" => i = calls \/ i \in lost
    BY <1>3, StartedInv DEF StartTimesOut
  <2>2. TypeOK'
    BY <1>3, <2>1 DEF StartTimesOut, IInv, TypeOK, StepInv, Containers, declaration
  <2>3. StepInv'
    BY <1>3, <2>1 DEF StartTimesOut, StepInv
  <2>4. NoOrphan' /\ PortFreed'
    BY <1>3, <2>1 DEF StartTimesOut, NoOrphan, PortFreed
  <2>. QED BY <2>2, <2>3, <2>4 DEF IInv
<1>. QED BY <1>1, <1>2, <1>3 DEF Starting

LEMMA EndingInv == ASSUME IInv, Removing \/ Dropping PROVE IInv'
<1>1. own \in Runs /\ own # 0
  BY DEF Removing, Dropping, RmOk, RmFails, DropRemoves, DropRefused, IInv, TypeOK
<1>2. /\ Gone \in [Runs -> Containers] /\ Gone[own].state = "gone"
      /\ \A i \in Runs : i # own => Gone[i] = cont[i]
  BY <1>1, GoneContainers
<1>3. /\ cont \in [Runs -> Containers] /\ lost \in SUBSET Runs
      /\ \A i \in Runs : cont[i].state = "alive" => i = own \/ i \in lost
  BY DEF IInv, StepInv, TypeOK, NoOrphan
<1>4. \A i \in Runs : Gone[i].state = "alive" => i \in lost
  BY <1>2, <1>3
<1>5. result = "port_in_use" => lost # {}
  BY DEF IInv, PortFreed
<1>6. CASE RmOk
  BY <1>2, <1>3, <1>4, <1>6, ReturnInv DEF RmOk, declaration
<1>7. CASE RmFails
  <2>1. /\ cont' \in [Runs -> Containers]
        /\ \A i \in Runs : cont'[i].state = "alive" => i = own \/ i \in lost
    BY <1>2, <1>3, <1>4, <1>7 DEF RmFails
  <2>2. TypeOK'
    BY <1>7, <2>1 DEF RmFails, IInv, TypeOK, Containers, declaration
  <2>3. StepInv' /\ NoOrphan' /\ PortFreed'
    BY <1>7, <2>1 DEF RmFails, StepInv, NoOrphan, PortFreed
  <2>. QED BY <2>2, <2>3 DEF IInv
<1>8. CASE DropRemoves
  BY <1>2, <1>3, <1>4, <1>5, <1>8, ReturnInv DEF DropRemoves, declaration
<1>9. CASE DropRefused
  <2>1. /\ lost' = lost \cup {own} /\ UNCHANGED <<stage, internal, calls, cont>>
        /\ ReturnStopped(result)
    BY <1>9 DEF DropRefused, declaration
  <2>. QED BY <1>1, <1>3, <1>5, <2>1, ReturnInv
<1>. QED BY <1>6, <1>7, <1>8, <1>9 DEF Removing, Dropping

LEMMA NextInv == IInv /\ [Next]_vars => IInv'
<1>1. CASE UNCHANGED vars
  BY <1>1 DEF vars, IInv, TypeOK, StepInv, NoOrphan, PortFreed
<1>2. ASSUME IInv, Next PROVE IInv'
  BY <1>2, QuietInv, StartingInv, EndingInv DEF Next, Quiet
<1>. QED BY <1>1, <1>2

LEMMA Invariance == Spec => []IInv
BY InitInv, NextInv, PTL DEF Spec

\* Types, and the handle is held exactly while the container is running or a
\* removal is in progress.
THEOREM ContainerTypeCorrect == Spec => []TypeOK
<1>1. IInv => TypeOK
  BY DEF IInv
<1>. QED BY <1>1, Invariance, PTL

\* No container outlives its handle unless its removal was refused, whatever fails
\* in start, rm and drop.
THEOREM ContainerNeverLost == Spec => []NoOrphan
<1>1. IInv => NoOrphan
  BY DEF IInv
<1>. QED BY <1>1, Invariance, PTL

\* A stop or a teardown that reports ok has removed the container.
THEOREM OkRemoves == Spec => []OkMeansRemoved
<1>1. IInv => OkMeansRemoved
  <2>1. SUFFICES ASSUME IInv, result = "ok", cmd \in {"stop", "teardown"},
                        step \in {"idle", "torn"}
                 PROVE  own = 0
    BY Unowned DEF OkMeansRemoved
  <2>. QED BY <2>1 DEF IInv, StepInv, TypeOK
<1>. QED BY <1>1, Invariance, PTL

\* A host port is in use for a later run only if a removal was refused.
THEOREM PortsComeFree == Spec => []PortFreed
<1>1. IInv => PortFreed
  BY DEF IInv
<1>. QED BY <1>1, Invariance, PTL
-----------------------------------------------------------------------------
(* What a call in progress has promised so far.                            *)

Failures == {"bad_port", "bad_env", "already_running", "not_running", "timeout",
             "docker_unavailable", "port_in_use"}

\* Which command is at which step, and what its result can be there.
CallInv ==
    /\ cmd \in {"none", "run", "stop", "teardown", "drop"}
    /\ result \in {"none", "ok"} \cup Failures
    /\ stage # "live" => step = "idle"
    /\ step = "idle" => cmd \in {"none", "run", "stop"}
    /\ step = "starting" => cmd = "run" /\ result = "none"
    /\ step = "removing" => cmd \in {"stop", "teardown"} /\ result = "none"
    /\ step = "torn" => cmd \in {"teardown", "drop"}
    /\ step = "dropping" => cmd # "none"
    /\ step = "dropping" /\ cmd = "run" => mode = "stopped"
    /\ step = "dropping" /\ cmd \in {"stop", "teardown"} => mode = "running"
    /\ step = "dropping" /\ cmd # "drop" => result \in Failures
    /\ cmd = "drop" => result = "none"

\* A run that got to the daemon asked for a port it can have.
AskedInv == step = "starting" => ~BadPort(asked)

CInv == IInv /\ CallInv /\ AskedInv /\ PortsExact

\* The port of a new container is the one its run asked for.
LEMMA PublishedExact ==
    ASSUME ~BadPort(asked)
    PROVE  Published = IF asked = Absent THEN {} ELSE {asked.n}
BY DEF BadPort, Published, value_as_u16, Absent

LEMMA CallInit == Init => CInv
<1> SUFFICES ASSUME Init PROVE CInv
  OBVIOUS
<1>1. CallInv /\ AskedInv /\ PortsExact
  BY DEF Init, CallInv, AskedInv, PortsExact
<1> QED
  BY <1>1, InitInv DEF CInv

\* A call that is refused, starts or has nothing to do leaves the daemon alone.
LEMMA CallQuiet == ASSUME CInv, Quiet PROVE CallInv' /\ AskedInv' /\ PortsExact'
<1> USE DEF CInv, CallInv, Failures
<1>1. CASE Construct
  <2>1. UNCHANGED <<mode, step, cmd, result, asked, own, cont>> /\ step = "idle"
    BY <1>1 DEF Construct, ConstructFails, ConstructOk, daemon
  <2> QED
    BY <2>1 DEF AskedInv, PortsExact
<1>2. ASSUME NEW port, NEW env, RunRefused(port, env)
      PROVE  CallInv' /\ AskedInv' /\ PortsExact'
  BY <1>2 DEF RunRefused, Begin, AskedInv, PortsExact, declaration, IInv, TypeOK
<1>3. ASSUME NEW port, NEW env, RunStarts(port, env)
      PROVE  CallInv' /\ AskedInv' /\ PortsExact'
  BY <1>3 DEF RunStarts, Begin, AskedInv, PortsExact, BadPort, declaration
<1>4. CASE RunAgain \/ StopStopped \/ StopRunning
  BY <1>4 DEF RunAgain, StopStopped, StopRunning, Begin, AskedInv, PortsExact, declaration
<1>5. CASE Teardown \/ DropInstance
  BY <1>5 DEF Teardown, DropInstance, AskedInv, PortsExact, declaration, IInv, TypeOK
<1>6. CASE Over
  BY <1>6 DEF Over, vars, AskedInv, PortsExact, BadPort
<1> QED
  BY <1>1, <1>2, <1>3, <1>4, <1>5, <1>6 DEF Quiet, Run

\* A call that returns without its handle.
LEMMA CallReturned ==
    ASSUME CInv, NEW r \in {"none", "ok"} \cup Failures, ReturnStopped(r), UNCHANGED <<cmd, stage>>,
           step # "idle", cmd # "none", cmd = "drop" => r = "none", r = "ok" => cmd # "run"
    PROVE  CallInv' /\ AskedInv' /\ PortsExact'
<1>1. CallInv'
  BY DEF CInv, CallInv, ReturnStopped
<1>2. step' # "starting" /\ ~(cmd' = "run" /\ result' = "ok")
  BY DEF ReturnStopped
<1> QED
  BY <1>1, <1>2 DEF AskedInv, PortsExact

LEMMA CallBusy ==
    ASSUME CInv, Starting \/ Removing \/ Dropping
    PROVE  CallInv' /\ AskedInv' /\ PortsExact'
<1>1. CASE StartOk
  <2>1. calls \in Runs /\ cont \in [Runs -> Containers]
    BY <1>1, ContainerAssumption DEF StartOk, CInv, IInv, StepInv, TypeOK, Runs
  <2>2. cont'[own'].port = Published
    BY <1>1, <2>1 DEF StartOk
  <2>3. Published = IF asked = Absent THEN {} ELSE {asked.n}
    BY <1>1, PublishedExact DEF StartOk, CInv, AskedInv
  <2>4. PortsExact'
    BY <1>1, <2>2, <2>3 DEF StartOk, PortsExact, Absent
  <2> QED
    BY <1>1, <2>4 DEF StartOk, CInv, CallInv, AskedInv, Failures, declaration
<1>2. CASE StartFails
  <2>1. PICK r \in {"timeout", "docker_unavailable", "port_in_use"} : ReturnStopped(r)
    BY <1>2 DEF StartFails
  <2>2. UNCHANGED <<cmd, stage>> /\ cmd = "run" /\ step = "starting"
    BY <1>2 DEF StartFails, declaration, CInv, CallInv
  <2> QED
    BY <2>1, <2>2, CallReturned DEF Failures
<1>3. CASE StartTimesOut
  BY <1>3 DEF StartTimesOut, CInv, CallInv, IInv, StepInv, AskedInv, PortsExact, Failures,
              declaration
<1>4. CASE RmOk
  <2>1. /\ UNCHANGED <<cmd, stage>> /\ cmd \in {"stop", "teardown"} /\ step = "removing"
        /\ ReturnStopped("ok")
    BY <1>4 DEF RmOk, declaration, CInv, CallInv
  <2> QED
    BY <2>1, CallReturned
<1>5. CASE RmFails
  BY <1>5 DEF RmFails, CInv, CallInv, IInv, TypeOK, AskedInv, PortsExact, Failures, declaration
<1>6. CASE Dropping
  <2>1. UNCHANGED <<cmd, stage>> /\ step = "dropping" /\ ReturnStopped(result)
    BY <1>6 DEF Dropping, DropRemoves, DropRefused, declaration
  <2>2. /\ result \in {"none", "ok"} \cup Failures /\ cmd # "none"
        /\ cmd = "drop" => result = "none"
        /\ result = "ok" => cmd # "run"
    BY <2>1 DEF CInv, CallInv, Failures
  <2> QED
    BY <2>1, <2>2, CallReturned
<1> QED
  BY <1>1, <1>2, <1>3, <1>4, <1>5, <1>6 DEF Starting, Removing

LEMMA CallStep == CInv /\ [Next]_vars => CInv'
<1> SUFFICES ASSUME CInv, [Next]_vars PROVE CInv'
  OBVIOUS
<1>1. IInv'
  BY NextInv DEF CInv
<1>2. CASE UNCHANGED vars
  BY <1>1, <1>2 DEF vars, CInv, CallInv, AskedInv, PortsExact, BadPort
<1>3. CASE Next
  BY <1>1, <1>3, CallQuiet, CallBusy DEF CInv, Next, Quiet
<1> QED
  BY <1>2, <1>3

LEMMA CallInvariance == Spec => []CInv
BY CallInit, CallStep, PTL DEF Spec

\* A container is published on the port its run asked for, or on none.
THEOREM PortsPublished == Spec => []PortsExact
<1>1. CInv => PortsExact
  BY DEF CInv
<1> QED
  BY <1>1, CallInvariance, PTL
-----------------------------------------------------------------------------
(* The image reference.                                                    *)

\* A nonempty set of positions of a sequence has a last one.
LEMMA LastPosition ==
    ASSUME NEW n \in Nat, NEW T \in SUBSET (1..n), T # {}
    PROVE  Max(T) \in T /\ \A j \in T : j <= Max(T)
<1> DEFINE S == {d \in Nat : n - d \in T}
           R == OpToRel(<, Nat)
<1>1. S \in SUBSET Nat /\ S # {}
  <2>1. PICK i \in T : TRUE
    OBVIOUS
  <2>2. n - i \in Nat /\ n - (n - i) = i
    BY <2>1
  <2> QED
    BY <2>1, <2>2
<1>2. IsWellFoundedOn(R, Nat)
  BY NatLessThanWellFounded, Zenon
<1>3. PICK x \in S : \A y \in S : ~(<<y, x>> \in R)
  BY <1>1, <1>2, WFMin, Zenon
<1>4. \A y \in S : y < x => <<y, x>> \in R
  BY Zenon DEF OpToRel
<1> HIDE DEF R
<1>5. \A y \in S : ~(y < x)
  BY <1>3, <1>4
<1>6. \A j \in T : n - x >= j
  <2> TAKE j \in T
  <2>1. n - j \in Nat /\ n - (n - j) = j
    OBVIOUS
  <2>2. ~(n - j < x)
    BY <1>5, <2>1
  <2> QED
    BY <1>3, <2>2
<1>7. \E i \in T : \A j \in T : i >= j
  BY <1>3, <1>6
<1>8. Max(T) \in T /\ \A j \in T : Max(T) >= j
  BY <1>7, Zenon DEF Max
<1> QED
  BY <1>8

\* What a concatenation holds, position by position.
LEMMA Joined ==
    ASSUME NEW C, NEW p \in Seq(C), NEW q \in Seq(C), NEW w, w = p \o q
    PROVE  /\ w \in Seq(C) /\ Len(w) = Len(p) + Len(q)
           /\ \A j \in 1..(Len(p) + Len(q)) : w[j] = IF j <= Len(p) THEN p[j] ELSE q[j - Len(p)]
BY ConcatProperties

\* Around any of its positions a sequence falls into what is before and after it.
LEMMA SplitAt ==
    ASSUME NEW C, NEW ref \in Seq(C), NEW i \in 1..Len(ref), NEW c \in C, ref[i] = c
    PROVE  SubSeq(ref, 1, i - 1) \o <<c>> \o SubSeq(ref, i + 1, Len(ref)) = ref
<1> DEFINE A == SubSeq(ref, 1, i - 1)
           M == <<c>>
           B == SubSeq(ref, i + 1, Len(ref))
           AM == A \o M
           W == AM \o B
<1>0. Len(ref) \in Nat /\ i \in Nat /\ \A j \in 1..Len(ref) : ref[j] \in C
  OBVIOUS
<1>1. A \in Seq(C) /\ Len(A) = i - 1 /\ \A j \in 1..(i - 1) : A[j] = ref[j]
  <2>1. /\ A \in Seq(C) /\ Len(A) = (IF 1 <= i - 1 THEN (i - 1) - 1 + 1 ELSE 0)
        /\ \A j \in 1..((i - 1) - 1 + 1) : A[j] = ref[1 + j - 1]
    BY <1>0, SubSeqProperties
  <2> QED
    BY <1>0, <2>1
<1>2. /\ B \in Seq(C) /\ Len(B) = Len(ref) - i
      /\ \A j \in 1..(Len(ref) - i) : B[j] = ref[i + j]
  <2>1. /\ B \in Seq(C) /\ Len(B) = (IF i + 1 <= Len(ref) THEN Len(ref) - (i + 1) + 1 ELSE 0)
        /\ \A j \in 1..(Len(ref) - (i + 1) + 1) : B[j] = ref[(i + 1) + j - 1]
    <3>1. i + 1 \in Int /\ Len(ref) \in Int /\ \A j \in (i + 1)..Len(ref) : ref[j] \in C
      BY <1>0
    <3> QED
      BY <3>1, SubSeqProperties
  <2>2. \A j \in 1..(Len(ref) - i) : (i + 1) + j - 1 = i + j /\ j \in 1..(Len(ref) - (i + 1) + 1)
    BY <1>0
  <2>3. \A j \in 1..(Len(ref) - i) : B[j] = ref[i + j]
    BY <2>1, <2>2
  <2>4. Len(B) = Len(ref) - i
    BY <1>0, <2>1
  <2> QED
    BY <2>1, <2>3, <2>4
<1>3. M \in Seq(C) /\ Len(M) = 1 /\ M[1] = c
  OBVIOUS
<1> HIDE DEF A, B, M
<1>4. /\ AM \in Seq(C) /\ Len(AM) = Len(A) + Len(M)
      /\ \A j \in 1..(Len(A) + Len(M)) : AM[j] = IF j <= Len(A) THEN A[j] ELSE M[j - Len(A)]
  <2>1. AM = A \o M
    OBVIOUS
  <2>2. A \in Seq(C) /\ M \in Seq(C)
    BY <1>1, <1>3
  <2> HIDE DEF AM
  <2> QED
    BY <2>1, <2>2, Joined
<1> HIDE DEF AM
<1>5. /\ W \in Seq(C) /\ Len(W) = Len(AM) + Len(B)
      /\ \A j \in 1..(Len(AM) + Len(B)) : W[j] = IF j <= Len(AM) THEN AM[j] ELSE B[j - Len(AM)]
  <2>1. AM \in Seq(C) /\ B \in Seq(C)
    BY <1>2, <1>4
  <2>2. W = AM \o B
    OBVIOUS
  <2> HIDE DEF W
  <2> QED
    BY <2>1, <2>2, Joined
<1> HIDE DEF W
<1>6. Len(AM) = i /\ Len(W) = Len(ref)
  BY <1>0, <1>1, <1>2, <1>3, <1>4, <1>5
<1>7. ASSUME NEW j \in 1..Len(ref) PROVE W[j] = ref[j]
  <2>1. CASE j < i
    <3>0. j \in 1..(Len(AM) + Len(B)) /\ j <= Len(AM) /\ j \in 1..(Len(A) + Len(M))
          /\ j <= Len(A) /\ j \in 1..(i - 1)
      BY <1>0, <1>1, <1>2, <1>3, <1>6, <2>1
    <3>1. W[j] = AM[j] /\ AM[j] = A[j] /\ A[j] = ref[j]
      BY <1>1, <1>4, <1>5, <3>0
    <3> QED
      BY <3>1
  <2>2. CASE j = i
    <3>1. W[j] = AM[j] /\ AM[j] = M[1]
      BY <1>0, <1>1, <1>2, <1>3, <1>4, <1>5, <1>6, <2>2
    <3> QED
      BY <1>3, <2>2, <3>1
  <2>3. CASE j > i
    <3>1. j - i \in 1..(Len(ref) - i) /\ i + (j - i) = j
      BY <1>0, <2>3
    <3>2. W[j] = B[j - i]
      BY <1>0, <1>2, <1>5, <1>6, <2>3
    <3>3. B[j - i] = ref[i + (j - i)]
      BY <1>2, <3>1
    <3> QED
      BY <3>1, <3>2, <3>3
  <2> QED
    BY <1>0, <2>1, <2>2, <2>3
<1>8. W = ref
  BY <1>5, <1>6, <1>7, SeqEqual
<1> QED
  BY <1>8 DEF W, AM, A, M, B

\* What ImageIsTheAskedOne says of an image.
Whole(x) ==
    /\ \/ x.name \o <<":">> \o x.tag = x.ref
       \/ /\ Untagged(x.ref) /\ x.name = x.ref
          /\ x.tag \in {<<"latest">>, <<>>}
    /\ ~Contains(x.tag, "/")

LEMMA SplitImage ==
    ASSUME NEW ref \in Seq({"n", ":", "/"})
    PROVE  Whole(split_image_ref(ref))
<1> DEFINE I == {i \in 1..Len(ref) : ref[i] = ":"}
           k == IF I # {} THEN Max(I) ELSE 0
           tag == SubSeq(ref, k + 1, Len(ref))
           front == SubSeq(ref, 1, k - 1)
<1>1. split_image_ref(ref) = IF k # 0 /\ ~Contains(tag, "/") /\ tag # <<>>
                             THEN [ref |-> ref, name |-> front, tag |-> tag]
                             ELSE [ref |-> ref, name |-> ref, tag |-> <<"latest">>]
  BY DEF split_image_ref, SelectLastInSeq
<1>2. k # 0 => k \in 1..Len(ref) /\ ref[k] = ":"
  <2>1. I # {} => Max(I) \in I
    <3>1. Len(ref) \in Nat /\ I \in SUBSET (1..Len(ref))
      OBVIOUS
    <3> HIDE DEF I
    <3> QED
      BY <3>1, LastPosition
  <2> QED
    BY <2>1
<1>3. k # 0 => front \o <<":">> \o tag = ref
  <2> SUFFICES ASSUME k # 0 PROVE front \o <<":">> \o tag = ref
    OBVIOUS
  <2>1. k \in 1..Len(ref) /\ ref[k] = ":" /\ ":" \in {"n", ":", "/"}
    BY <1>2
  <2> HIDE DEF k
  <2> QED
    BY <2>1, SplitAt
<1>4. \A i \in DOMAIN ref : ref[i] = ":" => k # 0 /\ i <= k
  <2> SUFFICES ASSUME NEW i \in DOMAIN ref, ref[i] = ":" PROVE k # 0 /\ i <= k
    OBVIOUS
  <2>1. Len(ref) \in Nat /\ I \in SUBSET (1..Len(ref)) /\ i \in I
    OBVIOUS
  <2>2. Max(I) \in I /\ \A j \in I : j <= Max(I)
    <3> HIDE DEF I
    <3> QED
      BY <2>1, LastPosition
  <2> QED
    BY <2>1, <2>2
<1>5. tag = <<>> \/ Contains(tag, "/") => Untagged(ref)
  <2> SUFFICES ASSUME tag = <<>> \/ Contains(tag, "/"),
                      NEW i \in DOMAIN ref, ref[i] = ":", i # Len(ref)
               PROVE  \E j \in (i + 1)..Len(ref) : ref[j] \in {":", "/"}
    BY DEF Untagged
  <2>1. k \in 1..Len(ref) /\ ref[k] = ":" /\ i \in 1..Len(ref) /\ i <= k /\ Len(ref) \in Nat
    <3> HIDE DEF k
    <3> QED
      BY <1>2, <1>4
  <2>2. CASE i # k
    BY <2>1, <2>2
  <2>3. CASE i = k
    <3> HIDE DEF k
    <3>1. /\ Len(tag) = Len(ref) - k
          /\ \A j \in 1..Len(tag) : tag[j] = ref[k + j]
      BY <2>1
    <3> HIDE DEF tag
    <3>2. Len(tag) # 0
      BY <2>1, <2>3, <3>1
    <3>3. Contains(tag, "/")
      BY <3>2
    <3>4. PICK j \in 1..Len(tag) : tag[j] = "/"
      BY <3>3, Zenon DEF Contains
    <3> QED
      BY <2>1, <2>3, <3>1, <3>4
  <2> QED
    BY <2>2, <2>3
<1>6. k = 0 => Untagged(ref)
  BY <1>4 DEF Untagged
<1> HIDE DEF k, tag, front
<1>7. CASE k # 0 /\ ~Contains(tag, "/") /\ tag # <<>>
  BY <1>1, <1>3, <1>7 DEF Whole
<1>8. CASE ~(k # 0 /\ ~Contains(tag, "/") /\ tag # <<>>)
  <2>1. ~Contains(<<"latest">>, "/")
    BY DEF Contains
  <2> QED
    BY <1>1, <1>8, <1>5, <1>6, <2>1 DEF Whole
<1> QED
  BY <1>7, <1>8

\* The image that is pulled is the one the script asked for.
THEOREM ImageKept == Spec => []ImageIsTheAskedOne
<1>1. Init => ImageIsTheAskedOne
  BY DEF Init, ImageIsTheAskedOne, Untagged, Contains
<1>2. ImageIsTheAskedOne /\ [Next]_vars => ImageIsTheAskedOne'
  <2> SUFFICES ASSUME ImageIsTheAskedOne, [Next]_vars PROVE ImageIsTheAskedOne'
    OBVIOUS
  <2>1. image' = image \/ \E r \in ImageRefs : image' = split_image_ref(r)
    BY DEF Next, Construct, ConstructFails, ConstructOk, Run, RunRefused, RunStarts, RunAgain,
       StopStopped, StopRunning, Teardown, DropInstance, Starting, StartOk, StartFails,
       StartTimesOut, Removing, RmOk, RmFails, Dropping, DropRemoves, DropRefused, Over, vars,
       declaration
  <2>2. CASE image' = image
    BY <2>2 DEF ImageIsTheAskedOne
  <2>3. CASE \E r \in ImageRefs : image' = split_image_ref(r)
    <3>1. PICK r \in ImageRefs : image' = split_image_ref(r)
      BY <2>3
    <3>2. r \in Seq({"n", ":", "/"})
      BY <3>1, ContainerAssumption
    <3> QED
      BY <3>1, <3>2, SplitImage DEF Whole, ImageIsTheAskedOne
  <2> QED
    BY <2>1, <2>2, <2>3
<1> QED
  BY <1>1, <1>2, PTL DEF Spec
-----------------------------------------------------------------------------
(* The instance implements the contract of an actor instance.              *)

amode == IF cmd = "drop" THEN "stopped" ELSE mode
acall == CASE cmd = "drop" \/ step = "torn" -> "torn" [] step = "idle" -> "none" [] OTHER -> cmd
aresult == IF step = "dropping" \/ result = "none" THEN "none"
           ELSE IF result = "ok" THEN "ok" ELSE "error"

\* The rows of the runtime table for container.
LEMMA ContainerTable ==
    /\ Contract!CommandsOf("container") = {"run", "stop"}
    /\ Contract!Results("container", "stopped", "run")
         = {<<"ok", "running">>, <<"error", "stopped">>}
    /\ Contract!Results("container", "running", "run") = {<<"error", "running">>}
    /\ Contract!Results("container", "stopped", "stop") = {<<"error", "stopped">>}
    /\ Contract!Results("container", "running", "stop")
         = {<<"ok", "stopped">>, <<"error", "stopped">>}
    /\ Contract!InitialMode("container") = "stopped"
<1>1. Contract!CommandsOf("container") = {"run", "stop"}
  <2>1. Contract!CommandTable["container"] = Contract!ContainerCommands
    BY DEF Contract!CommandTable
  <2>2. DOMAIN Contract!ContainerCommands = {"run", "stop"}
    BY DEF Contract!ContainerCommands
  <2> QED
    BY <2>1, <2>2 DEF Contract!CommandsOf, Contract!Types
<1> QED
  BY <1>1 DEF Contract!Results, Contract!ContainerResults, Contract!InitialMode

\* A step of the instance is a call, a return, both, the end, or a stutter.
LEMMA ContractCall ==
    ASSUME acall = "none", acall' \in {"run", "stop", "teardown"}, aresult' = "none",
           amode' = amode
    PROVE  Contract!ANext
<1>1. Contract!Call
  BY ContainerTable DEF amode, acall, aresult, Contract!Call
<1> QED
  BY <1>1 DEF Contract!ANext

LEMMA ContractReturn ==
    ASSUME NEW c \in {"run", "stop"}, acall \in {"none", c}, acall' = "none",
           <<aresult', amode'>> \in Contract!Results("container", amode, c)
    PROVE  Contract!ANext
<1>1. Contract!Return \/ Contract!CallAndReturn
  BY ContainerTable DEF amode, acall, aresult, Contract!Return, Contract!CallAndReturn,
                        Contract!Returns
<1> QED
  BY <1>1 DEF Contract!ANext

LEMMA ContractTorn ==
    ASSUME acall \in {"none", "teardown"}, acall' = "torn", amode' = "stopped",
           aresult' \in {"none", "ok", "error"}
    PROVE  Contract!ANext
<1>1. Contract!TornDown
  BY ContainerTable DEF amode, acall, aresult, Contract!TornDown
<1> QED
  BY <1>1 DEF Contract!ANext

LEMMA ContractDropped ==
    ASSUME acall # "torn", acall' = "torn", amode' = "stopped", aresult' = "none"
    PROVE  Contract!ANext
<1>1. Contract!Dropped
  BY ContainerTable DEF amode, acall, aresult, Contract!Dropped
<1> QED
  BY <1>1 DEF Contract!ANext

LEMMA ContractStutter ==
    ASSUME amode' = amode, acall' = acall, aresult' = aresult
    PROVE  UNCHANGED Contract!avars
BY DEF amode, acall, aresult, Contract!avars

\* The calls that are answered without the daemon, and those that are not yet.
LEMMA RefineQuiet ==
    ASSUME CInv, Quiet
    PROVE  [Contract!ANext]_(Contract!avars)
<1> USE DEF CInv, CallInv, Failures
<1>1. CASE Construct \/ Over
  <2>1. UNCHANGED <<mode, step, cmd, result>>
    BY <1>1 DEF Construct, ConstructFails, ConstructOk, Over, vars
  <2> QED
    BY <2>1, ContractStutter DEF amode, acall, aresult
<1>2. ASSUME NEW port, NEW env, RunRefused(port, env) PROVE Contract!ANext
  <2>1. /\ acall = "none" /\ acall' = "none" /\ amode = "stopped" /\ amode' = "stopped"
        /\ aresult' = "error"
    BY <1>2 DEF RunRefused, Begin, acall, amode, aresult
  <2> QED
    BY <2>1, ContainerTable, ContractReturn
<1>3. ASSUME NEW port, NEW env, RunStarts(port, env) PROVE Contract!ANext
  <2>1. acall = "none" /\ acall' = "run" /\ aresult' = "none" /\ amode' = amode
    BY <1>3 DEF RunStarts, Begin, acall, amode, aresult
  <2> QED
    BY <2>1, ContractCall
<1>4. CASE RunAgain
  <2>1. /\ acall = "none" /\ acall' = "none" /\ amode = "running" /\ amode' = "running"
        /\ aresult' = "error"
    BY <1>4 DEF RunAgain, Begin, acall, amode, aresult
  <2> QED
    BY <2>1, ContainerTable, ContractReturn
<1>5. CASE StopStopped
  <2>1. /\ acall = "none" /\ acall' = "none" /\ amode = "stopped" /\ amode' = "stopped"
        /\ aresult' = "error"
    BY <1>5 DEF StopStopped, Begin, acall, amode, aresult
  <2> QED
    BY <2>1, ContainerTable, ContractReturn
<1>6. CASE StopRunning
  <2>1. acall = "none" /\ acall' = "stop" /\ aresult' = "none" /\ amode' = amode
    BY <1>6 DEF StopRunning, Begin, acall, amode, aresult
  <2> QED
    BY <2>1, ContractCall
<1>7. CASE Teardown /\ mode = "running"
  <2>1. acall = "none" /\ acall' = "teardown" /\ aresult' = "none" /\ amode' = amode
    BY <1>7 DEF Teardown, acall, amode, aresult
  <2> QED
    BY <2>1, ContractCall
<1>8. CASE Teardown /\ mode # "running"
  <2>1. acall = "none" /\ acall' = "torn" /\ aresult' = "ok" /\ amode' = "stopped"
    BY <1>8 DEF Teardown, acall, amode, aresult, IInv, TypeOK
  <2> QED
    BY <2>1, ContractTorn
<1>9. CASE DropInstance
  <2>1. acall # "torn" /\ acall' = "torn" /\ aresult' = "none" /\ amode' = "stopped"
    BY <1>9 DEF DropInstance, acall, amode, aresult
  <2> QED
    BY <2>1, ContractDropped
<1> QED
  BY <1>1, <1>2, <1>3, <1>4, <1>5, <1>6, <1>7, <1>8, <1>9 DEF Quiet, Run

\* The call in progress returns without its handle: a failed run, a stop, a
\* teardown, or what is left of an instance that was dropped.
LEMMA RefineReturn ==
    ASSUME CInv, NEW r \in {"none", "ok"} \cup Failures, ReturnStopped(r), cmd' = cmd,
           step \in {"starting", "removing", "dropping"},
           cmd = "drop" => r = "none", cmd # "drop" => r # "none",
           cmd = "run" => r # "ok"
    PROVE  [Contract!ANext]_(Contract!avars)
<1> USE DEF CInv, CallInv, Failures
<1>1. CASE cmd = "drop"
  <2>1. acall' = acall /\ amode' = amode /\ aresult' = aresult
    BY <1>1 DEF ReturnStopped, acall, amode, aresult
  <2> QED
    BY <2>1, ContractStutter
<1>2. CASE cmd = "teardown"
  <2>1. acall = "teardown" /\ acall' = "torn" /\ amode' = "stopped" /\ aresult' \in {"ok", "error"}
    BY <1>2 DEF ReturnStopped, acall, amode, aresult
  <2> QED
    BY <2>1, ContractTorn
<1>3. CASE cmd = "run"
  <2>1. /\ acall = "run" /\ acall' = "none" /\ amode = "stopped" /\ amode' = "stopped"
        /\ aresult' = "error"
    BY <1>3 DEF ReturnStopped, acall, amode, aresult, IInv, StepInv
  <2> QED
    BY <2>1, ContainerTable, ContractReturn
<1>4. CASE cmd = "stop"
  <2>1. /\ acall = "stop" /\ acall' = "none" /\ amode = "running" /\ amode' = "stopped"
        /\ aresult' \in {"ok", "error"}
    BY <1>4 DEF ReturnStopped, acall, amode, aresult, IInv, TypeOK
  <2> QED
    BY <2>1, ContainerTable, ContractReturn
<1>5. cmd # "none"
  OBVIOUS
<1> QED
  BY <1>1, <1>2, <1>3, <1>4, <1>5

LEMMA RefineBusy ==
    ASSUME CInv, Starting \/ Removing \/ Dropping
    PROVE  [Contract!ANext]_(Contract!avars)
<1> USE DEF CInv, CallInv, Failures
<1>1. CASE StartOk
  <2>1. /\ acall = "run" /\ acall' = "none" /\ amode = "stopped" /\ amode' = "running"
        /\ aresult' = "ok"
    BY <1>1 DEF StartOk, acall, amode, aresult, IInv, StepInv
  <2> QED
    BY <2>1, ContainerTable, ContractReturn
<1>2. CASE StartFails
  <2>1. PICK r \in {"timeout", "docker_unavailable", "port_in_use"} : ReturnStopped(r)
    BY <1>2 DEF StartFails
  <2>2. cmd' = cmd /\ cmd = "run" /\ step = "starting"
    BY <1>2 DEF StartFails
  <2> QED
    BY <2>1, <2>2, RefineReturn
<1>3. CASE StartTimesOut \/ RmFails
  <2>1. acall' = acall /\ amode' = amode /\ aresult' = aresult
    BY <1>3 DEF StartTimesOut, RmFails, acall, amode, aresult
  <2> QED
    BY <2>1, ContractStutter
<1>4. CASE RmOk
  <2>1. cmd' = cmd /\ cmd \in {"stop", "teardown"} /\ step = "removing" /\ ReturnStopped("ok")
    BY <1>4 DEF RmOk
  <2> QED
    BY <2>1, RefineReturn
<1>5. CASE Dropping
  <2>1. cmd' = cmd /\ step = "dropping" /\ ReturnStopped(result)
    BY <1>5 DEF Dropping, DropRemoves, DropRefused
  <2>2. /\ result \in {"none", "ok"} \cup Failures
        /\ cmd = "drop" => result = "none"
        /\ cmd # "drop" => result # "none"
        /\ cmd = "run" => result # "ok"
    BY <2>1
  <2> QED
    BY <2>1, <2>2, RefineReturn
<1> QED
  BY <1>1, <1>2, <1>3, <1>4, <1>5 DEF Starting, Removing

LEMMA ContainerRefineStep ==
    ASSUME CInv, [Next]_vars
    PROVE  [Contract!ANext]_(Contract!avars)
<1>1. CASE UNCHANGED vars
  BY <1>1, ContractStutter DEF vars, amode, acall, aresult
<1>2. CASE Next
  BY <1>2, RefineQuiet, RefineBusy DEF Next, Quiet
<1> QED
  BY <1>1, <1>2

\* Whatever the daemon answers or leaves unanswered, the instance behaves as the
\* harness expects: one call at a time, each returning with an outcome and a mode
\* of the runtime table, and after a teardown or a panic nothing but the drop of
\* the handle.
THEOREM ContainerMeetsContract == Spec => ContractSpec
<1>1. Init => Contract!AInit
  BY ContainerTable DEF Init, Contract!AInit
<1> QED
  BY <1>1, ContainerRefineStep, CallInvariance, PTL DEF Spec, ContractSpec, Contract!ASpec
=============================================================================
