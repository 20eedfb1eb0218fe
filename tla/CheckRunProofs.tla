--------------------------- MODULE CheckRunProofs ---------------------------
(***************************************************************************)
(* Proofs about CheckRun, for every script: any number of items, blocks    *)
(* and statements, any actor names, any command and let names.             *)
(***************************************************************************)
EXTENDS CheckRun, SequenceTheorems, WellFoundedInduction, TLAPS

Blocks == [item : {"as"}, name : Names, body : Seq(StatementNodes)]
Items == Declarations \cup Blocks

TreeOK == program \in Seq(Items)

Instances == [name : Names, type : Types, mode : Modes]

LEMMA InitialModes == \A t \in Types : InitialMode(t) \in Modes
BY DEF InitialMode, Types, Modes

LEMMA ItemFields ==
    ASSUME TreeOK, NEW i \in DOMAIN program
    PROVE  /\ program[i].name \in Names
           /\ program[i].item \in {"actor", "as"}
           /\ program[i].item = "actor" => program[i] \in Declarations
           /\ program[i].item = "as" => program[i] \in Blocks /\ program[i].body \in Seq(StatementNodes)
<1>1. program[i] \in Items
  BY DEF TreeOK
<1>2. CASE program[i] \in Declarations
  BY <1>2 DEF Declarations
<1>3. CASE program[i] \in Blocks
  BY <1>3 DEF Blocks
<1> QED
  BY <1>1, <1>2, <1>3 DEF Items
-----------------------------------------------------------------------------
(* The stages of the pipeline follow one another: the file is complete     *)
(* before it is checked, checked before it is run.                         *)

Stages ==
    /\ written \in BOOLEAN
    /\ phase \in {"idle", "run", "teardown", "done", "panicked"}
    /\ hi \in Nat \ {0} /\ hs \in Nat
    /\ ~written => VInit /\ phase = "idle"
    /\ phase = "idle" => HInit
    /\ phase # "idle" => vpass = "done"
    /\ phase = "run" => diags = {} /\ report = "none"

LEMMA TreeStep ==
    ASSUME TreeOK, SNext
    PROVE  TreeOK'
<1>1. CASE WriteActor
  <2>1. PICK d \in Declarations : program' = Append(program, d)
    BY <1>1 DEF WriteActor
  <2> QED
    BY <2>1 DEF TreeOK, Items
<1>2. CASE WriteBlock
  <2>1. PICK n \in Names, st \in StatementNodes : program' = Append(program, As(n, <<st>>))
    BY <1>2 DEF WriteBlock
  <2>2. <<st>> \in Seq(StatementNodes)
    OBVIOUS
  <2>3. As(n, <<st>>) \in Blocks
    BY <2>2 DEF As, Blocks
  <2> QED
    BY <2>1, <2>3 DEF TreeOK, Items
<1>3. CASE WriteStatement
  <2> DEFINE k == Len(program)
             b == program[k]
  <2>1. PICK st \in StatementNodes : program' = [program EXCEPT ![k].body = Append(@, st)]
    BY <1>3 DEF WriteStatement
  <2>2. program \in Seq(Items) /\ k \in Nat /\ k # 0 /\ k \in DOMAIN program
    BY <1>3 DEF WriteStatement, TreeOK
  <2>3. b \in Blocks /\ b.body \in Seq(StatementNodes)
    BY <1>3, <2>2, ItemFields DEF WriteStatement
  <2>4. Append(b.body, st) \in Seq(StatementNodes)
    BY <2>3
  <2>5. [b EXCEPT !.body = Append(@, st)] \in Blocks
    BY <2>3, <2>4 DEF Blocks
  <2>6. program' = [program EXCEPT ![k] = [b EXCEPT !.body = Append(@, st)]]
    BY <2>1
  <2> HIDE DEF k, b
  <2> QED
    BY <2>2, <2>5, <2>6 DEF TreeOK, Items
<1>4. CASE EndOfFile
  BY <1>4 DEF EndOfFile, TreeOK
<1> QED
  BY <1>1, <1>2, <1>3, <1>4 DEF SNext

LEMMA StageInit == Init => TreeOK /\ Stages
<1> SUFFICES ASSUME Init PROVE TreeOK /\ Stages
  OBVIOUS
<1>1. TreeOK
  BY DEF Init, SInit, TreeOK
<1>2. Stages
  <2>1. phase = "idle" /\ hi = 1 /\ hs = 0 /\ written = FALSE
    BY DEF Init, SInit, HInit
  <2>2. hi \in Nat \ {0} /\ hs \in Nat
    BY <2>1
  <2> QED
    BY <2>1, <2>2, Zenon DEF Init, Stages
<1> QED
  BY <1>1, <1>2

\* No step after the last write changes the script.
LEMMA ScriptFixed ==
    ASSUME Next, ~Write
    PROVE  UNCHANGED <<program, written>>
BY DEF Next, Check, VNext, RegisterActor, SkipAsBlock, EndOfRegister, SkipDeclaration,
       SkipUnusable, CheckCommand, CheckStatement, EndAsBlock, EndOfCheck, Start, Refuse,
       Run, HNext, ConstructActor, ConstructFails, EndOfWalk, NoLiveInstance, EnterBlock,
       LeaveBlock, CommandOk, CommandError, CommandNotImplemented, RunLet, AssertPasses,
       AssertFails, StatementError, ConstructPanics, CommandPanics,
       Unwind, TeardownNext, EndOfTeardown, Finished, vars

\* A step of the harness leaves the phase, or fails with a report.
LEMMA RunPhases ==
    ASSUME HNext
    PROVE  /\ phase \in {"run", "teardown"} /\ phase' \in {"run", "teardown", "done", "panicked"}
           /\ phase' = "run" => phase = "run" /\ report' = report
BY DEF HNext, Walking, AtStatement, Execute, Issued, Fail, ConstructActor, ConstructFails, EndOfWalk,
       NoLiveInstance, EnterBlock, LeaveBlock, CommandOk, CommandError, CommandNotImplemented,
       RunLet, AssertPasses, AssertFails, StatementError, ConstructPanics, CommandPanics,
       Unwind, TeardownNext, EndOfTeardown

LEMMA RunPositions ==
    ASSUME HNext, hi \in Nat \ {0}, hs \in Nat
    PROVE  hi' \in Nat \ {0} /\ hs' \in Nat
BY DEF HNext, ConstructActor, ConstructFails, EndOfWalk, NoLiveInstance, EnterBlock,
       LeaveBlock, CommandOk, CommandError, CommandNotImplemented, RunLet, AssertPasses,
       AssertFails, StatementError, ConstructPanics, CommandPanics,
       Unwind, TeardownNext, EndOfTeardown

LEMMA StageStep == TreeOK /\ Stages /\ [Next]_vars => TreeOK' /\ Stages'
<1> SUFFICES ASSUME TreeOK, Stages, [Next]_vars PROVE TreeOK' /\ Stages'
  OBVIOUS
<1>1. CASE Write
  <2>1. TreeOK'
    BY <1>1, TreeStep DEF Write
  <2>2. ~written /\ written' \in BOOLEAN
    BY <1>1 DEF Write, SNext, WriteActor, WriteBlock, WriteStatement, EndOfFile, Stages
  <2>3. UNCHANGED <<vvars, hvars>>
    BY <1>1 DEF Write
  <2> QED
    BY <2>1, <2>2, <2>3 DEF Stages, VInit, HInit, vvars, hvars
<1>2. CASE Check
  <2>1. UNCHANGED hvars /\ UNCHANGED <<program, written>> /\ written /\ phase = "idle"
    BY <1>2, ScriptFixed DEF Check, VNext, RegisterActor, SkipAsBlock, EndOfRegister, SkipDeclaration,
       SkipUnusable, CheckCommand, CheckStatement, EndAsBlock, EndOfCheck
  <2> QED
    BY <2>1 DEF TreeOK, Stages, HInit, hvars
<1>3. CASE Start \/ Refuse
  BY <1>3 DEF Start, Refuse, Accepted, TreeOK, Stages, HInit, VInit, vvars
<1>4. CASE Run
  <2>1. UNCHANGED <<program, written>> /\ UNCHANGED vvars
    BY <1>4 DEF Run, HNext, ConstructActor, ConstructFails, EndOfWalk, NoLiveInstance, EnterBlock,
       LeaveBlock, CommandOk, CommandError, CommandNotImplemented, RunLet, AssertPasses,
       AssertFails, StatementError, ConstructPanics, CommandPanics,
       Unwind, TeardownNext, EndOfTeardown
  <2>2. TreeOK'
    BY <2>1 DEF TreeOK
  <2>3. HNext
    BY <1>4 DEF Run
  <2> QED
    BY <2>1, <2>2, <2>3, RunPhases, RunPositions DEF Stages, vvars
<1>5. CASE UNCHANGED vars
  BY <1>5 DEF vars, vvars, hvars, TreeOK, Stages, VInit, HInit
<1> QED
  BY <1>1, <1>2, <1>3, <1>4, <1>5 DEF Next, Finished

LEMMA StageInvariant == Spec => [](TreeOK /\ Stages)
BY StageInit, StageStep, PTL DEF Spec
-----------------------------------------------------------------------------
(* The teardown pops the live instances: what has not been popped is a     *)
(* prefix of the construction order, what has been popped is the rest of   *)
(* it, backwards.  A panic can only come before it and drops them all.     *)

HistoryOK ==
    /\ live \in Seq(Instances)
    /\ constructed \in Seq(Names)
    /\ reports \in Seq([actor : Names, ok : BOOLEAN])

Popped ==
    /\ Len(live) + Len(reports) = Len(constructed)
    /\ \A j \in DOMAIN live : live[j].name = constructed[j]
    /\ \A j \in DOMAIN reports : reports[j].actor = constructed[Len(constructed) + 1 - j]

InOrder ==
    /\ Len(reports) = Len(constructed)
    /\ \A j \in DOMAIN reports : reports[j].actor = constructed[j]

TearInv ==
    /\ HistoryOK
    /\ phase \notin {"done", "panicked"} => Popped
    /\ phase \in {"idle", "run", "panicked"} => reports = <<>>
    /\ phase = "done" => InOrder
    /\ dropped = IF phase = "panicked" THEN constructed ELSE <<>>

\* Inside a block the current item is an `as` block of a live instance.
Entered ==
    phase = "run" /\ hs # 0 =>
        /\ hi <= Len(program) /\ HItem.item = "as" /\ hs <= Len(HItem.body) + 1
        /\ Indices(HItem.name) # {}

LEMMA Smallest ==
    ASSUME NEW T \in SUBSET Nat, T # {}
    PROVE  \E x \in T : \A y \in T : x <= y
<1> DEFINE R == OpToRel(<, Nat)
<1>1. IsWellFoundedOn(R, Nat)
  BY NatLessThanWellFounded, Zenon
<1>2. PICK x \in T : \A y \in T : ~(<<y, x>> \in R)
  BY <1>1, WFMin, Zenon
<1>3. \A y \in T : y < x => <<y, x>> \in R
  BY Zenon DEF OpToRel
<1> HIDE DEF R
<1>4. \A y \in T : ~(y < x)
  BY <1>2, <1>3
<1> QED
  BY <1>4

LEMMA FirstIndex ==
    ASSUME live \in Seq(Instances), NEW n, Indices(n) # {}
    PROVE  First(n) \in Indices(n)
<1>1. Indices(n) \in SUBSET Nat
  BY DEF Indices
<1>2. \E j \in Indices(n) : \A k \in Indices(n) : j <= k
  BY <1>1, Smallest
<1> QED
  BY <1>2, Zenon DEF First

LEMMA TearConstruct ==
    ASSUME TreeOK, Stages, TearInv, ConstructActor
    PROVE  TearInv'
<1> DEFINE x == [name |-> HItem.name, type |-> HItem.type, mode |-> InitialMode(HItem.type)]
<1>1. phase = "run" /\ phase' = "run" /\ reports' = reports /\ reports = <<>> /\ Popped /\ HistoryOK
      /\ dropped' = <<>>
  BY DEF TearInv, ConstructActor, Walking
<1>2. hi \in DOMAIN program
  BY DEF ConstructActor, Walking, TreeOK, Stages
<1>3. HItem.name \in Names
  BY <1>2, ItemFields DEF HItem
<1>4. x \in Instances
  BY <1>3, InitialModes DEF ConstructActor, Constructible, Instances
<1>5. live' = Append(live, x) /\ constructed' = Append(constructed, HItem.name) /\ x.name = HItem.name
  BY DEF ConstructActor
<1> HIDE DEF x
<1>6. HistoryOK'
  BY <1>1, <1>3, <1>4, <1>5 DEF HistoryOK
<1>7. Popped'
  BY <1>1, <1>3, <1>4, <1>5 DEF HistoryOK, Popped
<1> QED
  BY <1>1, <1>6, <1>7 DEF TearInv

LEMMA InstancesUpdate ==
    ASSUME NEW q \in Seq(Instances), NEW j \in DOMAIN q, NEW m \in Modes
    PROVE  /\ [q EXCEPT ![j].mode = m] \in Seq(Instances)
           /\ Len([q EXCEPT ![j].mode = m]) = Len(q)
           /\ \A k \in DOMAIN q : /\ [q EXCEPT ![j].mode = m][k].name = q[k].name
                                  /\ [q EXCEPT ![j].mode = m][k].type = q[k].type
                                  /\ k # j => [q EXCEPT ![j].mode = m][k] = q[k]
           /\ [q EXCEPT ![j].mode = m][j].mode = m
<1> DEFINE r == [q[j] EXCEPT !.mode = m]
<1>1. q[j] \in Instances
  OBVIOUS
<1>2. r \in Instances /\ r.name = q[j].name /\ r.type = q[j].type /\ r.mode = m
  BY <1>1 DEF Instances
<1>3. [q EXCEPT ![j].mode = m] = [q EXCEPT ![j] = r]
  OBVIOUS
<1> HIDE DEF r
<1> QED
  BY <1>2, <1>3

\* A command changes the mode of one live instance and nothing else of it.
LEMMA TearExecute ==
    ASSUME TearInv, Stages, Entered, NEW r, Execute(r), r[2] \in Modes,
           UNCHANGED <<program, hi, constructed, reports, dropped>>, phase' \in {"run", "teardown"}
    PROVE  /\ TearInv'
           /\ DOMAIN live' = DOMAIN live
           /\ \A j \in DOMAIN live : live'[j].name = live[j].name /\ live'[j].type = live[j].type
<1>0. First(HItem.name) \in DOMAIN live
  <2>1. hs # 0 /\ phase = "run"
    BY DEF Execute, Issued, AtStatement, Walking
  <2>2. Indices(HItem.name) # {} /\ live \in Seq(Instances)
    BY <2>1 DEF Entered, TearInv, HistoryOK
  <2> QED
    BY <2>2, FirstIndex DEF Indices
<1>1. live' = [live EXCEPT ![First(HItem.name)].mode = r[2]]
  BY DEF Execute, Issued
<1>2. phase = "run" /\ Popped /\ HistoryOK /\ reports = <<>> /\ dropped' = <<>>
  BY DEF TearInv, Execute, Issued, AtStatement, Walking
<1>3. HistoryOK'
  BY <1>0, <1>1, <1>2, InstancesUpdate DEF HistoryOK
<1>4. Popped'
  BY <1>0, <1>1, <1>2, InstancesUpdate DEF HistoryOK, Popped
<1>5. DOMAIN live' = DOMAIN live
      /\ \A j \in DOMAIN live : live'[j].name = live[j].name /\ live'[j].type = live[j].type
  BY <1>0, <1>1, <1>2, InstancesUpdate DEF HistoryOK
<1> QED
  BY <1>2, <1>3, <1>4, <1>5 DEF TearInv

LEMMA PopFacts ==
    ASSUME NEW S, NEW q \in Seq(S), q # <<>>
    PROVE  /\ SubSeq(q, 1, Len(q) - 1) \in Seq(S)
           /\ Len(SubSeq(q, 1, Len(q) - 1)) = Len(q) - 1
           /\ \A j \in 1..(Len(q) - 1) : SubSeq(q, 1, Len(q) - 1)[j] = q[j]
           /\ Len(q) \in Nat \ {0} /\ q[Len(q)] \in S
<1> DEFINE r == SubSeq(q, 1, Len(q) - 1)
<1>1. Len(q) \in Nat \ {0} /\ \A j \in 1..Len(q) : q[j] \in S
  OBVIOUS
<1>2. 1 \in Int /\ Len(q) - 1 \in Int /\ \A j \in 1..(Len(q) - 1) : q[j] \in S
  BY <1>1
<1>3. /\ r \in Seq(S)
      /\ Len(r) = IF 1 <= Len(q) - 1 THEN (Len(q) - 1) - 1 + 1 ELSE 0
      /\ \A j \in 1..((Len(q) - 1) - 1 + 1) : r[j] = q[1 + j - 1]
  BY <1>2, SubSeqProperties
<1> HIDE DEF r
<1>4. Len(r) = Len(q) - 1
  <2>1. \A k \in Nat \ {0} : (IF 1 <= k - 1 THEN (k - 1) - 1 + 1 ELSE 0) = k - 1
    OBVIOUS
  <2> QED
    BY <1>1, <1>3, <2>1
<1>5. \A j \in 1..(Len(q) - 1) : r[j] = q[j]
  BY <1>1, <1>3
<1> QED
  BY <1>1, <1>3, <1>4, <1>5 DEF r

LEMMA ReverseFacts ==
    ASSUME NEW S, NEW q \in Seq(S)
    PROVE  /\ [j \in DOMAIN q |-> q[Len(q) + 1 - j]] \in Seq(S)
           /\ Len([j \in DOMAIN q |-> q[Len(q) + 1 - j]]) = Len(q)
<1> DEFINE r == [j \in DOMAIN q |-> q[Len(q) + 1 - j]]
<1>1. Len(q) \in Nat /\ DOMAIN q = 1..Len(q) /\ \A j \in 1..Len(q) : q[j] \in S
  OBVIOUS
<1>2. \A j \in 1..Len(q) : Len(q) + 1 - j \in 1..Len(q)
  BY <1>1
<1>3. r \in [1..Len(q) -> S]
  BY <1>1, <1>2
<1> HIDE DEF r
<1>4. r \in Seq(S)
  BY <1>1, <1>3, SeqDef
<1> QED
  BY <1>1, <1>3, <1>4 DEF r

LEMMA TearNext ==
    ASSUME TearInv, TeardownNext
    PROVE  TearInv'
<1> DEFINE n == Len(live)
<1>1. PICK ok \in BOOLEAN : reports' = Append(reports, [actor |-> live[n].name, ok |-> ok])
  BY DEF TeardownNext
<1>2. live' = SubSeq(live, 1, n - 1) /\ phase = "teardown" /\ phase' = phase /\ constructed' = constructed
  BY DEF TeardownNext
<1>3. live \in Seq(Instances) /\ n \in Nat \ {0} /\ HistoryOK /\ Popped
  BY <1>2 DEF TeardownNext, TearInv, HistoryOK
<1>4. live[n].name \in Names /\ live[n].name = constructed[n]
  BY <1>3 DEF HistoryOK, Popped, Instances
<1>5. live' \in Seq(Instances) /\ Len(live') = n - 1 /\ \A j \in 1..(n - 1) : live'[j] = live[j]
  BY <1>2, <1>3, PopFacts
<1>6. [actor |-> live[n].name, ok |-> ok] \in [actor : Names, ok : BOOLEAN]
  BY <1>4
<1>7. Len(reports') = Len(reports) + 1 /\ reports'[Len(reports) + 1].actor = constructed[n]
      /\ \A j \in 1..Len(reports) : reports'[j] = reports[j]
  BY <1>1, <1>3, <1>4 DEF HistoryOK
<1>8. HistoryOK'
  BY <1>1, <1>2, <1>3, <1>5, <1>6 DEF HistoryOK
<1> HIDE DEF n
<1>9. Popped'
  <2>1. Len(live') + Len(reports') = Len(constructed')
    <3>1. n + Len(reports) = Len(constructed) /\ Len(reports) \in Nat
      BY <1>3 DEF n, HistoryOK, Popped
    <3> QED
      BY <1>2, <1>3, <1>5, <1>7, <3>1
  <2>2. \A j \in DOMAIN live' : live'[j].name = constructed'[j]
    <3>1. \A j \in 1..(n - 1) : j \in 1..n
      BY <1>3
    <3>2. DOMAIN live' = 1..(n - 1) /\ DOMAIN live = 1..n
      BY <1>3, <1>5 DEF n
    <3> QED
      BY <1>2, <1>3, <1>5, <3>1, <3>2 DEF Popped
  <2>3. \A j \in DOMAIN reports' : reports'[j].actor = constructed'[Len(constructed') + 1 - j]
    <3>1. n + Len(reports) = Len(constructed) /\ Len(reports) \in Nat
      BY <1>3 DEF n, HistoryOK, Popped
    <3>2. DOMAIN reports' = 1..(Len(reports) + 1) /\ DOMAIN reports = 1..Len(reports)
      BY <1>3, <1>7, <1>8 DEF HistoryOK
    <3>3. n = Len(constructed) + 1 - (Len(reports) + 1)
      BY <1>3, <3>1
    <3>4. \A j \in 1..(Len(reports) + 1) : j = Len(reports) + 1 \/ j \in 1..Len(reports)
      BY <3>1
    <3>5. ASSUME NEW j \in DOMAIN reports'
          PROVE  reports'[j].actor = constructed[Len(constructed) + 1 - j]
      <4>1. CASE j = Len(reports) + 1
        BY <1>7, <3>3, <4>1
      <4>2. CASE j \in 1..Len(reports)
        BY <1>3, <1>7, <3>2, <4>2 DEF Popped
      <4> QED
        BY <3>2, <3>4, <4>1, <4>2
    <3> QED
      BY <1>2, <3>5
  <2> QED
    BY <2>1, <2>2, <2>3 DEF Popped
<1>10. dropped' = <<>>
  BY <1>2 DEF TeardownNext, TearInv
<1> QED
  BY <1>2, <1>8, <1>9, <1>10 DEF TearInv

LEMMA TearEnd ==
    ASSUME TearInv, EndOfTeardown
    PROVE  TearInv'
<1>1. phase = "teardown" /\ phase' = "done" /\ live = <<>> /\ live' = live /\ constructed' = constructed
      /\ reports' = [j \in DOMAIN reports |-> reports[Len(reports) + 1 - j]]
      /\ dropped' = dropped /\ dropped = <<>>
  BY DEF EndOfTeardown, TearInv
<1>2. HistoryOK /\ Popped /\ Len(reports) = Len(constructed)
  BY <1>1 DEF TearInv, HistoryOK, Popped
<1>3. reports' \in Seq([actor : Names, ok : BOOLEAN]) /\ Len(reports') = Len(reports)
  BY <1>1, <1>2, ReverseFacts DEF HistoryOK
<1>4. InOrder'
  BY <1>1, <1>2, <1>3 DEF HistoryOK, Popped, InOrder
<1> QED
  BY <1>1, <1>2, <1>3, <1>4 DEF TearInv, HistoryOK

\* A step of the harness that is neither a construction, a command nor the
\* teardown leaves the instances alone.
LEMMA TearOther ==
    ASSUME TearInv, UNCHANGED <<live, constructed, reports, dropped>>,
           phase' = phase \/ (phase = "run" /\ phase' = "teardown")
    PROVE  TearInv'
BY DEF TearInv, HistoryOK, Popped, InOrder

LEMMA TearPanic ==
    ASSUME TearInv, Unwind, phase = "run"
    PROVE  TearInv'
<1>1. HistoryOK /\ Popped /\ reports = <<>> /\ UNCHANGED <<constructed, reports>>
      /\ phase' = "panicked" /\ live' = <<>> /\ dropped' = [j \in DOMAIN live |-> live[j].name]
  BY DEF TearInv, Unwind
<1>2. dropped' = constructed
  <2>1. Len(live) = Len(constructed) /\ DOMAIN live = 1..Len(live)
        /\ DOMAIN constructed = 1..Len(constructed)
    BY <1>1 DEF HistoryOK, Popped
  <2>2. constructed = [j \in DOMAIN constructed |-> constructed[j]]
    BY <1>1 DEF HistoryOK
  <2>3. DOMAIN live = DOMAIN constructed /\ \A j \in DOMAIN live : live[j].name = constructed[j]
    BY <1>1, <2>1 DEF Popped
  <2> QED
    BY <1>1, <2>2, <2>3
<1> QED
  BY <1>1, <1>2 DEF TearInv, HistoryOK

TearStart == TreeOK /\ Stages /\ TearInv /\ Entered

LEMMA TearRun ==
    ASSUME TearStart, HNext
    PROVE  TearInv' /\ Entered'
<1> USE DEF TearStart
<1>1. CASE ConstructActor
  <2>1. hs = 0 /\ hs' = 0
    BY <1>1 DEF ConstructActor, Walking, Entered
  <2> QED
    BY <1>1, <2>1, TearConstruct DEF Entered
<1>2. CASE ConstructFails \/ EndOfWalk \/ NoLiveInstance \/ AssertFails \/ StatementError
  BY <1>2, TearOther DEF ConstructFails, EndOfWalk, NoLiveInstance, AssertFails, StatementError,
                         Walking, AtStatement, Fail, Entered
<1>3. CASE EnterBlock
  <2>1. TearInv'
    BY <1>3, TearOther DEF EnterBlock, Walking
  <2>2. hi \in DOMAIN program
    BY <1>3 DEF EnterBlock, Walking, TreeOK, Stages
  <2>3. Len(HItem.body) \in Nat
    BY <1>3, <2>2, ItemFields DEF EnterBlock, Walking, HItem
  <2> QED
    BY <1>3, <2>1, <2>3 DEF EnterBlock, Walking, Entered, HItem, Indices
<1>4. CASE LeaveBlock
  BY <1>4, TearOther DEF LeaveBlock, Walking, Entered
<1>5. CASE RunLet \/ AssertPasses
  <2>1. TearInv'
    BY <1>5, TearOther DEF RunLet, AssertPasses, AtStatement, Walking
  <2> QED
    BY <1>5, <2>1 DEF RunLet, AssertPasses, AtStatement, Walking, Entered, HItem, Indices
<1>6. CASE CommandOk \/ CommandError \/ CommandNotImplemented
  <2>1. PICK m \in Modes, o \in {"ok", "error", "not_implemented"} : Execute(<<o, m>>)
    BY <1>6 DEF CommandOk, CommandError, CommandNotImplemented
  <2>2. UNCHANGED <<program, hi, constructed, reports, dropped>> /\ phase' \in {"run", "teardown"}
    BY <1>6, <2>1 DEF CommandOk, CommandError, CommandNotImplemented, Fail, Execute, Issued, AtStatement,
                      Walking
  <2>3. <<o, m>>[2] \in Modes
    OBVIOUS
  <2>4. TearInv' /\ DOMAIN live' = DOMAIN live /\ \A j \in DOMAIN live : live'[j].name = live[j].name
    BY <2>1, <2>2, <2>3, TearExecute
  <2>5. phase' = "run" => hs' = hs + 1
    BY <1>6 DEF CommandOk, CommandError, CommandNotImplemented, Fail
  <2>6. hs \in 1..Len(HItem.body) /\ HItem.item = "as" /\ hi <= Len(program)
        /\ phase = "run" /\ HItem' = HItem
    BY <2>1, <2>2 DEF Execute, Issued, AtStatement, Walking, HItem
  <2>7. Indices(HItem.name)' # {}
    <3>1. PICK j \in DOMAIN live : live[j].name = HItem.name
      BY <2>6 DEF Entered, Indices
    <3> QED
      BY <2>4, <2>6, <3>1 DEF Indices
  <2>8. Entered'
    <3> SUFFICES ASSUME phase' = "run" PROVE Entered'
      BY DEF Entered
    <3>1. hi' <= Len(program') /\ HItem'.item = "as" /\ hs' <= Len(HItem'.body) + 1
      BY <2>2, <2>5, <2>6
    <3> QED
      BY <2>7, <3>1 DEF Entered
  <2> QED
    BY <2>4, <2>8
<1>7. CASE TeardownNext \/ EndOfTeardown
  BY <1>7, TearNext, TearEnd DEF TeardownNext, EndOfTeardown, Entered
<1>8. CASE ConstructPanics \/ CommandPanics
  BY <1>8, TearPanic DEF ConstructPanics, CommandPanics, Issued, AtStatement, Walking, Unwind, Entered
<1> QED
  BY <1>1, <1>2, <1>3, <1>4, <1>5, <1>6, <1>7, <1>8 DEF HNext

LEMMA TearStep == TearStart /\ [Next]_vars => TearInv' /\ Entered'
<1> SUFFICES ASSUME TearStart, [Next]_vars PROVE TearInv' /\ Entered'
  OBVIOUS
<1>1. CASE Write
  <2>1. UNCHANGED hvars /\ phase = "idle"
    BY <1>1 DEF Write, SNext, WriteActor, WriteBlock, WriteStatement, EndOfFile, TearStart, Stages
  <2>2. UNCHANGED <<phase, live, constructed, reports, dropped>>
    BY <2>1 DEF hvars
  <2> QED
    BY <2>1, <2>2, TearOther DEF Entered, TearStart
<1>2. CASE Check
  <2>1. UNCHANGED <<phase, live, constructed, reports, dropped>> /\ phase = "idle"
    BY <1>2 DEF Check, hvars
  <2> QED
    BY <2>1, TearOther DEF Entered, TearStart
<1>3. CASE Start
  <2>1. live = <<>> /\ constructed = <<>> /\ reports = <<>> /\ dropped = <<>> /\ hs = 0
    BY <1>3 DEF Start, TearStart, Stages, HInit
  <2>2. UNCHANGED <<live, constructed, reports, dropped, hs>> /\ phase' = "run" /\ phase = "idle"
    BY <1>3 DEF Start
  <2> QED
    BY <2>1, <2>2 DEF TearStart, TearInv, HistoryOK, Popped, Entered
<1>4. CASE Refuse
  <2>1. live = <<>> /\ constructed = <<>> /\ reports = <<>> /\ dropped = <<>>
    BY <1>4 DEF Refuse, TearStart, Stages, HInit
  <2>2. UNCHANGED <<live, constructed, reports, dropped, hs>> /\ phase' = "done"
    BY <1>4 DEF Refuse
  <2> QED
    BY <2>1, <2>2 DEF TearStart, TearInv, HistoryOK, InOrder, Entered
<1>5. CASE Run
  BY <1>5, TearRun DEF Run
<1>6. CASE UNCHANGED vars
  BY <1>6 DEF vars, hvars, TearStart, TearInv, HistoryOK, Popped, InOrder, Entered, HItem, Indices
<1> QED
  BY <1>1, <1>2, <1>3, <1>4, <1>5, <1>6 DEF Next, Finished

LEMMA TearInit == Init => TearInv /\ Entered
<1> SUFFICES ASSUME Init PROVE TearInv /\ Entered
  OBVIOUS
<1>1. live = <<>> /\ constructed = <<>> /\ reports = <<>> /\ dropped = <<>> /\ hs = 0
      /\ phase = "idle"
  BY DEF Init, HInit
<1> QED
  BY <1>1 DEF TearInv, HistoryOK, Popped, Entered

LEMMA TearInvariant == Spec => []TearStart
<1>1. Init => TearStart
  BY StageInit, TearInit DEF TearStart
<1>2. TearStart /\ [Next]_vars => TearStart'
  BY StageStep, TearStep DEF TearStart
<1> QED
  BY <1>1, <1>2, PTL DEF Spec

\* When the walk over the script comes to an end, by a failure or not, every
\* actor that was constructed is torn down exactly once, the last constructed
\* first, and the report lists them in construction order.  When a construction
\* or a command panics, none is torn down and every one of them is dropped.
THEOREM TornDownOrDroppedAlways == Spec => []TornDownOrDropped
<1>1. TearStart => TornDownOrDropped
  BY DEF TearStart, TearInv, Popped, InOrder, TornDownOrDropped
<1> QED
  BY <1>1, TearInvariant, PTL
-----------------------------------------------------------------------------
(* The two tables of ActorTypes, row by row.                               *)

LEMMA CommandSets ==
    /\ CommandsOf("exec") = {"run"}
    /\ CommandsOf("container") = {"run", "stop"}
    /\ CommandsOf("pg_client") = {"connect", "query", "disconnect"}
    /\ CommandsOf("mqtt_client") = {"connect", "disconnect"} \cup MqttTraffic \cup {"receive_disconnect"}
    /\ CommandsOf("args_actor") = {"check"}
    /\ CommandsOf("http_client") = {"get", "post", "put", "delete"}
<1>1. /\ CommandTable["exec"] = ExecCommands /\ CommandTable["container"] = ContainerCommands
      /\ CommandTable["pg_client"] = PgCommands /\ CommandTable["mqtt_client"] = MqttCommands
      /\ CommandTable["args_actor"] = ArgsCommands /\ CommandTable["http_client"] = HttpCommands
  BY DEF CommandTable
<1>2. DOMAIN ExecCommands = {"run"} /\ DOMAIN ContainerCommands = {"run", "stop"}
  BY DEF ExecCommands, ContainerCommands
<1>3. DOMAIN PgCommands = {"connect", "query", "disconnect"} /\ DOMAIN ArgsCommands = {"check"}
  BY DEF PgCommands, ArgsCommands
<1>4. DOMAIN MqttCommands = {"connect", "disconnect"} \cup MqttTraffic \cup {"receive_disconnect"}
  BY DEF MqttCommands, MqttTraffic
<1>5. DOMAIN HttpCommands = {"get", "post", "put", "delete"}
  BY DEF HttpCommands
<1> QED
  BY <1>1, <1>2, <1>3, <1>4, <1>5 DEF CommandsOf, Types

LEMMA CommandEntries ==
    /\ \A c \in CommandsOf("exec") : ValidInModes("exec", c) = {"stopped"}
                                     /\ TransitionsTo("exec", c) = "running"
    /\ ValidInModes("container", "run") = {"stopped"} /\ TransitionsTo("container", "run") = "running"
    /\ ValidInModes("container", "stop") = {"running"} /\ TransitionsTo("container", "stop") = "stopped"
    /\ \A t \in {"pg_client", "mqtt_client"} :
          /\ ValidInModes(t, "connect") = {"disconnected"} /\ TransitionsTo(t, "connect") = "connected"
          /\ ValidInModes(t, "disconnect") = {"connected"}
          /\ TransitionsTo(t, "disconnect") = "disconnected"
    /\ ValidInModes("pg_client", "query") = {"connected"} /\ TransitionsTo("pg_client", "query") = NoMode
    /\ \A c \in MqttTraffic : ValidInModes("mqtt_client", c) = {"connected"}
                              /\ TransitionsTo("mqtt_client", c) = NoMode
    /\ ValidInModes("mqtt_client", "receive_disconnect") = {"connected"}
    /\ TransitionsTo("mqtt_client", "receive_disconnect") = "disconnected"
    /\ ValidInModes("args_actor", "check") = {"ready"} /\ TransitionsTo("args_actor", "check") = NoMode
    /\ \A c \in CommandsOf("http_client") : ValidInModes("http_client", c) = {"ready"}
                                            /\ TransitionsTo("http_client", c) = NoMode
<1>1. /\ CommandTable["exec"] = ExecCommands /\ CommandTable["container"] = ContainerCommands
      /\ CommandTable["pg_client"] = PgCommands /\ CommandTable["mqtt_client"] = MqttCommands
      /\ CommandTable["args_actor"] = ArgsCommands /\ CommandTable["http_client"] = HttpCommands
  BY DEF CommandTable
<1>2. ExecCommands["run"] = Entry({"stopped"}, "running")
      /\ ContainerCommands["run"] = Entry({"stopped"}, "running")
      /\ ContainerCommands["stop"] = Entry({"running"}, "stopped")
  BY DEF ExecCommands, ContainerCommands
<1>3. PgCommands["connect"] = Entry({"disconnected"}, "connected")
      /\ PgCommands["query"] = Entry({"connected"}, NoMode)
      /\ PgCommands["disconnect"] = Entry({"connected"}, "disconnected")
      /\ ArgsCommands["check"] = Entry({"ready"}, NoMode)
  BY DEF PgCommands, ArgsCommands
<1>4. MqttCommands["connect"] = Entry({"disconnected"}, "connected")
      /\ MqttCommands["disconnect"] = Entry({"connected"}, "disconnected")
      /\ MqttCommands["receive_disconnect"] = Entry({"connected"}, "disconnected")
      /\ \A c \in MqttTraffic : MqttCommands[c] = Entry({"connected"}, NoMode)
  BY DEF MqttCommands, MqttTraffic
<1>5. \A c \in CommandsOf("http_client") : HttpCommands[c] = Entry({"ready"}, NoMode)
  BY CommandSets DEF HttpCommands
<1>6. \A v, m : Entry(v, m).valid = v /\ Entry(v, m).to = m
  BY DEF Entry
<1> HIDE DEF Entry
<1> QED
  BY <1>1, <1>2, <1>3, <1>4, <1>5, <1>6, CommandSets DEF ValidInModes, TransitionsTo

LEMMA StaticModes ==
    ASSUME NEW t \in Types, NEW c \in CommandsOf(t)
    PROVE  TransitionsTo(t, c) \in Modes \cup {NoMode}
BY CommandSets, CommandEntries DEF Types, Modes, NoMode, MqttTraffic

\* A success in a mode the command is valid in ends in the mode the static
\* table promises.
LEMMA TablesAgree ==
    ASSUME NEW t \in Types, NEW c \in CommandsOf(t), NEW m \in ValidInModes(t, c), NEW m2,
           <<"ok", m2>> \in Results(t, m, c)
    PROVE  m2 = IF TransitionsTo(t, c) # NoMode THEN TransitionsTo(t, c) ELSE m
<1> USE CommandSets, CommandEntries
<1>1. CASE t = "exec"
  BY <1>1 DEF Results, ExecResults, NoMode
<1>2. CASE t = "container"
  BY <1>2 DEF Results, ContainerResults, NoMode
<1>3. CASE t = "pg_client"
  BY <1>3 DEF Results, PgResults, NoMode
<1>4. CASE t = "mqtt_client"
  BY <1>4 DEF Results, MqttResults, NoMode, MqttTraffic
<1>5. CASE t = "args_actor"
  BY <1>5 DEF Results, ArgsResults, NoMode
<1>6. CASE t = "http_client"
  BY <1>6 DEF Results, NoMode
<1> QED
  BY <1>1, <1>2, <1>3, <1>4, <1>5, <1>6 DEF Types

\* An error in a mode the command is valid in changes the mode to the initial
\* one only; and there a command that is not valid answers with no ok and stays.
LEMMA DriftTable ==
    ASSUME NEW t \in Types, NEW c \in CommandsOf(t), NEW m \in ValidInModes(t, c)
    PROVE  /\ \A m2 : <<"error", m2>> \in Results(t, m, c) /\ m2 # m =>
                        m2 = InitialMode(t) /\ m # InitialMode(t)
           /\ m # InitialMode(t) =>
                 \A r \in Results(t, InitialMode(t), c) : r[1] # "ok" /\ r[2] = InitialMode(t)
<1> USE CommandSets, CommandEntries DEF InitialMode
<1>1. CASE t = "exec"
  BY <1>1 DEF Results, ExecResults
<1>2. CASE t = "container"
  BY <1>2 DEF Results, ContainerResults
<1>3. CASE t = "pg_client"
  BY <1>3 DEF Results, PgResults
<1>4. CASE t = "mqtt_client"
  BY <1>4 DEF Results, MqttResults, MqttTraffic
<1>5. CASE t = "args_actor"
  BY <1>5 DEF Results, ArgsResults
<1>6. CASE t = "http_client"
  BY <1>6 DEF Results
<1> QED
  BY <1>1, <1>2, <1>3, <1>4, <1>5, <1>6 DEF Types
-----------------------------------------------------------------------------
(* A walk of the validator.  A snapshot is what it knows at a position     *)
(* <<i, s>>, before statement s + 1 of item i: md, the mode of every       *)
(* actor; cmd, out and pend, the open window; com, the commands committed  *)
(* to their error branch.  A walk w gives the snapshot of every position;  *)
(* a clean one (no diagnostic) takes each to the next by Step.             *)

InLine(p, i, s) == p[i].item = "as" /\ s < Len(p[i].body)
After(p, i, s) == IF InLine(p, i, s) THEN <<i, s + 1>> ELSE <<i + 1, 0>>
IsPos(p, i, s) ==
    /\ i \in 1..Len(p) /\ s \in Nat
    /\ p[i].item = "as" => s <= Len(p[i].body)
    /\ p[i].item = "actor" => s = 0
Before(i, s, j, t) == i < j \/ (i = j /\ s < t)

Ok(a) == a.out \in {"ImpliedOk", "ExplicitOk"}
Landed(a, n) == IF Ok(a) /\ a.pend # NoMode THEN a.pend ELSE a.md[n]
Closed(a, i) == IF a.cmd # 0 /\ ~Ok(a) THEN a.com \cup {<<i, a.cmd>>} ELSE a.com

CommandStep(n, t, st, i, s, a, b) ==
    /\ st.n \in CommandsOf(t) /\ Landed(a, n) \in ValidInModes(t, st.n)
    /\ b.md = [a.md EXCEPT ![n] = Landed(a, n)] /\ b.com = Closed(a, i)
    /\ b.cmd = s + 1 /\ b.out = "ImpliedOk" /\ b.pend = TransitionsTo(t, st.n)

OtherStep(st, a, b) ==
    /\ Refers(st, "ok") => a.out # "ExplicitError" /\ b.out = "ExplicitOk"
    /\ Refers(st, "error") => a.out # "ExplicitOk" /\ b.out = "ExplicitError"
    /\ ~Refers(st, "ok") /\ ~Refers(st, "error") => b.out = a.out
    /\ b.md = a.md /\ b.cmd = a.cmd /\ b.pend = a.pend /\ b.com = a.com

EndStep(n, i, a, b) ==
    /\ b.md = [a.md EXCEPT ![n] = Landed(a, n)] /\ b.com = Closed(a, i)
    /\ b.cmd = 0 /\ b.out = "ImpliedOk" /\ b.pend = NoMode

Step(p, ty, i, s, a, b) ==
    /\ p[i].item = "actor" => b = a
    /\ InLine(p, i, s) =>
          IF IsCommand(p[i].body[s + 1])
          THEN CommandStep(p[i].name, ty[p[i].name], p[i].body[s + 1], i, s, a, b)
          ELSE OtherStep(p[i].body[s + 1], a, b)
    /\ p[i].item = "as" /\ s = Len(p[i].body) => EndStep(p[i].name, i, a, b)

Begin(ty, a) ==
    /\ a.cmd = 0 /\ a.out = "ImpliedOk" /\ a.pend = NoMode /\ a.com = {}
    /\ DOMAIN a.md = Names
    /\ \A n \in Names : ty[n] \in Types => a.md[n] = InitialMode(ty[n])

\* w is a clean walk up to position <<j, t>>.
Walk(p, ty, w, j, t) ==
    /\ Begin(ty, w[<<1, 0>>])
    /\ \A i \in 1..Len(p), s \in Nat :
          IsPos(p, i, s) /\ Before(i, s, j, t) => Step(p, ty, i, s, w[<<i, s>>], w[After(p, i, s)])

\* It ends there in snapshot b.
WalkEnds(p, ty, w, j, t, b) == Walk(p, ty, w, j, t) /\ w[<<j, t>>] = b

\* The walk w ends at <<i, s>>; a step there leads to b at <<j, t>>.
OneMore(p, ty, w, i, s, b, j, t) ==
    /\ p \in Seq(Items) /\ i \in 1..Len(p) /\ s \in Nat /\ IsPos(p, i, s)
    /\ Walk(p, ty, w, i, s) /\ Step(p, ty, i, s, w[<<i, s>>], b)
    /\ j \in Nat /\ t \in Nat /\ After(p, i, s) = <<j, t>>

LEMMA ExtendWalk ==
    ASSUME NEW p, NEW ty, NEW w, NEW i, NEW s, NEW b, NEW j, NEW t,
           OneMore(p, ty, w, i, s, b, j, t)
    PROVE  \E v : WalkEnds(p, ty, v, j, t, b)
<1>0. p \in Seq(Items) /\ i \in 1..Len(p) /\ s \in Nat /\ IsPos(p, i, s) /\ Walk(p, ty, w, i, s)
      /\ Step(p, ty, i, s, w[<<i, s>>], b) /\ j \in Nat /\ t \in Nat /\ After(p, i, s) = <<j, t>>
  BY DEF OneMore
<1> USE <1>0
<1> DEFINE v == [q \in Nat \X Nat |-> IF q = <<j, t>> THEN b ELSE w[q]]
<1>1. \A k \in Nat, r \in Nat : v[<<k, r>>] = IF k = j /\ r = t THEN b ELSE w[<<k, r>>]
  OBVIOUS
<1> HIDE DEF v
<1>2. \A k \in 1..Len(p) : /\ p[k].item \in {"actor", "as"}
                           /\ p[k].item = "as" => Len(p[k].body) \in Nat
  <2>1. \A k \in 1..Len(p) : p[k] \in Items
    OBVIOUS
  <2> QED
    BY <2>1 DEF Items, Declarations, Blocks
<1>3. Len(p) \in Nat /\ i \in Nat
  OBVIOUS
<1>4. (InLine(p, i, s) /\ j = i /\ t = s + 1) \/ (~InLine(p, i, s) /\ j = i + 1 /\ t = 0)
  BY DEF After
<1>5. v[<<j, t>>] = b
  BY <1>1
<1>6. v[<<1, 0>>] = w[<<1, 0>>]
  BY <1>1, <1>3, <1>4
<1>7. v[<<i, s>>] = w[<<i, s>>]
  BY <1>1, <1>3, <1>4
<1>8. ASSUME NEW k \in 1..Len(p), NEW r \in Nat, IsPos(p, k, r), Before(k, r, j, t)
      PROVE  Step(p, ty, k, r, v[<<k, r>>], v[After(p, k, r)])
  <2>1. CASE k = i /\ r = s
    BY <1>5, <1>7, <2>1
  <2>2. CASE ~(k = i /\ r = s)
    <3>1. Before(k, r, i, s)
      BY <1>2, <1>3, <1>4, <1>8, <2>2 DEF Before, IsPos, InLine
    <3>2. v[<<k, r>>] = w[<<k, r>>]
      BY <1>1, <1>3, <1>4, <3>1 DEF Before
    <3>3. v[After(p, k, r)] = w[After(p, k, r)]
      <4>1. CASE InLine(p, k, r)
        BY <1>1, <1>3, <1>4, <3>1, <4>1 DEF Before, After
      <4>2. CASE ~InLine(p, k, r)
        <5>1. v[<<k + 1, 0>>] = w[<<k + 1, 0>>]
          BY <1>1, <1>2, <1>3, <1>4, <1>8, <3>1, <4>2 DEF Before, InLine, IsPos
        <5> QED
          BY <4>2, <5>1 DEF After
      <4> QED
        BY <4>1, <4>2
    <3> QED
      BY <1>8, <3>1, <3>2, <3>3 DEF Walk
  <2> QED
    BY <2>1, <2>2
<1>9. WalkEnds(p, ty, v, j, t, b)
  BY <1>5, <1>6, <1>8 DEF Walk, WalkEnds
<1> QED
  BY <1>9
-----------------------------------------------------------------------------
(* The first pass: without a diagnostic, every declaration has its own     *)
(* healthy entry in the symbol table.                                      *)

Symbol == [st : {"absent", "errored", "healthy"}, type : Types \cup {"none"},
           mode : Modes \cup {NoMode}]

SymbolsOK ==
    /\ symbols \in [Names -> Symbol]
    /\ \A n \in Names : symbols[n].st = "healthy" => symbols[n].type \in Types
    /\ diags = {} => \A n \in Names : symbols[n].st # "errored"

PassOK ==
    /\ vpass \in {"register", "check", "done"}
    /\ vi \in Nat \ {0} /\ vs \in Nat /\ vcmd \in Nat
    /\ pending \in Modes \cup {NoMode}
    /\ vout \in {"ImpliedOk", "ExplicitOk", "ExplicitError"}

\* The first k items are registered.
Registered(k) ==
    diags = {} =>
        \A i \in 1..k : program[i].item = "actor" =>
            /\ symbols[program[i].name].st = "healthy"
            /\ symbols[program[i].name].type = program[i].type
            /\ \A j \in 1..k : program[j].item = "actor" /\ program[j].name = program[i].name => j = i

RegisterInv ==
    /\ vpass = "register" =>
          /\ vi <= Len(program) + 1
          /\ vs = 0 /\ vcmd = 0 /\ vout = "ImpliedOk" /\ pending = NoMode /\ committed = {}
          /\ \A n \in Names : symbols[n].type \in Types => symbols[n].mode = InitialMode(symbols[n].type)
          /\ Registered(vi - 1)
    /\ vpass # "register" => Registered(Len(program))

CheckTypes == SymbolsOK /\ PassOK /\ RegisterInv

TypeMap == [n \in Names |-> symbols[n].type]
ModeMap == [n \in Names |-> symbols[n].mode]
Now == [md |-> ModeMap, cmd |-> vcmd, out |-> vout, pend |-> pending, com |-> committed]

LEMMA SymbolKinds ==
    /\ Absent \in Symbol /\ Errored \in Symbol
    /\ Absent.st = "absent" /\ Errored.st = "errored"
    /\ Absent.type \notin Types /\ Errored.type \notin Types
    /\ \A t \in Types : /\ Healthy(t) \in Symbol /\ Healthy(t).st = "healthy"
                        /\ Healthy(t).type = t /\ Healthy(t).mode = InitialMode(t)
<1>1. Absent \in Symbol /\ Errored \in Symbol
  BY DEF Absent, Errored, Symbol, NoMode
<1>2. \A t \in Types : Healthy(t) \in Symbol
  BY InitialModes DEF Healthy, Symbol
<1> QED
  BY <1>1, <1>2 DEF Absent, Errored, Healthy, Types

LEMMA FreshTypes ==
    ASSUME TreeOK, VInit
    PROVE  CheckTypes
<1>1. symbols = [n \in Names |-> Absent]
  BY DEF VInit
<1>2. SymbolsOK
  BY <1>1, SymbolKinds DEF SymbolsOK
<1>3. PassOK
  BY DEF VInit, PassOK
<1>4. RegisterInv
  <2>1. vi - 1 = 0 /\ vi <= Len(program) + 1
    BY DEF VInit, TreeOK
  <2>2. Registered(vi - 1)
    BY <2>1 DEF Registered
  <2> QED
    BY <1>1, <2>1, <2>2, SymbolKinds DEF RegisterInv, VInit
<1> QED
  BY <1>2, <1>3, <1>4 DEF CheckTypes

LEMMA RegisterStep ==
    ASSUME TreeOK, CheckTypes, RegisterActor
    PROVE  CheckTypes'
<1> DEFINE n == VItem.name
<1>1. vpass = "register" /\ vi \in DOMAIN program /\ vi \in 1..Len(program) /\ VItem.item = "actor"
  BY DEF RegisterActor, CheckTypes, PassOK, TreeOK
<1>2. n \in Names
  BY <1>1, ItemFields DEF VItem
<1>3. symbols' = [symbols EXCEPT ![n] = NewSymbol(symbols[n], VItem)]
  BY DEF RegisterActor
<1>4. diags' = diags \cup DeclDiags(symbols[n], VItem)
  BY DEF RegisterActor
<1>5. UNCHANGED <<program, vpass, vs, vcmd, vout, pending, committed>> /\ vi' = vi + 1
  BY DEF RegisterActor
<1>6. SymbolsOK /\ PassOK /\ RegisterInv
  BY DEF CheckTypes
<1> HIDE DEF n
<1>7. NewSymbol(symbols[n], VItem) \in Symbol
  BY <1>2, <1>6, SymbolKinds DEF NewSymbol, SymbolsOK
<1>8. SymbolsOK'
  <2>1. symbols' \in [Names -> Symbol]
    BY <1>2, <1>3, <1>6, <1>7 DEF SymbolsOK
  <2>2. NewSymbol(symbols[n], VItem).st = "healthy" => NewSymbol(symbols[n], VItem).type \in Types
    BY <1>2, <1>6, SymbolKinds DEF NewSymbol, SymbolsOK
  <2>3. NewSymbol(symbols[n], VItem).st = "errored" => diags' # {}
    BY <1>2, <1>4, <1>6, SymbolKinds DEF NewSymbol, DeclDiags, SymbolsOK
  <2>4. diags' = {} => diags = {}
    BY <1>4
  <2> QED
    BY <1>2, <1>3, <1>6, <2>1, <2>2, <2>3, <2>4 DEF SymbolsOK
<1>9. PassOK'
  BY <1>5, <1>6 DEF PassOK
<1>10. ASSUME diags' = {}
       PROVE  /\ diags = {} /\ symbols[n].st # "healthy" /\ VItem.type \in Types
              /\ NewSymbol(symbols[n], VItem) = Healthy(VItem.type)
  BY <1>4, <1>10 DEF DeclDiags, NewSymbol
<1>11. Registered(vi - 1)
  BY <1>1, <1>6 DEF RegisterInv
<1>12. Registered(vi - 1)'
  <2> SUFFICES ASSUME diags' = {}, NEW i \in 1..vi, program[i].item = "actor"
               PROVE  /\ symbols'[program[i].name].st = "healthy"
                      /\ symbols'[program[i].name].type = program[i].type
                      /\ \A j \in 1..vi : program[j].item = "actor" /\ program[j].name = program[i].name
                                              => j = i
    <3>1. vi' - 1 = vi
      BY <1>1, <1>5
    <3> QED
      BY <1>5, <3>1 DEF Registered
  <2>1. \A j \in 1..vi : j = vi \/ j \in 1..(vi - 1)
    BY <1>1
  <2>2. \A j \in 1..(vi - 1) : program[j].item = "actor" =>
           /\ symbols[program[j].name].st = "healthy" /\ program[j].name # n
           /\ symbols[program[j].name].type = program[j].type
    BY <1>10, <1>11 DEF Registered
  <2>3. program[vi].name = n /\ symbols'[n] = Healthy(VItem.type) /\ program[vi].type = VItem.type
    BY <1>2, <1>3, <1>6, <1>10 DEF n, VItem, SymbolsOK
  <2>4. CASE i = vi
    BY <1>10, <2>1, <2>2, <2>3, <2>4, SymbolKinds
  <2>5. CASE i \in 1..(vi - 1)
    <3>1. program[i].name \in Names
      BY <1>1, <2>5, ItemFields DEF TreeOK
    <3>2. symbols'[program[i].name] = symbols[program[i].name]
      BY <1>2, <1>3, <1>6, <2>2, <2>5, <3>1 DEF SymbolsOK
    <3> QED
      BY <1>10, <1>11, <2>1, <2>2, <2>3, <2>5, <3>2 DEF Registered
  <2> QED
    BY <2>1, <2>4, <2>5
<1>13. \A x \in Names : symbols'[x].type \in Types => symbols'[x].mode = InitialMode(symbols'[x].type)
  <2>1. NewSymbol(symbols[n], VItem).type \in Types =>
           NewSymbol(symbols[n], VItem).mode = InitialMode(NewSymbol(symbols[n], VItem).type)
    BY <1>1, <1>2, <1>6, SymbolKinds DEF NewSymbol, RegisterInv
  <2> QED
    BY <1>1, <1>2, <1>3, <1>6, <2>1 DEF RegisterInv, SymbolsOK
<1>14. RegisterInv'
  <2>1. vi' <= Len(program') + 1
    BY <1>1, <1>5
  <2> QED
    BY <1>1, <1>5, <1>6, <1>12, <1>13, <2>1 DEF RegisterInv
<1> QED
  BY <1>8, <1>9, <1>14 DEF CheckTypes

LEMMA SkipBlockStep ==
    ASSUME TreeOK, CheckTypes, SkipAsBlock \/ EndOfRegister
    PROVE  CheckTypes'
<1>1. SymbolsOK /\ PassOK /\ RegisterInv /\ vpass = "register" /\ Registered(vi - 1)
  BY DEF CheckTypes, RegisterInv, SkipAsBlock, EndOfRegister
<1>2. UNCHANGED <<program, vs, symbols, vcmd, vout, pending, diags, committed>>
  BY DEF SkipAsBlock, EndOfRegister
<1>3. SymbolsOK'
  BY <1>1, <1>2 DEF SymbolsOK
<1>4. PassOK'
  BY <1>1, <1>2 DEF PassOK, SkipAsBlock, EndOfRegister
<1>5. CASE SkipAsBlock
  <2>1. vi' = vi + 1 /\ vpass' = vpass /\ vi <= Len(program) /\ program[vi].item = "as" /\ vi \in Nat \ {0}
    BY <1>1, <1>5 DEF SkipAsBlock, VItem, PassOK
  <2>2. \A j \in 1..vi : j = vi \/ j \in 1..(vi - 1)
    BY <2>1
  <2>3. Registered(vi)
    BY <1>1, <2>1, <2>2 DEF Registered
  <2>4. Registered(vi - 1)'
    <3>1. vi' - 1 = vi
      BY <2>1
    <3> QED
      BY <1>2, <2>3, <3>1 DEF Registered
  <2> QED
    BY <1>1, <1>2, <1>3, <1>4, <2>1, <2>4 DEF CheckTypes, RegisterInv, TreeOK
<1>6. CASE EndOfRegister
  <2>1. vi - 1 = Len(program) /\ vpass' = "check"
    BY <1>1, <1>6 DEF EndOfRegister, TreeOK, PassOK, RegisterInv
  <2>2. Registered(Len(program))'
    BY <1>1, <1>2, <2>1 DEF Registered
  <2> QED
    BY <1>3, <1>4, <2>1, <2>2 DEF CheckTypes, RegisterInv
<1> QED
  BY <1>5, <1>6

\* The second pass keeps what the first one has registered.
LEMMA CheckKeeps ==
    ASSUME CheckTypes, PassOK', vpass # "register", vpass' # "register", program' = program,
           diags \subseteq diags', symbols' \in [Names -> Symbol],
           \A n \in Names : symbols'[n].st = symbols[n].st /\ symbols'[n].type = symbols[n].type,
           TreeOK
    PROVE  CheckTypes'
<1>1. SymbolsOK'
  BY DEF CheckTypes, SymbolsOK
<1>2. Registered(Len(program))'
  <2>1. Registered(Len(program))
    BY DEF CheckTypes, RegisterInv
  <2>2. \A i \in 1..Len(program) : program[i].name \in Names
    BY ItemFields DEF TreeOK
  <2> QED
    BY <2>1, <2>2 DEF Registered
<1> QED
  BY <1>1, <1>2 DEF CheckTypes, RegisterInv

LEMMA CommittedFacts ==
    ASSUME SymbolsOK, PassOK, VItem.name \in Names
    PROVE  /\ Committed(symbols) \in [Names -> Symbol]
           /\ \A n \in Names : /\ Committed(symbols)[n].st = symbols[n].st
                               /\ Committed(symbols)[n].type = symbols[n].type
                               /\ Committed(symbols)[n].mode =
                                     IF n = VItem.name THEN Landed(Now, n) ELSE symbols[n].mode
<1>1. Now.out = vout /\ Now.pend = pending /\ \A n \in Names : Now.md[n] = symbols[n].mode
  BY DEF Now, ModeMap
<1>2. Landed(Now, VItem.name) = IF OutcomeOk /\ pending # NoMode THEN pending ELSE symbols[VItem.name].mode
  BY <1>1 DEF Landed, Ok, OutcomeOk
<1>3. CASE OutcomeOk /\ pending # NoMode
  <2> DEFINE r == [symbols[VItem.name] EXCEPT !.mode = pending]
  <2>1. Committed(symbols) = [symbols EXCEPT ![VItem.name] = r]
    BY <1>3 DEF Committed
  <2>2. r \in Symbol /\ r.st = symbols[VItem.name].st /\ r.type = symbols[VItem.name].type
        /\ r.mode = pending
    BY DEF Symbol, SymbolsOK, PassOK
  <2> HIDE DEF r
  <2> QED
    BY <1>2, <1>3, <2>1, <2>2 DEF SymbolsOK
<1>4. CASE ~(OutcomeOk /\ pending # NoMode)
  BY <1>2, <1>4 DEF Committed, SymbolsOK
<1> QED
  BY <1>3, <1>4

\* Inside a block of the second pass.
LEMMA InBlockFacts ==
    ASSUME TreeOK, CheckTypes, InBlock
    PROVE  /\ vi \in 1..Len(program) /\ vi \in DOMAIN program /\ VItem.name \in Names
           /\ VItem.body \in Seq(StatementNodes) /\ Len(VItem.body) \in Nat
           /\ VItem.item = "as" /\ vpass = "check"
<1>1. vi \in 1..Len(program) /\ vi \in DOMAIN program
  BY DEF InBlock, CheckTypes, PassOK, TreeOK
<1>2. VItem.name \in Names /\ VItem.body \in Seq(StatementNodes)
  BY <1>1, ItemFields DEF InBlock, VItem
<1> QED
  BY <1>1, <1>2 DEF InBlock

LEMMA CheckTypesStep ==
    ASSUME TreeOK, CheckTypes, VNext
    PROVE  CheckTypes'
<1>1. CASE RegisterActor \/ SkipAsBlock \/ EndOfRegister
  BY <1>1, RegisterStep, SkipBlockStep
<1>2. CASE SkipDeclaration \/ SkipUnusable \/ EndOfCheck \/ CheckStatement
  <2>1. vpass = "check" /\ vpass' \in {"check", "done"} /\ diags \subseteq diags'
        /\ UNCHANGED <<program, symbols, pending, vcmd>>
    BY <1>2 DEF SkipDeclaration, SkipUnusable, EndOfCheck, CheckStatement, InBlock
  <2>2. vi' \in Nat \ {0} /\ vs' \in Nat
    BY <1>2 DEF SkipDeclaration, SkipUnusable, EndOfCheck, CheckStatement, CheckTypes, PassOK
  <2>3. vout' \in {"ImpliedOk", "ExplicitOk", "ExplicitError"}
    BY <1>2 DEF SkipDeclaration, SkipUnusable, EndOfCheck, CheckStatement, Advanced, CheckTypes, PassOK
  <2>4. PassOK'
    BY <2>1, <2>2, <2>3 DEF PassOK, CheckTypes
  <2> QED
    BY <2>1, <2>4, CheckKeeps DEF CheckTypes, SymbolsOK
<1>3. CASE CheckCommand
  <2>1. InBlock /\ Me.st = "healthy" /\ symbols' = Committed(symbols) /\ UNCHANGED <<program, vpass, vi>>
        /\ vs' = vs + 1 /\ vcmd' = vs + 1 /\ vout' = "ImpliedOk" /\ diags \subseteq diags'
    BY <1>3 DEF CheckCommand
  <2>2. Me.type \in Types
    BY <2>1, InBlockFacts DEF CheckTypes, SymbolsOK, Me
  <2>3. pending' \in Modes \cup {NoMode}
    BY <1>3, <2>2, StaticModes DEF CheckCommand, Resolved
  <2>4. PassOK'
    BY <2>1, <2>3 DEF PassOK, CheckTypes
  <2> QED
    BY <2>1, <2>4, InBlockFacts, CommittedFacts, CheckKeeps DEF CheckTypes
<1>4. CASE EndAsBlock
  <2>1. InBlock /\ symbols' = Committed(symbols) /\ UNCHANGED <<program, vpass, diags>>
        /\ vi' = vi + 1 /\ vs' = 0 /\ vcmd' = 0 /\ vout' = "ImpliedOk" /\ pending' = NoMode
    BY <1>4 DEF EndAsBlock
  <2>2. PassOK'
    BY <2>1 DEF PassOK, CheckTypes
  <2> QED
    BY <2>1, <2>2, InBlockFacts, CommittedFacts, CheckKeeps DEF CheckTypes
<1> QED
  BY <1>1, <1>2, <1>3, <1>4 DEF VNext
-----------------------------------------------------------------------------
(* The second pass: as long as there is no diagnostic, the validator has   *)
(* come to its position by a clean walk.                                   *)

Here ==
    /\ vi <= Len(program) + 1
    /\ vi = Len(program) + 1 => vs = 0
    /\ vi <= Len(program) => IsPos(program, vi, vs)

Reached == \E w : WalkEnds(program, TypeMap, w, vi, vs, Now)

WalkInv ==
    diags = {} =>
        /\ vpass = "check" => Here /\ Reached
        /\ vpass = "done" => vi = Len(program) + 1 /\ vs = 0 /\ Reached

LEMMA Arrive ==
    ASSUME TreeOK, CheckTypes, vi <= Len(program), Here, Reached,
           program' = program, TypeMap' = TypeMap, vi' \in Nat, vs' \in Nat,
           After(program, vi, vs) = <<vi', vs'>>,
           Step(program, TypeMap, vi, vs, Now, Now')
    PROVE  Here' /\ Reached'
<1>1. IsPos(program, vi, vs) /\ vi \in 1..Len(program) /\ vs \in Nat /\ program \in Seq(Items)
  BY DEF Here, CheckTypes, PassOK, TreeOK
<1>2. PICK w : WalkEnds(program, TypeMap, w, vi, vs, Now)
  BY DEF Reached
<1>3. OneMore(program, TypeMap, w, vi, vs, Now', vi', vs')
  BY <1>1, <1>2 DEF OneMore, WalkEnds
<1>4. Reached'
  <2>1. \E v : WalkEnds(program, TypeMap, v, vi', vs', Now')
    BY <1>3, ExtendWalk, Zenon
  <2> QED
    BY <2>1 DEF Reached
<1>5. \A i \in 1..Len(program) : program[i].item = "as" => Len(program[i].body) \in Nat
  BY ItemFields DEF TreeOK
<1>6. (InLine(program, vi, vs) /\ vi' = vi /\ vs' = vs + 1)
      \/ (~InLine(program, vi, vs) /\ vi' = vi + 1 /\ vs' = 0)
  BY DEF After
<1>7. Here'
  <2>1. CASE InLine(program, vi, vs)
    BY <1>1, <1>5, <1>6, <2>1 DEF Here, IsPos, InLine
  <2>2. CASE ~InLine(program, vi, vs)
    BY <1>1, <1>5, <1>6, <2>2 DEF Here, IsPos
  <2> QED
    BY <2>1, <2>2
<1> QED
  BY <1>4, <1>7

LEMMA ArriveFirst ==
    ASSUME TreeOK, CheckTypes, EndOfRegister
    PROVE  Here' /\ Reached'
<1>1. program' = program /\ vi' = 1 /\ vs' = 0 /\ TypeMap' = TypeMap /\ Now' = Now
  BY DEF EndOfRegister, CheckTypes, RegisterInv, TypeMap, Now, ModeMap
<1>2. Begin(TypeMap, Now)
  <2>1. Now.cmd = 0 /\ Now.out = "ImpliedOk" /\ Now.pend = NoMode /\ Now.com = {} /\ Now.md = ModeMap
    BY DEF EndOfRegister, CheckTypes, RegisterInv, Now
  <2>2. \A n \in Names : TypeMap[n] \in Types => ModeMap[n] = InitialMode(TypeMap[n])
    BY DEF EndOfRegister, CheckTypes, RegisterInv, TypeMap, ModeMap
  <2>3. DOMAIN ModeMap = Names
    BY DEF ModeMap
  <2> HIDE DEF TypeMap, ModeMap
  <2> QED
    BY <2>1, <2>2, <2>3 DEF Begin
<1>3. Reached'
  <2> DEFINE w == [q \in {<<1, 0>>} |-> Now]
  <2>1. w[<<1, 0>>] = Now
    OBVIOUS
  <2> HIDE DEF w
  <2>2. \A i \in 1..Len(program), s \in Nat : ~Before(i, s, 1, 0)
    BY DEF Before, TreeOK
  <2>3. Walk(program, TypeMap, w, 1, 0)
    BY <1>2, <2>1, <2>2 DEF Walk
  <2>4. WalkEnds(program', TypeMap', w, vi', vs', Now')
    BY <1>1, <2>1, <2>3 DEF WalkEnds
  <2> QED
    BY <2>4 DEF Reached
<1>4. Here'
  <2>1. \A i \in 1..Len(program) : program[i].item = "as" => Len(program[i].body) \in Nat
    BY ItemFields DEF TreeOK
  <2>2. Len(program) \in Nat
    BY DEF TreeOK
  <2> QED
    BY <1>1, <2>1, <2>2 DEF Here, IsPos
<1> QED
  BY <1>3, <1>4

LEMMA StepDeclaration ==
    ASSUME TreeOK, CheckTypes, WalkInv, SkipDeclaration, diags' = {}
    PROVE  Here' /\ Reached'
<1>1. diags = {} /\ vpass = "check" /\ vi <= Len(program) /\ program[vi].item = "actor"
      /\ vi' = vi + 1 /\ UNCHANGED <<program, vs, symbols, vcmd, vout, pending, committed>>
  BY DEF SkipDeclaration, VItem
<1>2. Here /\ Reached
  BY <1>1 DEF WalkInv
<1>3. vs = 0 /\ vi \in Nat
  BY <1>1, <1>2 DEF Here, IsPos, CheckTypes, PassOK
<1>4. TypeMap' = TypeMap /\ Now' = Now
  BY <1>1 DEF TypeMap, Now, ModeMap
<1>5. After(program, vi, vs) = <<vi', vs'>>
  BY <1>1, <1>3 DEF After, InLine
<1>6. Step(program, TypeMap, vi, vs, Now, Now')
  BY <1>1, <1>4 DEF Step, InLine
<1> QED
  BY <1>1, <1>2, <1>3, <1>4, <1>5, <1>6, Arrive

LEMMA StepCommand ==
    ASSUME TreeOK, CheckTypes, WalkInv, CheckCommand, diags' = {}
    PROVE  Here' /\ Reached'
<1> DEFINE n == VItem.name
           st == VStmt
           m == Committed(symbols)[n].mode
<1>1. InBlock /\ Me.st = "healthy" /\ vs < Len(VItem.body) /\ IsCommand(st) /\ CloseWindow
      /\ symbols' = Committed(symbols) /\ vcmd' = vs + 1 /\ vout' = "ImpliedOk" /\ vs' = vs + 1
      /\ UNCHANGED <<program, vpass, vi>>
      /\ diags' = diags \cup CommandDiags(Me.type, m, st)
      /\ pending' = IF Resolved(Me.type, m, st) THEN TransitionsTo(Me.type, st.n) ELSE NoMode
  BY DEF CheckCommand
<1>2. diags = {} /\ Resolved(Me.type, m, st)
  BY <1>1 DEF CommandDiags, Resolved
<1>3. n \in Names /\ vi \in 1..Len(program) /\ vpass = "check" /\ VItem = program[vi]
      /\ program[vi].item = "as" /\ vi \in Nat /\ vs \in Nat /\ vi <= Len(program)
  BY <1>1, InBlockFacts DEF VItem, CheckTypes, PassOK
<1>4. Here /\ Reached
  BY <1>2, <1>3 DEF WalkInv
<1>5. m = Landed(Now, n) /\ Me.type = TypeMap[n]
  BY <1>3, CommittedFacts DEF CheckTypes, Me, TypeMap
<1>6. TypeMap' = TypeMap
  BY <1>1, <1>3, CommittedFacts DEF CheckTypes, TypeMap
<1>7. ModeMap' = [ModeMap EXCEPT ![n] = Landed(Now, n)]
  BY <1>1, <1>3, CommittedFacts DEF CheckTypes, ModeMap
<1>8. committed' = Closed(Now, vi)
  BY <1>1 DEF CloseWindow, Closed, Ok, OutcomeOk, Now
<1>9. Now.md = ModeMap /\ Now'.md = ModeMap' /\ Now'.cmd = vs + 1 /\ Now'.out = "ImpliedOk"
      /\ Now'.pend = TransitionsTo(TypeMap[n], st.n) /\ Now'.com = committed'
  BY <1>1, <1>2, <1>5 DEF Now
<1> HIDE DEF Now, m, TypeMap, ModeMap
<1>10. CommandStep(n, TypeMap[n], st, vi, vs, Now, Now')
  BY <1>2, <1>5, <1>7, <1>8, <1>9 DEF CommandStep, Resolved
<1>11. InLine(program, vi, vs) /\ program[vi].body[vs + 1] = st /\ program[vi].name = n
  BY <1>1, <1>3 DEF InLine, VStmt
<1>12. Step(program, TypeMap, vi, vs, Now, Now')
  BY <1>1, <1>3, <1>10, <1>11 DEF Step, InLine
<1>13. After(program, vi, vs) = <<vi', vs'>> /\ vi' \in Nat /\ vs' \in Nat
  BY <1>1, <1>3, <1>11 DEF After
<1> QED
  BY <1>1, <1>3, <1>4, <1>6, <1>12, <1>13, Arrive

LEMMA StepStatement ==
    ASSUME TreeOK, CheckTypes, WalkInv, CheckStatement, diags' = {}
    PROVE  Here' /\ Reached'
<1> DEFINE st == VStmt
<1>1. InBlock /\ vs < Len(VItem.body) /\ ~IsCommand(st) /\ vs' = vs + 1
      /\ UNCHANGED <<program, vpass, vi, symbols, vcmd, pending, committed>>
      /\ diags \subseteq diags'
  BY DEF CheckStatement
<1>2. diags = {} /\ (~Refers(st, "ok") /\ ~Refers(st, "error") => vout' = vout)
      /\ (Refers(st, "ok") => vout # "ExplicitError" /\ vout' = Advanced(vout, TRUE))
      /\ (Refers(st, "error") => vout # "ExplicitOk" /\ vout' = Advanced(vout, FALSE))
  BY DEF CheckStatement, Refers, Report, Conflicts, Advanced
<1>3. vi \in 1..Len(program) /\ vpass = "check" /\ VItem = program[vi]
      /\ program[vi].item = "as" /\ vi \in Nat /\ vs \in Nat /\ vi <= Len(program)
      /\ vout \in {"ImpliedOk", "ExplicitOk", "ExplicitError"}
  BY <1>1, InBlockFacts DEF VItem, CheckTypes, PassOK
<1>4. Here /\ Reached
  BY <1>2, <1>3 DEF WalkInv
<1>5. TypeMap' = TypeMap /\ ModeMap' = ModeMap
  BY <1>1 DEF TypeMap, ModeMap
<1>6. Now.out = vout /\ Now'.out = vout' /\ Now'.md = Now.md /\ Now'.cmd = Now.cmd
      /\ Now'.pend = Now.pend /\ Now'.com = Now.com
  BY <1>1, <1>5 DEF Now
<1>7. ~(Refers(st, "ok") /\ Refers(st, "error"))
  BY DEF Refers
<1> HIDE DEF Now, TypeMap, ModeMap
<1>8. OtherStep(st, Now, Now')
  BY <1>1, <1>2, <1>3, <1>6, <1>7 DEF OtherStep, Advanced, Conflicts
<1>9. InLine(program, vi, vs) /\ program[vi].body[vs + 1] = st
  BY <1>1, <1>3 DEF InLine, VStmt
<1>10. Step(program, TypeMap, vi, vs, Now, Now')
  BY <1>1, <1>3, <1>8, <1>9 DEF Step, InLine
<1>11. After(program, vi, vs) = <<vi', vs'>> /\ vi' \in Nat /\ vs' \in Nat
  BY <1>1, <1>3, <1>9 DEF After
<1> QED
  BY <1>1, <1>3, <1>4, <1>5, <1>10, <1>11, Arrive

LEMMA StepEndBlock ==
    ASSUME TreeOK, CheckTypes, WalkInv, EndAsBlock, diags' = {}
    PROVE  Here' /\ Reached'
<1> DEFINE n == VItem.name
<1>1. InBlock /\ vs = Len(VItem.body) /\ CloseWindow /\ symbols' = Committed(symbols)
      /\ vi' = vi + 1 /\ vs' = 0 /\ vcmd' = 0 /\ vout' = "ImpliedOk" /\ pending' = NoMode
      /\ UNCHANGED <<program, vpass, diags>>
  BY DEF EndAsBlock
<1>2. n \in Names /\ vi \in 1..Len(program) /\ vpass = "check" /\ VItem = program[vi]
      /\ program[vi].item = "as" /\ vi \in Nat /\ vs \in Nat /\ vi <= Len(program)
  BY <1>1, InBlockFacts DEF VItem, CheckTypes, PassOK
<1>3. Here /\ Reached
  BY <1>1, <1>2 DEF WalkInv
<1>4. TypeMap' = TypeMap
  BY <1>1, <1>2, CommittedFacts DEF CheckTypes, TypeMap
<1>5. ModeMap' = [ModeMap EXCEPT ![n] = Landed(Now, n)]
  BY <1>1, <1>2, CommittedFacts, ZenonT(40) DEF CheckTypes, ModeMap
<1>6. committed' = Closed(Now, vi)
  BY <1>1 DEF CloseWindow, Closed, Ok, OutcomeOk, Now
<1>7. Now.md = ModeMap /\ Now'.md = ModeMap' /\ Now'.cmd = 0 /\ Now'.out = "ImpliedOk"
      /\ Now'.pend = NoMode /\ Now'.com = committed'
  BY <1>1 DEF Now
<1> HIDE DEF Now, TypeMap, ModeMap
<1>8. EndStep(n, vi, Now, Now')
  BY <1>5, <1>6, <1>7 DEF EndStep
<1>9. ~InLine(program, vi, vs) /\ program[vi].name = n
  BY <1>1, <1>2 DEF InLine
<1>10. Step(program, TypeMap, vi, vs, Now, Now')
  BY <1>1, <1>2, <1>8, <1>9 DEF Step
<1>11. After(program, vi, vs) = <<vi', vs'>> /\ vi' \in Nat /\ vs' \in Nat
  BY <1>1, <1>2, <1>9 DEF After
<1> QED
  BY <1>1, <1>2, <1>3, <1>4, <1>10, <1>11, Arrive

LEMMA WalkStep ==
    ASSUME TreeOK, CheckTypes, WalkInv, VNext
    PROVE  WalkInv'
<1> SUFFICES ASSUME diags' = {} PROVE WalkInv'
  BY DEF WalkInv
<1>1. CASE RegisterActor \/ SkipAsBlock
  BY <1>1 DEF RegisterActor, SkipAsBlock, WalkInv
<1>2. CASE EndOfRegister
  BY <1>2, ArriveFirst DEF EndOfRegister, WalkInv
<1>3. CASE SkipDeclaration \/ CheckCommand \/ CheckStatement \/ EndAsBlock
  <2>1. vpass' = "check"
    BY <1>3 DEF SkipDeclaration, CheckCommand, CheckStatement, EndAsBlock, InBlock
  <2> QED
    BY <1>3, <2>1, StepDeclaration, StepCommand, StepStatement, StepEndBlock DEF WalkInv
<1>4. CASE SkipUnusable
  <2>1. Me.st # "errored"
    BY <1>4, InBlockFacts DEF SkipUnusable, CheckTypes, SymbolsOK, Me
  <2> QED
    BY <1>4, <2>1 DEF SkipUnusable, Report
<1>5. CASE EndOfCheck
  <2>1. vpass = "check" /\ vi > Len(program) /\ vpass' = "done" /\ diags = {}
        /\ UNCHANGED <<program, vi, vs, symbols, vcmd, vout, pending, committed>>
    BY <1>5 DEF EndOfCheck
  <2>2. Here /\ Reached
    BY <2>1 DEF WalkInv
  <2>3. vi = Len(program) + 1 /\ vs = 0
    BY <2>1, <2>2 DEF Here, CheckTypes, PassOK, TreeOK
  <2>4. Reached'
    BY <2>1, <2>2 DEF Reached, TypeMap, Now, ModeMap
  <2> QED
    BY <2>1, <2>3, <2>4 DEF WalkInv
<1> QED
  BY <1>1, <1>2, <1>3, <1>4, <1>5 DEF VNext

Checked == CheckTypes /\ WalkInv

LEMMA CheckedStep == TreeOK /\ Stages /\ Checked /\ [Next]_vars => Checked'
<1> SUFFICES ASSUME TreeOK, Stages, Checked, [Next]_vars PROVE Checked'
  OBVIOUS
<1>1. CASE Write
  <2>1. VInit /\ UNCHANGED vvars
    BY <1>1 DEF Write, SNext, WriteActor, WriteBlock, WriteStatement, EndOfFile, Stages
  <2>2. VInit'
    BY <2>1 DEF VInit, vvars
  <2>3. TreeOK'
    BY StageStep
  <2>4. CheckTypes'
    <3>1. SymbolsOK' /\ PassOK'
      BY <2>1 DEF Checked, CheckTypes, SymbolsOK, PassOK, vvars
    <3>2. vi' - 1 = 0 /\ vi' <= Len(program') + 1 /\ vpass' = "register"
      BY <2>2, <2>3 DEF VInit, TreeOK
    <3>3. Registered(vi - 1)'
      BY <3>2 DEF Registered
    <3>4. RegisterInv'
      BY <2>1, <2>2, <3>2, <3>3 DEF RegisterInv, Checked, CheckTypes, VInit, vvars
    <3> QED
      BY <3>1, <3>4 DEF CheckTypes
  <2> QED
    BY <2>2, <2>4 DEF Checked, WalkInv, VInit
<1>2. CASE Check
  BY <1>2, CheckTypesStep, WalkStep DEF Check, Checked
<1>3. CASE Start \/ Refuse \/ Run \/ UNCHANGED vars
  <2>1. UNCHANGED <<program, vvars>>
    <3>1. CASE Run
      BY <3>1 DEF Run, HNext, ConstructActor, ConstructFails, EndOfWalk, NoLiveInstance, EnterBlock,
         LeaveBlock, CommandOk, CommandError, CommandNotImplemented, RunLet, AssertPasses,
         AssertFails, StatementError, ConstructPanics, CommandPanics,
       Unwind, TeardownNext, EndOfTeardown
    <3> QED
      BY <1>3, <3>1 DEF Start, Refuse, vars
  <2>2. CheckTypes'
    BY <2>1 DEF Checked, CheckTypes, SymbolsOK, PassOK, RegisterInv, Registered, vvars
  <2>3. WalkInv'
    BY <2>1 DEF Checked, WalkInv, Here, Reached, TypeMap, Now, ModeMap, vvars
  <2> QED
    BY <2>2, <2>3 DEF Checked
<1> QED
  BY <1>1, <1>2, <1>3 DEF Next, Finished

LEMMA CheckedInit == Init => Checked
<1> SUFFICES ASSUME Init PROVE Checked
  OBVIOUS
<1>1. CheckTypes
  BY StageInit, FreshTypes DEF Init
<1> QED
  BY <1>1 DEF Init, VInit, Checked, WalkInv
-----------------------------------------------------------------------------
(* The run follows the walk.  Before statement hs of item hi the snapshot  *)
(* is the one at <<hi, hs - 1>>: every live actor that has not drifted is  *)
(* in the mode the validator attributes to it, given how the last command  *)
(* really ended; one that has drifted is in its initial mode, where the    *)
(* validator does not believe it to be; the commands that erred are the    *)
(* committed ones and, it may be, the last; and if the last one erred, the *)
(* window is committed to `error` or will be by a statement still to come. *)

\* No actor and no `let` is named as the outcome of a command is.
Unshadowed ==
    \A i \in DOMAIN program :
        /\ program[i].item = "actor" => program[i].name \notin {"ok", "error"}
        /\ program[i].item = "as" =>
              \A k \in DOMAIN program[i].body :
                 program[i].body[k].s = "let" => program[i].body[k].n \notin {"ok", "error"}

LastErred(a) == a.cmd # 0 /\ <<hi, a.cmd>> \in erred

\* The mode an instance of name n is in.
RunMode(a, n) ==
    IF hs # 0 /\ n = HItem.name /\ a.cmd # 0 /\ ~LastErred(a) /\ a.pend # NoMode
    THEN a.pend ELSE a.md[n]

\* A reference to error.* before the next command, from statement k0 on.
ErrorAhead(body, k0) ==
    \E k \in k0..Len(body) : Refers(body[k], "error") /\ \A j \in k0..k : ~IsCommand(body[j])

LiveInv ==
    /\ hi <= Len(program) + 1 /\ (hi = Len(program) + 1 => hs = 0)
    /\ \A j \in DOMAIN live : live[j].type = symbols[live[j].name].type
    /\ \A j \in DOMAIN live :
          \E i \in 1..(hi - 1) : program[i].item = "actor" /\ program[i].name = live[j].name
    /\ \A j, k \in DOMAIN live : live[j].name = live[k].name => j = k

SnapInv(a) ==
    /\ a.cmd \in Nat /\ a.out \in {"ImpliedOk", "ExplicitOk", "ExplicitError"}
    /\ DOMAIN a.md = Names
    /\ hs = 0 => a.cmd = 0
    /\ hs # 0 => a.cmd < hs
    /\ a.cmd = 0 => a.pend = NoMode

ModeInv(a) ==
    /\ \A n \in Names : Indices(n) = {} /\ symbols[n].type \in Types =>
                            a.md[n] = InitialMode(symbols[n].type)
    /\ \A j \in DOMAIN live : live[j].name \notin drifted => live[j].mode = RunMode(a, live[j].name)

DriftInv(a) ==
    /\ \A n \in drifted : n \in Names /\ Indices(n) # {}
    /\ \A j \in DOMAIN live : live[j].name \in drifted =>
          /\ live[j].mode = InitialMode(live[j].type)
          /\ RunMode(a, live[j].name) # InitialMode(live[j].type)

ErredInv(a) ==
    /\ erred = IF LastErred(a) THEN a.com \cup {<<hi, a.cmd>>} ELSE a.com
    /\ erred \subseteq Nat \X Nat
    /\ \A e \in erred : Before(e[1], e[2], hi, hs)

WindowInv(a) ==
    a.cmd # 0 =>
        /\ LastErred(a) => /\ "ok" \notin scope
                           /\ a.out # "ExplicitOk"
                           /\ a.out = "ExplicitError" \/ ErrorAhead(HItem.body, hs)
        /\ ~LastErred(a) => "error" \notin scope /\ a.out # "ExplicitError"

RunInv(a) ==
    LiveInv /\ SnapInv(a) /\ ModeInv(a) /\ DriftInv(a) /\ ErredInv(a) /\ WindowInv(a)

Running == TearStart /\ CheckTypes /\ Unshadowed /\ phase = "run" /\ diags = {} /\ vpass = "done"

\* At the next command, and at the end of the block, the window is settled: the
\* validator committed it to the branch the command took.
LEMMA Settled ==
    ASSUME NEW a, SnapInv(a), ErredInv(a), WindowInv(a), ~ErrorAhead(HItem.body, hs)
    PROVE  /\ a.cmd # 0 => (LastErred(a) <=> ~Ok(a))
           /\ erred = Closed(a, hi)
           /\ hs # 0 => RunMode(a, HItem.name) = Landed(a, HItem.name)
<1>1. a.cmd # 0 => (LastErred(a) <=> ~Ok(a))
  BY DEF SnapInv, WindowInv, Ok
<1>2. erred = Closed(a, hi)
  BY <1>1 DEF ErredInv, Closed, LastErred
<1>3. hs # 0 => RunMode(a, HItem.name) = Landed(a, HItem.name)
  BY <1>1 DEF RunMode, Landed, SnapInv, LastErred
<1> QED
  BY <1>1, <1>2, <1>3

LEMMA LiveNames ==
    ASSUME TearStart
    PROVE  \A j \in DOMAIN live : live[j].name \in Names
<1>1. \A j \in DOMAIN live : live[j] \in Instances
  BY DEF TearStart, TearInv, HistoryOK
<1> QED
  BY <1>1 DEF Instances

LEMMA CurrentFacts ==
    ASSUME TearStart, LiveInv, AtStatement
    PROVE  /\ First(HItem.name) \in DOMAIN live
           /\ \A j \in DOMAIN live : live[j].name = HItem.name <=> j = First(HItem.name)
           /\ Current.type = symbols[HItem.name].type /\ Current.type \in Types /\ Current.mode \in Modes
           /\ Current.name = HItem.name /\ HItem.name \in Names
<1>1. hs # 0 /\ phase = "run" /\ live \in Seq(Instances) /\ Indices(HItem.name) # {}
  BY DEF AtStatement, Walking, TearStart, TearInv, HistoryOK, Entered
<1>2. First(HItem.name) \in Indices(HItem.name)
  BY <1>1, FirstIndex
<1>3. First(HItem.name) \in DOMAIN live /\ live[First(HItem.name)].name = HItem.name
  BY <1>2 DEF Indices
<1>4. \A j \in DOMAIN live : live[j].name = HItem.name <=> j = First(HItem.name)
  BY <1>3 DEF LiveInv
<1>5. Current \in Instances /\ Current = live[First(HItem.name)]
  BY <1>1, <1>3 DEF Current
<1> QED
  BY <1>3, <1>4, <1>5 DEF Instances, LiveInv

\* Binding `self` and the actors' names binds neither ok nor error.
LEMMA BoundNames ==
    ASSUME TearStart, LiveInv, Unshadowed, AtStatement, NEW x \in {"ok", "error"}, x \in BindSelf(scope)
    PROVE  x \in scope
<1>1. \A j \in DOMAIN live : live[j].name # x
  <2> SUFFICES ASSUME NEW j \in DOMAIN live PROVE live[j].name # x
    OBVIOUS
  <2>1. PICK i \in 1..(hi - 1) : program[i].item = "actor" /\ program[i].name = live[j].name
    BY DEF LiveInv
  <2>2. i \in DOMAIN program
    BY DEF TearStart, TreeOK, Stages, LiveInv
  <2> QED
    BY <2>1, <2>2 DEF Unshadowed
<1>2. x \notin Shown
  BY <1>1 DEF Shown
<1> QED
  BY <1>2 DEF BindSelf

LEMMA RunsConstruct ==
    ASSUME Running, NEW a, RunInv(a), ConstructActor, UNCHANGED vvars
    PROVE  RunInv(a)'
<1> DEFINE n == HItem.name
           t == HItem.type
           x == [name |-> n, type |-> t, mode |-> InitialMode(t)]
           L == Len(live)
<1>1. hs = 0 /\ hi \in 1..Len(program) /\ hi \in DOMAIN program /\ program[hi].item = "actor"
      /\ hi \in Nat /\ Len(program) \in Nat
  BY DEF ConstructActor, Walking, HItem, Running, TearStart, Entered, Stages, TreeOK
<1>2. live' = Append(live, x) /\ hi' = hi + 1 /\ t \in Types
      /\ UNCHANGED <<program, symbols, hs, scope, erred, drifted>>
  BY DEF ConstructActor, Constructible, vvars
<1>3. n \in Names /\ n = program[hi].name /\ t = program[hi].type
  BY <1>1, ItemFields DEF HItem, Running, TearStart
<1>4. symbols[n].type = t
      /\ \A j \in 1..Len(program) : program[j].item = "actor" /\ program[j].name = n => j = hi
  BY <1>1, <1>3, SMTT(30) DEF Running, CheckTypes, RegisterInv, Registered
<1>5. x.name = n /\ x.type = t /\ x.mode = InitialMode(t) /\ x \in Instances
  BY <1>2, <1>3, InitialModes DEF Instances
<1>6. live \in Seq(Instances) /\ L \in Nat /\ DOMAIN live = 1..L
  BY DEF Running, TearStart, TearInv, HistoryOK
<1> HIDE DEF x, n, t
<1>7. DOMAIN live' = 1..(L + 1) /\ live'[L + 1] = x /\ \A j \in 1..L : live'[j] = live[j]
  BY <1>2, <1>5, <1>6
<1>8. \A j \in 1..(L + 1) : j = L + 1 \/ j \in 1..L
  BY <1>6
<1> HIDE DEF L
<1>9. LiveInv /\ SnapInv(a) /\ ModeInv(a) /\ DriftInv(a) /\ ErredInv(a) /\ WindowInv(a) /\ a.cmd = 0
  BY <1>1 DEF RunInv, SnapInv
<1>10. \A j \in 1..L : live[j].name # n
  <2> SUFFICES ASSUME NEW j \in 1..L, live[j].name = n PROVE FALSE
    OBVIOUS
  <2>1. PICK i \in 1..(hi - 1) : program[i].item = "actor" /\ program[i].name = live[j].name
    BY <1>6, <1>9 DEF LiveInv
  <2>2. i \in 1..Len(program) /\ i # hi
    BY <1>1, <2>1
  <2> QED
    BY <1>4, <2>1, <2>2
<1>11. LiveInv'
  <2>1. ASSUME NEW j \in 1..(L + 1) PROVE live'[j].type = symbols[live'[j].name].type
    <3>1. CASE j = L + 1
      BY <1>4, <1>5, <1>7, <3>1
    <3>2. CASE j \in 1..L
      <4>1. live[j].type = symbols[live[j].name].type
        BY <1>6, <1>9, <3>2 DEF LiveInv
      <4> QED
        BY <1>7, <3>2, <4>1
    <3> QED
      BY <1>8, <3>1, <3>2
  <2>2. ASSUME NEW j \in 1..(L + 1)
        PROVE  \E i \in 1..hi : program[i].item = "actor" /\ program[i].name = live'[j].name
    <3>1. CASE j = L + 1
      BY <1>1, <1>3, <1>5, <1>7, <3>1
    <3>2. CASE j \in 1..L
      <4>1. PICK i \in 1..(hi - 1) : program[i].item = "actor" /\ program[i].name = live[j].name
        BY <1>6, <1>9, <3>2 DEF LiveInv
      <4> QED
        BY <1>1, <1>7, <3>2, <4>1
    <3> QED
      BY <1>8, <3>1, <3>2
  <2>3. ASSUME NEW j \in 1..(L + 1), NEW k \in 1..(L + 1), live'[j].name = live'[k].name
        PROVE  j = k
    <3>1. CASE j \in 1..L /\ k \in 1..L
      <4>1. live[j].name = live[k].name
        BY <1>7, <2>3, <3>1
      <4> QED
        BY <1>6, <1>9, <3>1, <4>1 DEF LiveInv
    <3>2. CASE j = L + 1 /\ k \in 1..L
      BY <1>5, <1>7, <1>10, <2>3, <3>2
    <3>3. CASE j \in 1..L /\ k = L + 1
      BY <1>5, <1>7, <1>10, <2>3, <3>3
    <3> QED
      BY <1>8, <3>1, <3>2, <3>3
  <2>4. hi' <= Len(program') + 1 /\ hs' = 0 /\ hi' - 1 = hi
    BY <1>1, <1>2
  <2> QED
    BY <1>2, <1>7, <2>1, <2>2, <2>3, <2>4 DEF LiveInv
<1>12. SnapInv(a)'
  BY <1>1, <1>2, <1>9 DEF SnapInv
<1>13. ModeInv(a)'
  <2>1. \A m \in Names : Indices(m)' = {} => Indices(m) = {}
    BY <1>6, <1>7, <1>8 DEF Indices
  <2>2. Indices(n) = {}
    BY <1>6, <1>10 DEF Indices
  <2>3. \A m : RunMode(a, m) = a.md[m] /\ RunMode(a, m)' = a.md[m]
    BY <1>1, <1>2 DEF RunMode
  <2>4. a.md[n] = InitialMode(t)
    BY <1>2, <1>3, <1>4, <1>9, <2>2 DEF ModeInv
  <2>5. ASSUME NEW j \in 1..(L + 1), live'[j].name \notin drifted'
        PROVE  live'[j].mode = a.md[live'[j].name]
    BY <1>2, <1>5, <1>6, <1>7, <1>8, <1>9, <2>3, <2>4, <2>5 DEF ModeInv
  <2>6. \A j \in DOMAIN live' : live'[j].name \notin drifted' => live'[j].mode = RunMode(a, live[j].name)'
    BY <1>1, <1>2, <1>7, <2>5 DEF RunMode
  <2> QED
    BY <1>2, <1>9, <2>1, <2>6 DEF ModeInv
<1>14. ErredInv(a)'
  BY <1>1, <1>2, <1>9 DEF ErredInv, LastErred, Before
<1>15. WindowInv(a)'
  BY <1>9 DEF WindowInv
<1>16. DriftInv(a)'
  <2>1. n \notin drifted
    BY <1>6, <1>9, <1>10 DEF DriftInv, Indices
  <2>2. \A m : RunMode(a, m) = a.md[m] /\ RunMode(a, m)' = a.md[m]
    BY <1>1, <1>2 DEF RunMode
  <2>3. ASSUME NEW j \in 1..(L + 1), live'[j].name \in drifted
        PROVE  /\ live'[j].mode = InitialMode(live'[j].type)
               /\ a.md[live'[j].name] # InitialMode(live'[j].type)
    <3>1. j \in 1..L
      BY <1>5, <1>7, <1>8, <2>1, <2>3
    <3> QED
      BY <1>6, <1>7, <1>9, <2>2, <2>3, <3>1 DEF DriftInv
  <2>4. \A j \in DOMAIN live' : RunMode(a, live[j].name)' = a.md[live'[j].name]
    BY <1>1, <1>2 DEF RunMode
  <2>5. \A m : Indices(m) # {} => Indices(m)' # {}
    BY <1>6, <1>7, <1>8 DEF Indices
  <2> QED
    BY <1>2, <1>7, <1>9, <2>3, <2>4, <2>5 DEF DriftInv
<1> QED
  BY <1>11, <1>12, <1>13, <1>14, <1>15, <1>16 DEF RunInv

LEMMA RunsEnter ==
    ASSUME Running, NEW a, RunInv(a), EnterBlock, UNCHANGED vvars
    PROVE  RunInv(a)'
<1>1. hs = 0 /\ hs' = 1 /\ UNCHANGED <<program, symbols, hi, live, erred, drifted>>
      /\ hi \in Nat /\ hi <= Len(program) /\ Len(program) \in Nat
  BY DEF EnterBlock, vvars, Walking, Running, TearStart, Stages, TreeOK
<1>2. LiveInv /\ SnapInv(a) /\ ModeInv(a) /\ DriftInv(a) /\ ErredInv(a) /\ a.cmd = 0
  BY <1>1 DEF RunInv, SnapInv
<1>3. LiveInv'
  BY <1>1, <1>2 DEF LiveInv
<1>4. SnapInv(a)'
  BY <1>1, <1>2 DEF SnapInv
<1>5. ModeInv(a)'
  BY <1>1, <1>2 DEF ModeInv, RunMode, Indices
<1>6. ErredInv(a)'
  BY <1>1, <1>2 DEF ErredInv, LastErred, Before
<1>7. WindowInv(a)'
  BY <1>2 DEF WindowInv
<1>8. DriftInv(a)'
  BY <1>1, <1>2 DEF DriftInv, RunMode, Indices
<1> QED
  BY <1>3, <1>4, <1>5, <1>6, <1>7, <1>8 DEF RunInv

LEMMA RunsLeave ==
    ASSUME Running, NEW a, NEW b, RunInv(a), LeaveBlock, UNCHANGED vvars,
           hs # 0, EndStep(HItem.name, hi, a, b)
    PROVE  RunInv(b)'
<1> DEFINE n == HItem.name
<1>1. hs > Len(HItem.body) /\ hi' = hi + 1 /\ hs' = 0 /\ hi <= Len(program)
      /\ UNCHANGED <<program, symbols, live, erred, drifted>>
  BY DEF LeaveBlock, Walking, vvars
<1>2. hi \in Nat \ {0} /\ hs \in Nat /\ Len(program) \in Nat /\ Indices(n) # {} /\ hi \in DOMAIN program
  BY <1>1 DEF Running, TearStart, Stages, TreeOK, Entered
<1>3. n \in Names /\ Len(HItem.body) \in Nat
  BY <1>2, ItemFields DEF HItem, Running, TearStart, Entered
<1>4. LiveInv /\ SnapInv(a) /\ ModeInv(a) /\ DriftInv(a) /\ ErredInv(a) /\ WindowInv(a)
  BY DEF RunInv
<1>5. ~ErrorAhead(HItem.body, hs)
  BY <1>1, <1>2, <1>3 DEF ErrorAhead
<1>6. erred = Closed(a, hi) /\ RunMode(a, n) = Landed(a, n)
  BY <1>4, <1>5, Settled
<1>7. b.md = [a.md EXCEPT ![n] = Landed(a, n)] /\ b.com = Closed(a, hi) /\ b.cmd = 0
      /\ b.out = "ImpliedOk" /\ b.pend = NoMode
  BY DEF EndStep
<1>8. DOMAIN b.md = Names /\ \A m \in Names : b.md[m] = IF m = n THEN Landed(a, n) ELSE a.md[m]
  BY <1>3, <1>4, <1>7 DEF SnapInv
<1> HIDE DEF n
<1>9. LiveInv'
  <2>1. hi' <= Len(program') + 1 /\ hs' = 0 /\ \A i \in 1..(hi - 1) : i \in 1..(hi' - 1)
    BY <1>1, <1>2
  <2>2. ASSUME NEW j \in DOMAIN live
        PROVE  \E i \in 1..(hi' - 1) : program[i].item = "actor" /\ program[i].name = live[j].name
    <3>1. PICK i \in 1..(hi - 1) : program[i].item = "actor" /\ program[i].name = live[j].name
      BY <1>4 DEF LiveInv
    <3> QED
      BY <2>1, <3>1
  <2> QED
    BY <1>1, <1>4, <2>1, <2>2 DEF LiveInv
<1>10. SnapInv(b)'
  BY <1>1, <1>7, <1>8 DEF SnapInv
<1>11. ModeInv(b)'
  <2>1. \A j \in DOMAIN live : live[j].name \in Names
    BY LiveNames DEF Running
  <2>2. \A m \in Names : m # n => RunMode(a, m) = a.md[m]
    BY DEF RunMode, n
  <2>3. \A j \in DOMAIN live : live[j].name \notin drifted => live[j].mode = b.md[live[j].name]
    BY <1>4, <1>6, <1>8, <2>1, <2>2 DEF ModeInv
  <2>4. \A m \in Names : Indices(m) = {} => m # n
    BY <1>2
  <2>5. \A j \in DOMAIN live' : live'[j].name \notin drifted' => live'[j].mode = RunMode(b, live[j].name)'
    BY <1>1, <2>3 DEF RunMode
  <2>6. \A m \in Names : Indices(m)' = {} /\ symbols[m].type \in Types =>
                             b.md[m] = InitialMode(symbols[m].type)
    BY <1>1, <1>4, <1>8, <2>4 DEF ModeInv, Indices
  <2> QED
    BY <1>1, <2>5, <2>6 DEF ModeInv
<1>12. ErredInv(b)'
  <2>1. erred' = b.com /\ ~LastErred(b)'
    BY <1>1, <1>6, <1>7 DEF LastErred
  <2>2. \A e \in erred : e[1] \in Nat /\ Before(e[1], e[2], hi + 1, 0)
    BY <1>2, <1>4 DEF ErredInv, Before
  <2> QED
    BY <1>1, <1>4, <2>1, <2>2 DEF ErredInv
<1>13. WindowInv(b)'
  BY <1>7 DEF WindowInv
<1>14. DriftInv(b)'
  <2>1. \A j \in DOMAIN live : live[j].name \in Names
    BY LiveNames DEF Running
  <2>2. \A m \in Names : m # n => RunMode(a, m) = a.md[m]
    BY DEF RunMode, n
  <2>3. \A j \in DOMAIN live : b.md[live[j].name] = RunMode(a, live[j].name)
    BY <1>6, <1>8, <2>1, <2>2
  <2>4. \A j \in DOMAIN live' : RunMode(b, live[j].name)' = RunMode(a, live[j].name)
    BY <1>1, <2>3 DEF RunMode
  <2> QED
    BY <1>1, <1>4, <2>4 DEF DriftInv, Indices
<1> QED
  BY <1>9, <1>10, <1>11, <1>12, <1>13, <1>14 DEF RunInv

LEMMA RunsStatement ==
    ASSUME Running, NEW a, NEW b, RunInv(a), RunLet \/ AssertPasses, UNCHANGED vvars,
           OtherStep(HStmt, a, b)
    PROVE  RunInv(b)'
<1> DEFINE st == HStmt
<1>1. AtStatement /\ hs' = hs + 1 /\ UNCHANGED <<program, symbols, hi, live, erred, drifted>>
      /\ Evaluable(st.e, BindSelf(scope)) /\ ~IsCommand(st)
  BY DEF RunLet, AssertPasses, vvars, IsCommand
<1>2. hs \in 1..Len(HItem.body) /\ hi \in Nat \ {0} /\ hs \in Nat /\ hi <= Len(program)
      /\ hi \in DOMAIN program /\ HItem.item = "as" /\ HItem' = HItem
  BY <1>1 DEF AtStatement, Walking, HItem, Running, TearStart, Stages, TreeOK
<1>3. HItem.body \in Seq(StatementNodes) /\ Len(HItem.body) \in Nat
  BY <1>2, ItemFields DEF HItem, Running, TearStart
<1>4. LiveInv /\ SnapInv(a) /\ ModeInv(a) /\ DriftInv(a) /\ ErredInv(a) /\ WindowInv(a)
  BY DEF RunInv
<1>5. b.md = a.md /\ b.cmd = a.cmd /\ b.pend = a.pend /\ b.com = a.com
  BY DEF OtherStep
<1>6. LiveInv'
  BY <1>1, <1>2, <1>4 DEF LiveInv, Running, TearStart, TreeOK
<1>7. SnapInv(b)'
  BY <1>1, <1>2, <1>4, <1>5 DEF SnapInv, OtherStep
<1>8. LastErred(b)' <=> LastErred(a)
  BY <1>1, <1>5 DEF LastErred
<1>9. ModeInv(b)' /\ DriftInv(b)'
  <2>1. \A m : RunMode(a, m) = IF m = HItem.name /\ a.cmd # 0 /\ ~LastErred(a) /\ a.pend # NoMode
                               THEN a.pend ELSE a.md[m]
    BY <1>2 DEF RunMode
  <2>2. \A j \in DOMAIN live' : RunMode(b, live[j].name)' = RunMode(a, live[j].name)
    BY <1>1, <1>2, <1>5, <1>8, <2>1 DEF RunMode
  <2>3. ModeInv(b)'
    BY <1>1, <1>4, <1>5, <2>2 DEF ModeInv, Indices
  <2>4. DriftInv(b)'
    BY <1>1, <1>4, <2>2 DEF DriftInv, Indices
  <2> QED
    BY <2>3, <2>4
<1>10. ErredInv(b)'
  BY <1>1, <1>2, <1>4, <1>5, <1>8 DEF ErredInv, Before
<1>11. scope' \ {"ok", "error"} \subseteq scope' /\ \A x \in {"ok", "error"} : x \in scope' => x \in scope
  <2> SUFFICES ASSUME NEW x \in {"ok", "error"}, x \in scope' PROVE x \in scope
    OBVIOUS
  <2>1. x \in BindSelf(scope)
    <3>1. CASE RunLet
      <4>1. st.n # x
        BY <1>2, <1>3, <3>1 DEF RunLet, Unshadowed, Running, HItem, HStmt
      <4> QED
        BY <3>1, <4>1 DEF RunLet
    <3>2. CASE AssertPasses
      BY <3>2 DEF AssertPasses
    <3> QED
      BY <3>1, <3>2
  <2> QED
    BY <1>1, <1>4, <2>1, BoundNames DEF Running
<1>12. \A x \in {"ok", "error"} : Refers(st, x) => x \in scope
  <2> SUFFICES ASSUME NEW x \in {"ok", "error"}, Refers(st, x) PROVE x \in scope
    OBVIOUS
  <2>1. x \in BindSelf(scope)
    BY <1>1 DEF Refers, Evaluable
  <2> QED
    BY <1>1, <1>4, <2>1, BoundNames DEF Running
<1>13. WindowInv(b)'
  <2> SUFFICES ASSUME a.cmd # 0 PROVE WindowInv(b)'
    BY <1>5 DEF WindowInv
  <2>1. CASE LastErred(a)
    <3>1. "ok" \notin scope /\ a.out # "ExplicitOk"
          /\ (a.out = "ExplicitError" \/ ErrorAhead(HItem.body, hs))
      BY <1>4, <2>1 DEF WindowInv
    <3>2. ~Refers(st, "ok") /\ "ok" \notin scope'
      BY <1>11, <1>12, <3>1
    <3>3. b.out # "ExplicitOk"
      BY <3>1, <3>2 DEF OtherStep
    <3>4. b.out = "ExplicitError" \/ ErrorAhead(HItem.body, hs + 1)
      <4>1. CASE a.out = "ExplicitError" \/ Refers(st, "error")
        BY <3>2, <4>1 DEF OtherStep
      <4>2. CASE ErrorAhead(HItem.body, hs) /\ ~Refers(st, "error")
        <5>1. PICK k \in hs..Len(HItem.body) : /\ Refers(HItem.body[k], "error")
                                               /\ \A j \in hs..k : ~IsCommand(HItem.body[j])
          BY <4>2 DEF ErrorAhead
        <5>2. k # hs
          BY <4>2, <5>1 DEF HStmt
        <5> QED
          BY <1>2, <1>3, <5>1, <5>2 DEF ErrorAhead
      <4> QED
        BY <3>1, <4>1, <4>2
    <3> QED
      BY <1>1, <1>2, <1>8, <2>1, <3>2, <3>3, <3>4 DEF WindowInv
  <2>2. CASE ~LastErred(a)
    <3>1. "error" \notin scope /\ a.out # "ExplicitError"
      BY <1>4, <2>2 DEF WindowInv
    <3>2. ~Refers(st, "error") /\ "error" \notin scope'
      BY <1>11, <1>12, <3>1
    <3>3. b.out # "ExplicitError"
      BY <3>1, <3>2 DEF OtherStep
    <3> QED
      BY <1>8, <2>2, <3>2, <3>3 DEF WindowInv
  <2> QED
    BY <2>1, <2>2
<1> QED
  BY <1>6, <1>7, <1>9, <1>10, <1>13 DEF RunInv

LEMMA CommandFacts ==
    ASSUME Running, NEW a, NEW b, RunInv(a), AtStatement, IsCommand(HStmt),
           CommandStep(HItem.name, TypeMap[HItem.name], HStmt, hi, hs - 1, a, b)
    PROVE  /\ hs \in 1..Len(HItem.body) /\ hs \in Nat /\ hi \in Nat \ {0} /\ hi <= Len(program)
           /\ HItem.item = "as" /\ HItem.name \in Names /\ Len(HItem.body) \in Nat
           /\ ~ErrorAhead(HItem.body, hs)
           /\ Current.type = TypeMap[HItem.name] /\ Current.type \in Types
           /\ HItem.name \notin drifted => Current.mode = Landed(a, HItem.name)
           /\ HItem.name \in drifted => /\ Current.mode = InitialMode(Current.type)
                                        /\ Landed(a, HItem.name) # InitialMode(Current.type)
           /\ erred = Closed(a, hi) /\ <<hi, hs>> \notin erred
           /\ b.com = erred /\ b.cmd = hs /\ b.out = "ImpliedOk"
           /\ b.pend = TransitionsTo(Current.type, HStmt.n)
           /\ HStmt.n \in CommandsOf(Current.type)
           /\ Landed(a, HItem.name) \in ValidInModes(Current.type, HStmt.n)
           /\ DOMAIN b.md = Names
           /\ \A x \in Names : b.md[x] = IF x = HItem.name THEN Landed(a, x) ELSE a.md[x]
<1> DEFINE n == HItem.name
<1>1. AtStatement /\ IsCommand(HStmt)
  OBVIOUS
<1>2. hs \in 1..Len(HItem.body) /\ hi \in Nat \ {0} /\ hs \in Nat /\ hi <= Len(program)
      /\ hi \in DOMAIN program /\ HItem.item = "as"
  BY <1>1 DEF AtStatement, Walking, HItem, Running, TearStart, Stages, TreeOK
<1>3. Len(HItem.body) \in Nat /\ n \in Names
  BY <1>2, ItemFields DEF HItem, Running, TearStart
<1>4. LiveInv /\ SnapInv(a) /\ ModeInv(a) /\ DriftInv(a) /\ ErredInv(a) /\ WindowInv(a)
  BY DEF RunInv
<1>5. ~ErrorAhead(HItem.body, hs)
  BY <1>1, <1>2, <1>3 DEF ErrorAhead, HStmt
<1>6. First(n) \in DOMAIN live /\ live[First(n)].name = n /\ Current = live[First(n)]
      /\ Current.type = symbols[n].type /\ Current.type \in Types
  BY <1>1, <1>4, CurrentFacts DEF Running, Current
<1>7. TypeMap[n] = symbols[n].type
  BY <1>3 DEF TypeMap
<1>8. erred = Closed(a, hi) /\ RunMode(a, n) = Landed(a, n)
  BY <1>2, <1>4, <1>5, Settled
<1>9. n \notin drifted => Current.mode = Landed(a, n)
  BY <1>4, <1>6, <1>8 DEF ModeInv
<1>10. <<hi, hs>> \notin erred
  BY <1>2, <1>4 DEF ErredInv, Before
<1>11. b.md = [a.md EXCEPT ![n] = Landed(a, n)] /\ b.com = Closed(a, hi) /\ b.cmd = (hs - 1) + 1
       /\ b.out = "ImpliedOk" /\ b.pend = TransitionsTo(TypeMap[n], HStmt.n)
       /\ HStmt.n \in CommandsOf(TypeMap[n])
       /\ Landed(a, n) \in ValidInModes(TypeMap[n], HStmt.n)
  BY DEF CommandStep
<1>12. b.cmd = hs
  BY <1>2, <1>11
<1>13. DOMAIN b.md = Names /\ \A x \in Names : b.md[x] = IF x = n THEN Landed(a, n) ELSE a.md[x]
  BY <1>3, <1>4, <1>11 DEF SnapInv
<1>14. n \in drifted => Current.mode = InitialMode(Current.type) /\ Landed(a, n) # InitialMode(Current.type)
  BY <1>4, <1>6, <1>8 DEF DriftInv
<1> QED
  BY <1>2, <1>3, <1>5, <1>6, <1>7, <1>8, <1>9, <1>10, <1>11, <1>12, <1>13, <1>14

\* What every command leaves: the instances' names and types, and the modes of
\* the other instances.
LEMMA LiveAfter ==
    ASSUME Running, LiveInv, NEW o, NEW m \in Modes, Execute(<<o, m>>)
    PROVE  /\ DOMAIN live' = DOMAIN live
           /\ \A j \in DOMAIN live :
                 /\ live'[j].name = live[j].name /\ live'[j].type = live[j].type
                 /\ live[j].name # HItem.name => live'[j].mode = live[j].mode
                 /\ live[j].name = HItem.name => live'[j].mode = m /\ live[j] = Current
           /\ \E j \in DOMAIN live : live[j].name = HItem.name
<1> DEFINE f == First(HItem.name)
<1>1. AtStatement /\ live' = [live EXCEPT ![f].mode = m]
  BY DEF Execute, Issued
<1>2. f \in DOMAIN live /\ \A j \in DOMAIN live : live[j].name = HItem.name <=> j = f
  BY <1>1, CurrentFacts DEF Running
<1>3. live \in Seq(Instances)
  BY DEF Running, TearStart, TearInv, HistoryOK
<1>4. live[f] = Current
  BY DEF Current
<1> HIDE DEF f
<1>5. DOMAIN live' = DOMAIN live
  BY <1>1, <1>2, <1>3
<1>6. \A j \in DOMAIN live : /\ live'[j].name = live[j].name /\ live'[j].type = live[j].type
                             /\ j # f => live'[j] = live[j]
  BY <1>1, <1>2, <1>3, InstancesUpdate
<1>7. live'[f].mode = m
  BY <1>1, <1>2, <1>3, InstancesUpdate
<1> QED
  BY <1>2, <1>4, <1>5, <1>6, <1>7

LEMMA LiveKept ==
    ASSUME Running, LiveInv, NEW o, NEW m \in Modes, Execute(<<o, m>>), UNCHANGED vvars,
           UNCHANGED <<program, hi>>
    PROVE  LiveInv' /\ \A x \in Names : Indices(x)' = Indices(x)
<1>1. AtStatement /\ UNCHANGED symbols /\ hi <= Len(program)
  BY DEF Execute, Issued, vvars, AtStatement, Walking
<1>2. hi \in Nat \ {0} /\ Len(program) \in Nat
  BY DEF Running, TearStart, Stages, TreeOK
<1>3. DOMAIN live' = DOMAIN live
      /\ \A j \in DOMAIN live : live'[j].name = live[j].name /\ live'[j].type = live[j].type
  BY LiveAfter
<1>4. \A x \in Names : Indices(x)' = Indices(x)
  BY <1>3 DEF Indices
<1>5. hi' <= Len(program') + 1 /\ (hi' = Len(program') + 1 => hs' = 0)
  BY <1>1, <1>2
<1>6. \A j \in DOMAIN live' : live'[j].type = symbols'[live'[j].name].type
  BY <1>1, <1>3 DEF LiveInv
<1>7. \A j \in DOMAIN live' :
          \E i \in 1..(hi' - 1) : program'[i].item = "actor" /\ program'[i].name = live'[j].name
  BY <1>3 DEF LiveInv
<1>8. \A j, k \in DOMAIN live' : live'[j].name = live'[k].name => j = k
  BY <1>3 DEF LiveInv
<1> QED
  BY <1>4, <1>5, <1>6, <1>7, <1>8 DEF LiveInv

LEMMA RunsOk ==
    ASSUME Running, NEW a, NEW b, RunInv(a), CommandOk, UNCHANGED vvars,
           CommandStep(HItem.name, TypeMap[HItem.name], HStmt, hi, hs - 1, a, b)
    PROVE  RunInv(b)'
<1> DEFINE n == HItem.name
           t == Current.type
<1>1. PICK m \in Modes : Execute(<<"ok", m>>)
  BY DEF CommandOk
<1>2. hs' = hs + 1 /\ scope' = CommandScope \cup {"ok"}
      /\ UNCHANGED <<program, hi, symbols, erred, drifted>>
  BY DEF CommandOk, vvars
<1>3. LiveInv /\ SnapInv(a) /\ ModeInv(a) /\ DriftInv(a) /\ ErredInv(a)
  BY DEF RunInv
<1>4. /\ hs \in 1..Len(HItem.body) /\ hs \in Nat /\ hi \in Nat \ {0} /\ n \in Names
      /\ t \in Types /\ (n \notin drifted => Current.mode = Landed(a, n))
      /\ (n \in drifted => Current.mode = InitialMode(t) /\ Landed(a, n) # InitialMode(t))
      /\ <<hi, hs>> \notin erred /\ b.com = erred /\ b.cmd = hs /\ b.out = "ImpliedOk"
      /\ b.pend = TransitionsTo(t, HStmt.n) /\ HStmt.n \in CommandsOf(t)
      /\ Landed(a, n) \in ValidInModes(t, HStmt.n) /\ DOMAIN b.md = Names
      /\ \A x \in Names : b.md[x] = IF x = n THEN Landed(a, x) ELSE a.md[x]
  BY <1>1, CommandFacts DEF Execute, Issued
<1>5. LiveInv' /\ \A x \in Names : Indices(x)' = Indices(x)
  BY <1>1, <1>2, <1>3, LiveKept
<1>6. SnapInv(b)'
  BY <1>2, <1>4 DEF SnapInv
<1>7. ~LastErred(b)' /\ HItem' = HItem
  BY <1>2, <1>4 DEF LastErred, HItem
<1>8. ModeInv(b)'
  <2>1. n \notin drifted => m = IF b.pend # NoMode THEN b.pend ELSE b.md[n]
    <3>1. <<"ok", m>> \in Results(t, Current.mode, HStmt.n)
      BY <1>1 DEF Execute, Issued
    <3>2. n \notin drifted => Current.mode = Landed(a, n) /\ Landed(a, n) = b.md[n]
      BY <1>4
    <3>3. Current.mode \in ValidInModes(t, HStmt.n) =>
             m = IF TransitionsTo(t, HStmt.n) # NoMode THEN TransitionsTo(t, HStmt.n) ELSE Current.mode
      BY <1>4, <3>1, TablesAgree
    <3> HIDE DEF t
    <3> QED
      BY <1>4, <3>2, <3>3
  <2>2. \A x : RunMode(a, x) = IF x = n /\ a.cmd # 0 /\ ~LastErred(a) /\ a.pend # NoMode
                               THEN a.pend ELSE a.md[x]
    BY <1>4 DEF RunMode
  <2>3. \A j \in DOMAIN live : live[j].name \in Names
    BY LiveNames DEF Running
  <2>4. ASSUME NEW j \in DOMAIN live, live[j].name \notin drifted
        PROVE  live'[j].mode = IF live[j].name = n /\ b.pend # NoMode THEN b.pend ELSE b.md[live[j].name]
    <3>1. CASE live[j].name = n
      BY <1>1, <1>3, <2>1, <2>4, <3>1, LiveAfter
    <3>2. CASE live[j].name # n
      <4>1. live'[j].mode = live[j].mode
        BY <1>1, <1>3, <3>2, LiveAfter
      <4>2. live[j].mode = a.md[live[j].name]
        BY <1>3, <2>2, <2>4, <3>2 DEF ModeInv
      <4> QED
        BY <1>4, <2>3, <3>2, <4>1, <4>2
    <3> QED
      BY <3>1, <3>2
  <2>5. DOMAIN live' = DOMAIN live /\ \A j \in DOMAIN live : live'[j].name = live[j].name
    BY <1>1, <1>3, LiveAfter
  <2>6. \A j \in DOMAIN live' : RunMode(b, live[j].name)' =
            IF live[j].name = n /\ b.pend # NoMode THEN b.pend ELSE b.md[live[j].name]
    BY <1>2, <1>4, <1>7, <2>5 DEF RunMode
  <2>7. \E j \in DOMAIN live : live[j].name = n
    BY <1>1, <1>3, LiveAfter
  <2>8. \A x \in Names : Indices(x) = {} => x # n
    BY <2>7 DEF Indices
  <2>9. \A x \in Names : Indices(x)' = {} /\ symbols'[x].type \in Types =>
                             b.md[x] = InitialMode(symbols'[x].type)
    BY <1>2, <1>3, <1>4, <1>5, <2>8 DEF ModeInv
  <2> QED
    BY <1>2, <2>4, <2>5, <2>6, <2>9 DEF ModeInv
<1>9. ErredInv(b)'
  BY <1>2, <1>3, <1>4, <1>7 DEF ErredInv, Before
<1>10. WindowInv(b)'
  <2>1. "error" \notin scope'
    BY <1>2 DEF CommandScope
  <2> QED
    BY <1>4, <1>7, <2>1 DEF WindowInv
<1>11. DriftInv(b)'
  <2>1. \A x : x # n => RunMode(a, x) = a.md[x]
    BY DEF RunMode
  <2>2. DOMAIN live' = DOMAIN live /\ \A j \in DOMAIN live : /\ live'[j].name = live[j].name
                                                         /\ live'[j].type = live[j].type
                                                         /\ live[j].name \in Names
    BY <1>1, <1>3, LiveAfter, LiveNames DEF Running
  <2>3. n \notin drifted
    <3>1. <<"ok", m>> \in Results(t, Current.mode, HStmt.n) /\ <<"ok", m>>[1] = "ok"
      BY <1>1 DEF Execute
    <3> HIDE DEF t
    <3> QED
      BY <1>4, <3>1, DriftTable
  <2>4. ASSUME NEW j \in DOMAIN live, live[j].name \in drifted
        PROVE  /\ live'[j].mode = live[j].mode
               /\ RunMode(b, live[j].name)' = RunMode(a, live[j].name)
    <3>1. live[j].name # n
      BY <2>3, <2>4
    <3>2. live'[j].mode = live[j].mode
      BY <1>1, <1>3, <3>1, LiveAfter
    <3>3. RunMode(b, live[j].name)' = b.md[live[j].name]
      BY <1>7, <2>2, <3>1 DEF RunMode
    <3> QED
      BY <1>4, <2>1, <2>2, <3>1, <3>2, <3>3
  <2> QED
    BY <1>2, <1>3, <1>5, <2>2, <2>4 DEF DriftInv
<1> QED
  BY <1>5, <1>6, <1>8, <1>9, <1>10, <1>11 DEF RunInv

LEMMA RunsError ==
    ASSUME Running, NEW a, NEW b, RunInv(a), CommandError, phase' = "run", UNCHANGED vvars,
           CommandStep(HItem.name, TypeMap[HItem.name], HStmt, hi, hs - 1, a, b)
    PROVE  RunInv(b)'
<1> DEFINE n == HItem.name
           t == Current.type
<1>1. PICK m \in Modes :
          /\ Execute(<<"error", m>>)
          /\ drifted' = IF m # Current.mode THEN drifted \cup {n} ELSE drifted
  BY DEF CommandError
<1>2. hs' = hs + 1 /\ scope' = CommandScope \cup {"error"} /\ erred' = erred \cup {<<hi, hs>>}
      /\ ErrorRefAfter(HItem.body, hs) /\ UNCHANGED <<program, hi, symbols>>
  BY DEF CommandError, Fail, vvars
<1>3. LiveInv /\ SnapInv(a) /\ ModeInv(a) /\ DriftInv(a) /\ ErredInv(a)
  BY DEF RunInv
<1>4. /\ hs \in 1..Len(HItem.body) /\ hs \in Nat /\ hi \in Nat \ {0} /\ n \in Names
      /\ t \in Types /\ (n \notin drifted => Current.mode = Landed(a, n))
      /\ (n \in drifted => Current.mode = InitialMode(t) /\ Landed(a, n) # InitialMode(t))
      /\ HStmt.n \in CommandsOf(t) /\ Landed(a, n) \in ValidInModes(t, HStmt.n)
      /\ b.com = erred /\ b.cmd = hs /\ b.out = "ImpliedOk" /\ DOMAIN b.md = Names
      /\ \A x \in Names : b.md[x] = IF x = n THEN Landed(a, x) ELSE a.md[x]
  BY <1>1, CommandFacts DEF Execute, Issued
<1>5. LiveInv' /\ \A x \in Names : Indices(x)' = Indices(x)
  BY <1>1, <1>2, <1>3, LiveKept
<1>6. SnapInv(b)'
  BY <1>2, <1>4 DEF SnapInv
<1>7. LastErred(b)' /\ HItem' = HItem
  BY <1>2, <1>4 DEF LastErred, HItem
<1>8. ModeInv(b)'
  <2>1. \A x : x # n => RunMode(a, x) = a.md[x]
    BY DEF RunMode
  <2>2. \A j \in DOMAIN live : live[j].name \in Names
    BY LiveNames DEF Running
  <2>3. ASSUME NEW j \in DOMAIN live, live[j].name \notin drifted'
        PROVE  live'[j].mode = b.md[live[j].name]
    <3>1. live[j].name \notin drifted
      BY <1>1, <2>3
    <3>2. CASE live[j].name = n
      <4>1. m = Current.mode
        BY <1>1, <2>3, <3>2
      <4>2. live'[j].mode = m
        BY <1>1, <1>3, <3>2, LiveAfter
      <4> QED
        BY <1>4, <3>1, <3>2, <4>1, <4>2
    <3>3. CASE live[j].name # n
      <4>1. live'[j].mode = live[j].mode
        BY <1>1, <1>3, <3>3, LiveAfter
      <4>2. live[j].mode = a.md[live[j].name]
        BY <1>3, <2>1, <3>1, <3>3 DEF ModeInv
      <4> QED
        BY <1>4, <2>2, <3>3, <4>1, <4>2
    <3> QED
      BY <3>2, <3>3
  <2>4. DOMAIN live' = DOMAIN live /\ \A j \in DOMAIN live : live'[j].name = live[j].name
    BY <1>1, <1>3, LiveAfter
  <2>5. \A j \in DOMAIN live' : RunMode(b, live[j].name)' = b.md[live[j].name]
    BY <1>7, <2>4 DEF RunMode
  <2>6. \E j \in DOMAIN live : live[j].name = n
    BY <1>1, <1>3, LiveAfter
  <2>7. \A x \in Names : Indices(x) = {} => x # n
    BY <2>6 DEF Indices
  <2>8. \A x \in Names : Indices(x)' = {} /\ symbols'[x].type \in Types =>
                             b.md[x] = InitialMode(symbols'[x].type)
    BY <1>2, <1>3, <1>4, <1>5, <2>7 DEF ModeInv
  <2> QED
    BY <2>3, <2>4, <2>5, <2>8 DEF ModeInv
<1>9. ErredInv(b)'
  <2>1. erred' = b.com \cup {<<hi', b.cmd>>}
    BY <1>2, <1>4
  <2>2. erred' \subseteq Nat \X Nat
    BY <1>2, <1>3, <1>4 DEF ErredInv
  <2>3. \A e \in erred' : Before(e[1], e[2], hi', hs')
    BY <1>2, <1>3, <1>4 DEF ErredInv, Before
  <2> QED
    BY <1>7, <2>1, <2>2, <2>3 DEF ErredInv
<1>10. WindowInv(b)'
  <2>1. "ok" \notin scope'
    BY <1>2 DEF CommandScope
  <2>2. ErrorAhead(HItem.body, hs + 1)
    BY <1>2 DEF ErrorRefAfter, ErrorAhead
  <2> QED
    BY <1>2, <1>4, <1>7, <2>1, <2>2 DEF WindowInv
<1>11. DriftInv(b)'
  <2>1. \A x : x # n => RunMode(a, x) = a.md[x]
    BY DEF RunMode
  <2>2. DOMAIN live' = DOMAIN live /\ \A j \in DOMAIN live : /\ live'[j].name = live[j].name
                                                         /\ live'[j].type = live[j].type
                                                         /\ live[j].name \in Names
    BY <1>1, <1>3, LiveAfter, LiveNames DEF Running
  <2>3. n \in drifted' => m = InitialMode(t) /\ Landed(a, n) # InitialMode(t)
    <3>1. <<"error", m>> \in Results(t, Current.mode, HStmt.n) /\ <<"error", m>>[2] = m
      BY <1>1 DEF Execute
    <3>2. n \in drifted' => n \in drifted \/ m # Current.mode
      BY <1>1
    <3>3. \/ Current.mode = Landed(a, n)
          \/ Current.mode = InitialMode(t) /\ Landed(a, n) # InitialMode(t)
      BY <1>4
    <3> HIDE DEF t
    <3>4. CASE Current.mode = Landed(a, n)
      BY <1>4, <3>1, <3>2, <3>4, DriftTable
    <3>5. CASE Current.mode = InitialMode(t) /\ Landed(a, n) # InitialMode(t)
      BY <1>4, <3>1, <3>5, DriftTable
    <3> QED
      BY <3>3, <3>4, <3>5
  <2>4. ASSUME NEW j \in DOMAIN live, live[j].name \in drifted'
        PROVE  /\ live'[j].mode = InitialMode(live[j].type)
               /\ b.md[live[j].name] # InitialMode(live[j].type)
    <3>1. CASE live[j].name = n
      <4>1. live'[j].mode = m /\ live[j].type = t
        BY <1>1, <1>3, <3>1, LiveAfter
      <4> QED
        BY <1>4, <2>3, <2>4, <3>1, <4>1
    <3>2. CASE live[j].name # n
      <4>1. live'[j].mode = live[j].mode /\ live[j].name \in drifted
        BY <1>1, <1>3, <2>4, <3>2, LiveAfter
      <4> QED
        BY <1>3, <1>4, <2>1, <2>2, <3>2, <4>1 DEF DriftInv
    <3> QED
      BY <3>1, <3>2
  <2>5. \A j \in DOMAIN live' : RunMode(b, live[j].name)' = b.md[live[j].name]
    BY <1>7, <2>2 DEF RunMode
  <2>6. n \in Names /\ Indices(n) # {}
    BY <1>1, <1>3, <1>4, LiveAfter DEF Indices
  <2>7. \A x \in drifted' : x \in Names /\ Indices(x)' # {}
    BY <1>1, <1>3, <1>5, <2>6 DEF DriftInv
  <2> QED
    BY <2>2, <2>4, <2>5, <2>7 DEF DriftInv
<1> QED
  BY <1>5, <1>6, <1>8, <1>9, <1>10, <1>11 DEF RunInv
-----------------------------------------------------------------------------
(* Together.                                                               *)

At(w) == w[<<hi, IF hs = 0 THEN 0 ELSE hs - 1>>]

Follows == \E w : WalkEnds(program, TypeMap, w, Len(program) + 1, 0, Now) /\ RunInv(At(w))

Agree ==
    Unshadowed =>
        /\ phase = "run" => Follows
        /\ phase \in {"teardown", "done"} /\ report = "none" => erred = committed

LEMMA StepAt ==
    ASSUME TreeOK, NEW ty, NEW w, NEW c, WalkEnds(program, ty, w, Len(program) + 1, 0, c),
           NEW i \in 1..Len(program), NEW s \in Nat, IsPos(program, i, s)
    PROVE  Step(program, ty, i, s, w[<<i, s>>], w[After(program, i, s)])
<1>1. Before(i, s, Len(program) + 1, 0)
  BY DEF Before, TreeOK
<1> QED
  BY <1>1 DEF WalkEnds, Walk

LEMMA FollowStart ==
    ASSUME TreeOK, Stages, Checked, Start
    PROVE  Follows'
<1>1. phase = "idle" /\ vpass = "done" /\ diags = {} /\ UNCHANGED <<program, vvars, hi, hs, live, scope, erred, drifted>>
  BY DEF Start, Accepted
<1>2. hi = 1 /\ hs = 0 /\ live = <<>> /\ erred = {} /\ drifted = {}
  BY <1>1 DEF Stages, HInit
<1>3. PICK w : WalkEnds(program, TypeMap, w, Len(program) + 1, 0, Now)
  BY <1>1 DEF Checked, WalkInv, Reached
<1>4. PICK a : a = w[<<1, 0>>]
  OBVIOUS
<1>5. Begin(TypeMap, a)
  BY <1>3, <1>4 DEF WalkEnds, Walk
<1>6. TypeMap' = TypeMap /\ Now' = Now /\ symbols' = symbols
  BY <1>1 DEF TypeMap, Now, ModeMap, vvars
<1>7. At(w)' = a
  BY <1>1, <1>2, <1>4 DEF At
<1>8. LiveInv'
  BY <1>1, <1>2 DEF LiveInv, TreeOK
<1>9. SnapInv(a)'
  BY <1>1, <1>2, <1>5 DEF SnapInv, Begin
<1>10. ModeInv(a)'
  <2>1. \A n \in Names : symbols[n].type \in Types => a.md[n] = InitialMode(symbols[n].type)
    BY <1>5 DEF Begin, TypeMap
  <2> QED
    BY <1>1, <1>2, <1>6, <2>1 DEF ModeInv
<1>11. ErredInv(a)'
  BY <1>1, <1>2, <1>5 DEF ErredInv, Begin, LastErred
<1>12. WindowInv(a)'
  BY <1>5 DEF WindowInv, Begin
<1>13. DriftInv(a)'
  BY <1>1, <1>2 DEF DriftInv
<1>14. RunInv(At(w))'
  BY <1>7, <1>8, <1>9, <1>10, <1>11, <1>12, <1>13 DEF RunInv
<1> QED
  BY <1>1, <1>3, <1>6, <1>14 DEF Follows

\* In a block the walk's next step is the one of the current statement.
LEMMA StepHere ==
    ASSUME TreeOK, Stages, Entered, phase = "run", hi <= Len(program),
           NEW w, WalkEnds(program, TypeMap, w, Len(program) + 1, 0, Now)
    PROVE  /\ HItem.item = "actor" => w[<<hi + 1, 0>>] = w[<<hi, 0>>]
           /\ hs # 0 /\ hs <= Len(HItem.body) =>
                 IF IsCommand(HStmt)
                 THEN CommandStep(HItem.name, TypeMap[HItem.name], HStmt, hi, hs - 1,
                                  w[<<hi, hs - 1>>], w[<<hi, hs>>])
                 ELSE OtherStep(HStmt, w[<<hi, hs - 1>>], w[<<hi, hs>>])
           /\ hs # 0 /\ hs > Len(HItem.body) =>
                 EndStep(HItem.name, hi, w[<<hi, hs - 1>>], w[<<hi + 1, 0>>])
<1>1. hi \in 1..Len(program) /\ hi \in DOMAIN program /\ hi \in Nat /\ hs \in Nat
  BY DEF Stages, TreeOK
<1>2. HItem.item = "as" => Len(HItem.body) \in Nat
  BY <1>1, ItemFields DEF HItem
<1>3. CASE HItem.item = "actor"
  <2>1. IsPos(program, hi, 0) /\ After(program, hi, 0) = <<hi + 1, 0>> /\ hs = 0
    BY <1>1, <1>3 DEF IsPos, After, InLine, HItem, Entered
  <2>2. Step(program, TypeMap, hi, 0, w[<<hi, 0>>], w[<<hi + 1, 0>>])
    BY <1>1, <2>1, StepAt
  <2> QED
    BY <1>3, <2>1, <2>2 DEF Step, HItem
<1>4. CASE HItem.item = "as" /\ hs # 0
  <2>1. hs \in 1..(Len(HItem.body) + 1) /\ hs - 1 \in Nat
    BY <1>1, <1>2, <1>4 DEF Entered
  <2>2. IsPos(program, hi, hs - 1)
    BY <1>1, <1>2, <1>4, <2>1 DEF IsPos, HItem
  <2>3. Step(program, TypeMap, hi, hs - 1, w[<<hi, hs - 1>>], w[After(program, hi, hs - 1)])
    BY <1>1, <2>1, <2>2, StepAt
  <2>4. CASE hs <= Len(HItem.body)
    <3>1. InLine(program, hi, hs - 1) /\ (hs - 1) + 1 = hs
      BY <1>1, <1>2, <1>4, <2>1, <2>4 DEF InLine, HItem
    <3>2. After(program, hi, hs - 1) = <<hi, hs>>
      BY <3>1 DEF After
    <3> QED
      BY <1>1, <1>2, <1>4, <2>3, <2>4, <3>1, <3>2 DEF Step, HItem, HStmt
  <2>5. CASE hs > Len(HItem.body)
    <3>1. ~InLine(program, hi, hs - 1) /\ hs - 1 = Len(program[hi].body)
      BY <1>1, <1>2, <1>4, <2>1, <2>5 DEF InLine, HItem
    <3>2. After(program, hi, hs - 1) = <<hi + 1, 0>>
      BY <3>1 DEF After
    <3> QED
      BY <1>1, <1>2, <1>4, <2>3, <2>5, <3>1, <3>2 DEF Step, HItem
  <2> QED
    BY <1>1, <1>2, <1>4, <2>4, <2>5
<1> QED
  BY <1>1, <1>3, <1>4, ItemFields DEF HItem, Entered

LEMMA FollowRun ==
    ASSUME Running, Follows, HNext, UNCHANGED vvars, phase' = "run"
    PROVE  Follows'
<1>1. PICK w : WalkEnds(program, TypeMap, w, Len(program) + 1, 0, Now) /\ RunInv(At(w))
  BY DEF Follows
<1>2. UNCHANGED program /\ TypeMap' = TypeMap /\ Now' = Now
  BY DEF HNext, ConstructActor, ConstructFails, EndOfWalk, NoLiveInstance, EnterBlock,
     LeaveBlock, CommandOk, CommandError, CommandNotImplemented, RunLet, AssertPasses,
     AssertFails, StatementError, ConstructPanics, CommandPanics,
       Unwind, TeardownNext, EndOfTeardown, TypeMap, Now, ModeMap, vvars
<1>3. PICK a, b : a = At(w) /\ b = At(w)'
  OBVIOUS
<1>4. hi \in Nat \ {0} /\ hs \in Nat /\ TreeOK /\ Stages /\ Entered /\ phase = "run" /\ RunInv(a)
  BY <1>1, <1>3 DEF Running, TearStart, Stages
<1>5. hi <= Len(program) =>
         /\ HItem.item = "actor" => w[<<hi + 1, 0>>] = w[<<hi, 0>>]
         /\ hs # 0 /\ hs <= Len(HItem.body) =>
                 IF IsCommand(HStmt)
                 THEN CommandStep(HItem.name, TypeMap[HItem.name], HStmt, hi, hs - 1,
                                  w[<<hi, hs - 1>>], w[<<hi, hs>>])
                 ELSE OtherStep(HStmt, w[<<hi, hs - 1>>], w[<<hi, hs>>])
         /\ hs # 0 /\ hs > Len(HItem.body) =>
                 EndStep(HItem.name, hi, w[<<hi, hs - 1>>], w[<<hi + 1, 0>>])
  BY <1>1, <1>4, StepHere
<1>6. ASSUME AtStatement, hs' = hs + 1, hi' = hi
      PROVE  /\ a = w[<<hi, hs - 1>>] /\ b = w[<<hi, hs>>]
             /\ hi <= Len(program) /\ hs # 0 /\ hs <= Len(HItem.body)
  <2>1. hs # 0 /\ hs' # 0 /\ hs' - 1 = hs
    BY <1>4, <1>6 DEF AtStatement
  <2> QED
    BY <1>3, <1>4, <1>6, <2>1 DEF At, AtStatement, Walking
<1>7. RunInv(b)'
  <2>1. CASE ConstructActor
    <3>1. hi <= Len(program) /\ HItem.item = "actor" /\ hi' = hi + 1 /\ hs' = hs /\ hs = 0
      BY <1>4, <2>1 DEF ConstructActor, Walking, Entered
    <3>2. a = b
      BY <1>3, <1>5, <3>1 DEF At
    <3> QED
      BY <1>4, <2>1, <3>2, RunsConstruct
  <2>2. CASE EnterBlock
    <3>1. a = b
      BY <1>3, <2>2 DEF EnterBlock, At
    <3> QED
      BY <1>4, <2>2, <3>1, RunsEnter
  <2>3. CASE LeaveBlock
    <3>1. hs # 0 /\ hs > Len(HItem.body) /\ hi <= Len(program) /\ hi' = hi + 1 /\ hs' = 0
      <4>1. Len(HItem.body) \in Nat
        BY <1>4, <2>3, ItemFields DEF LeaveBlock, Walking, HItem, TreeOK
      <4> QED
        BY <1>4, <2>3, <4>1 DEF LeaveBlock, Walking
    <3>2. a = w[<<hi, hs - 1>>] /\ b = w[<<hi + 1, 0>>]
      BY <1>3, <3>1 DEF At
    <3>3. EndStep(HItem.name, hi, a, b)
      BY <1>5, <3>1, <3>2
    <3> QED
      BY <1>4, <2>3, <3>1, <3>3, RunsLeave
  <2>4. CASE CommandOk
    <3>1. AtStatement /\ IsCommand(HStmt) /\ hs' = hs + 1 /\ hi' = hi
      BY <2>4 DEF CommandOk, Execute, Issued
    <3>2. CommandStep(HItem.name, TypeMap[HItem.name], HStmt, hi, hs - 1, a, b)
      BY <1>5, <1>6, <3>1
    <3> QED
      BY <1>4, <2>4, <3>2, RunsOk
  <2>5. CASE CommandError
    <3>1. AtStatement /\ IsCommand(HStmt) /\ hs' = hs + 1 /\ hi' = hi
      BY <2>5 DEF CommandError, Execute, Issued, Fail
    <3>2. CommandStep(HItem.name, TypeMap[HItem.name], HStmt, hi, hs - 1, a, b)
      BY <1>5, <1>6, <3>1
    <3> QED
      BY <1>4, <2>5, <3>2, RunsError
  <2>6. CASE RunLet \/ AssertPasses
    <3>1. AtStatement /\ ~IsCommand(HStmt) /\ hs' = hs + 1 /\ hi' = hi
      BY <2>6 DEF RunLet, AssertPasses, IsCommand
    <3>2. OtherStep(HStmt, a, b)
      BY <1>5, <1>6, <3>1
    <3> QED
      BY <1>4, <2>6, <3>2, RunsStatement
  <2>7. CASE ConstructFails \/ EndOfWalk \/ NoLiveInstance \/ CommandNotImplemented \/ AssertFails
             \/ StatementError \/ ConstructPanics \/ CommandPanics \/ TeardownNext \/ EndOfTeardown
    BY <1>4, <2>7 DEF ConstructPanics, CommandPanics, Unwind, ConstructFails, EndOfWalk, NoLiveInstance, CommandNotImplemented, AssertFails,
       StatementError, ConstructPanics, CommandPanics,
       Unwind, TeardownNext, EndOfTeardown, Fail
  <2> QED
    BY <2>1, <2>2, <2>3, <2>4, <2>5, <2>6, <2>7 DEF HNext
<1>8. RunInv(At(w))'
  BY <1>3, <1>7
<1> QED
  BY <1>1, <1>2, <1>8 DEF Follows

\* The walk over the items ends with the branches the validator committed.
LEMMA FollowEnd ==
    ASSUME Running, Follows, EndOfWalk
    PROVE  erred = committed
<1>1. PICK w : WalkEnds(program, TypeMap, w, Len(program) + 1, 0, Now) /\ RunInv(At(w))
  BY DEF Follows
<1>2. hi = Len(program) + 1 /\ hs = 0
  BY <1>1 DEF EndOfWalk, RunInv, LiveInv, Running, TearStart, Stages, TreeOK
<1>3. At(w) = Now
  BY <1>1, <1>2 DEF At, WalkEnds
<1>4. Now.com = committed /\ SnapInv(Now) /\ ErredInv(Now)
  BY <1>1, <1>3 DEF RunInv, Now
<1> HIDE DEF Now
<1> QED
  BY <1>2, <1>4 DEF SnapInv, ErredInv, LastErred

AllInv == TearStart /\ Checked /\ Agree

LEMMA AgreeStep == AllInv /\ [Next]_vars => Agree'
<1> SUFFICES ASSUME AllInv, [Next]_vars, Unshadowed' PROVE Agree'
  BY DEF Agree
<1>1. CASE Write \/ Check
  <2>1. phase = "idle" /\ phase' = phase
    BY <1>1 DEF Write, Check, SNext, WriteActor, WriteBlock, WriteStatement, EndOfFile, hvars,
                AllInv, TearStart, Stages
  <2> QED
    BY <2>1 DEF Agree
<1>2. CASE Start
  BY <1>2, FollowStart DEF AllInv, TearStart, Start, Agree
<1>3. CASE Refuse
  BY <1>3 DEF Refuse, Agree
<1>4. CASE Run
  <2>1. UNCHANGED <<program, vvars>> /\ HNext
    BY <1>4 DEF Run, HNext, ConstructActor, ConstructFails, EndOfWalk, NoLiveInstance, EnterBlock,
       LeaveBlock, CommandOk, CommandError, CommandNotImplemented, RunLet, AssertPasses,
       AssertFails, StatementError, ConstructPanics, CommandPanics,
       Unwind, TeardownNext, EndOfTeardown
  <2>2. Unshadowed /\ committed' = committed
    BY <2>1 DEF Unshadowed, vvars
  <2>3. CASE phase = "run"
    <3>1. Running /\ Follows
      BY <2>2, <2>3 DEF Running, AllInv, Checked, Agree, TearStart, Stages
    <3>2. phase' = "run" => Follows'
      BY <2>1, <3>1, FollowRun
    <3>3. CASE EndOfWalk
      BY <2>2, <3>1, <3>3, FollowEnd DEF EndOfWalk, Agree
    <3>4. CASE ~EndOfWalk
      <4>1. phase' \in {"teardown", "done"} => report' # "none"
        BY <2>1, <2>3, <3>4 DEF HNext, ConstructActor, ConstructFails, NoLiveInstance, EnterBlock,
           LeaveBlock, CommandOk, CommandError, CommandNotImplemented, RunLet, AssertPasses,
           AssertFails, StatementError, ConstructPanics, CommandPanics,
       Unwind, TeardownNext, EndOfTeardown, Fail
      <4> QED
        BY <3>2, <4>1 DEF Agree
    <3> QED
      BY <3>3, <3>4
  <2>4. CASE phase # "run"
    <3>1. TeardownNext \/ EndOfTeardown
      BY <2>1, <2>4 DEF HNext, ConstructActor, ConstructFails, EndOfWalk, NoLiveInstance, EnterBlock,
         LeaveBlock, CommandOk, CommandError, CommandNotImplemented, RunLet, AssertPasses,
         AssertFails, StatementError, ConstructPanics, CommandPanics, Unwind, Execute, Issued,
         AtStatement, Walking
    <3> QED
      BY <2>2, <3>1 DEF TeardownNext, EndOfTeardown, AllInv, Agree
  <2> QED
    BY <2>3, <2>4
<1>5. CASE UNCHANGED vars
  <2>1. UNCHANGED <<phase, report, erred, committed, program>> /\ Unshadowed
    BY <1>5 DEF vars, vvars, hvars, Unshadowed
  <2>2. Follows => Follows'
    <3> SUFFICES ASSUME Follows PROVE Follows'
      OBVIOUS
    <3>0. /\ UNCHANGED <<program, symbols, vcmd, vout, pending, committed>>
          /\ UNCHANGED <<hi, hs, live, scope, erred, drifted>>
      BY <1>5 DEF vars, vvars, hvars
    <3>1. TypeMap' = TypeMap /\ Now' = Now
      BY <3>0 DEF TypeMap, Now, ModeMap
    <3>2. PICK w : WalkEnds(program, TypeMap, w, Len(program) + 1, 0, Now) /\ RunInv(At(w))
      BY DEF Follows
    <3>3. PICK a : a = At(w) /\ a = At(w)'
      BY <3>0 DEF At
    <3>4. RunInv(a)
      BY <3>2, <3>3
    <3>5. HItem' = HItem /\ \A n : Indices(n)' = Indices(n)
      BY <3>0 DEF HItem, Indices
    <3>6. /\ LastErred(a)' = LastErred(a)
          /\ \A n : RunMode(a, n)' = RunMode(a, n)
      BY <3>0, <3>5 DEF LastErred, RunMode
    <3>7. LiveInv' /\ SnapInv(a)'
      BY <3>0, <3>4 DEF RunInv, LiveInv, SnapInv
    <3>8. ModeInv(a)' /\ DriftInv(a)'
      BY <3>0, <3>4, <3>5, <3>6 DEF RunInv, ModeInv, DriftInv
    <3>9. ErredInv(a)' /\ WindowInv(a)'
      BY <3>0, <3>4, <3>5, <3>6 DEF RunInv, ErredInv, WindowInv
    <3>10. RunInv(At(w))'
      BY <3>3, <3>7, <3>8, <3>9 DEF RunInv
    <3>11. WalkEnds(program, TypeMap, w, Len(program) + 1, 0, Now)'
      BY <3>0, <3>1, <3>2
    <3> QED
      BY <3>10, <3>11 DEF Follows
  <2> QED
    BY <2>1, <2>2 DEF AllInv, Agree
<1> QED
  BY <1>1, <1>2, <1>3, <1>4, <1>5 DEF Next, Finished

LEMMA AllInvariant == Spec => []AllInv
<1>1. Init => AllInv
  <2> SUFFICES ASSUME Init PROVE AllInv
    OBVIOUS
  <2>1. Agree
    BY DEF Init, HInit, Agree
  <2> QED
    BY <2>1, StageInit, TearInit, CheckedInit DEF AllInv, TearStart
<1>2. AllInv /\ [Next]_vars => AllInv'
  BY StageStep, TearStep, CheckedStep, AgreeStep DEF AllInv, TearStart
<1> QED
  BY <1>1, <1>2, PTL DEF Spec

\* What the walk of the validator says about a command that is about to run.
LEMMA AtCommand ==
    ASSUME AllInv, Unshadowed, AtStatement, IsCommand(HStmt)
    PROVE  /\ Current.type \in Types /\ HStmt.n \in CommandsOf(Current.type)
           /\ \E m \in ValidInModes(Current.type, HStmt.n) :
                 IF HItem.name \in drifted
                 THEN Current.mode = InitialMode(Current.type) /\ m # InitialMode(Current.type)
                 ELSE Current.mode = m
<1>1. Running /\ Follows
  BY DEF AtStatement, Walking, Running, AllInv, Checked, Agree, TearStart, Stages
<1>2. PICK w : WalkEnds(program, TypeMap, w, Len(program) + 1, 0, Now) /\ RunInv(At(w))
  BY <1>1 DEF Follows
<1>3. hs # 0 /\ hs <= Len(HItem.body) /\ hi <= Len(program) /\ phase = "run"
  BY DEF AtStatement, Walking, AllInv, TearStart, Stages
<1>4. CommandStep(HItem.name, TypeMap[HItem.name], HStmt, hi, hs - 1, w[<<hi, hs - 1>>], w[<<hi, hs>>])
  BY <1>2, <1>3, StepHere DEF AllInv, TearStart
<1>5. RunInv(w[<<hi, hs - 1>>])
  BY <1>2, <1>3 DEF At
<1> QED
  BY <1>1, <1>4, <1>5, CommandFacts

\* In a script that does not give `ok` or `error` a meaning of its own, the mode
\* in which an instance receives a command is one the command is valid in: what
\* the validator tracked through blocks and asserts is where the instance is,
\* unless an error moved it.
THEOREM ModesTracked == Spec => [](Unshadowed => ModesAgree)
<1>1. AllInv => (Unshadowed => ModesAgree)
  BY AtCommand DEF ModesAgree
<1> QED
  BY <1>1, AllInvariant, PTL

\* In such a script, an instance that an error moved is in its initial mode, the
\* validator believes it elsewhere, and whatever command the validator lets
\* through is one the instance refuses: the wrong belief never passes a test.
THEOREM DriftHarmless == Spec => [](Unshadowed => DriftNeverSucceeds)
<1>1. AllInv => (Unshadowed => DriftNeverSucceeds)
  <2> SUFFICES ASSUME AllInv, Unshadowed, AtStatement, IsCommand(HStmt), HItem.name \in drifted,
                      NEW r \in Results(Current.type, Current.mode, HStmt.n)
               PROVE  r[1] # "ok"
    BY DEF DriftNeverSucceeds
  <2>1. PICK m \in ValidInModes(Current.type, HStmt.n) :
            Current.mode = InitialMode(Current.type) /\ m # InitialMode(Current.type)
    BY AtCommand
  <2>2. Current.type \in Types /\ HStmt.n \in CommandsOf(Current.type)
    BY AtCommand
  <2> QED
    BY <2>1, <2>2, DriftTable
<1> QED
  BY <1>1, AllInvariant, PTL

\* In such a script, a run that gets past all statements took the branches the
\* validator committed: exactly the commands followed by a reference to `error`
\* have returned one.
THEOREM BranchesTracked == Spec => [](Unshadowed => BranchesAgree)
<1>1. AllInv => (Unshadowed => BranchesAgree)
  BY DEF AllInv, Agree, BranchesAgree, Passed
<1> QED
  BY <1>1, AllInvariant, PTL
=============================================================================
