---------------------------- MODULE SuiteProofs -----------------------------
(***************************************************************************)
(* Theorems about module Suite, for every directory, every command line,   *)
(* every content of the files and every change of them.                    *)
(***************************************************************************)
EXTENDS Suite, SequenceTheorems, WellFoundedInduction, TLAPS

-----------------------------------------------------------------------------
(* What FlattenSeq makes of sequences over a set.                          *)

\* Every nonempty set of numbers has a smallest one: induction, in the form of a
\* smallest counterexample.
LEMMA Smallest ==
    ASSUME NEW T \in SUBSET Nat, T # {}
    PROVE  \E x \in T : \A y \in T : x <= y
<1> DEFINE R == OpToRel(<, Nat)
<1>1. IsWellFoundedOn(R, Nat)
  BY NatLessThanWellFounded, Zenon
<1>2. PICK x \in T : \A y \in T : ~(<<y, x>> \in R)
  BY <1>1, WFMin, Zenon
<1>3. \A y \in T : y < x => <<y, x>> \in R
  BY Zenon DEF OpToRel
<1> HIDE DEF R
<1>4. \A y \in T : ~(y < x)
  BY <1>2, <1>3
<1> QED
  BY <1>4

\* f is the table of the first n partial concatenations of s.
Partial(s, n, f) == f = [i \in 1..n |-> IF i = 1 THEN s[i] ELSE f[i - 1] \o s[i]]

LEMMA PartialExists ==
    ASSUME NEW s, NEW n \in Nat
    PROVE  \E f : Partial(s, n, f)
<1> DEFINE T == {k \in Nat : ~\E f : Partial(s, k, f)}
<1> SUFFICES ASSUME T # {} PROVE FALSE
  OBVIOUS
<1>1. PICK k \in T : \A y \in T : k <= y
  <2>1. T \in SUBSET Nat
    OBVIOUS
  <2> HIDE DEF T
  <2> QED
    BY <2>1, Smallest
<1>2. k # 0
  <2>1. Partial(s, 0, <<>>)
    BY DEF Partial
  <2> QED
    BY <1>1, <2>1
<1>3. k - 1 \in Nat /\ k - 1 \notin T
  BY <1>1, <1>2
<1>4. PICK f : Partial(s, k - 1, f)
  BY <1>3
<1> DEFINE g == [i \in 1..k |-> IF i = k THEN (IF k = 1 THEN s[k] ELSE f[k - 1] \o s[k]) ELSE f[i]]
<1>5. ASSUME NEW i \in 1..k PROVE g[i] = IF i = 1 THEN s[i] ELSE g[i - 1] \o s[i]
  <2>1. CASE i = k
    BY <1>2, <2>1
  <2>2. CASE i # k
    <3>1. i \in 1..(k - 1) /\ g[i] = f[i] /\ (i # 1 => i - 1 \in 1..k /\ i - 1 # k /\ g[i - 1] = f[i - 1])
      BY <1>3, <2>2
    <3>2. f[i] = IF i = 1 THEN s[i] ELSE f[i - 1] \o s[i]
      BY <1>4, <3>1 DEF Partial
    <3> QED
      BY <3>1, <3>2
  <2> QED
    BY <2>1, <2>2
<1>6. Partial(s, k, g)
  <2>1. g = [i \in 1..k |-> g[i]]
    OBVIOUS
  <2> HIDE DEF g
  <2> QED
    BY <1>5, <2>1 DEF Partial
<1> QED
  BY <1>1, <1>6

LEMMA PartialTyped ==
    ASSUME NEW S, NEW s \in Seq(Seq(S)), NEW f, Partial(s, Len(s), f)
    PROVE  \A i \in 1..Len(s) : f[i] \in Seq(S)
<1> DEFINE T == {k \in 1..Len(s) : f[k] \notin Seq(S)}
<1> SUFFICES ASSUME T # {} PROVE FALSE
  OBVIOUS
<1>1. PICK k \in T : \A y \in T : k <= y
  <2>1. T \in SUBSET Nat
    OBVIOUS
  <2> HIDE DEF T
  <2> QED
    BY <2>1, Smallest
<1>2. f[k] = IF k = 1 THEN s[k] ELSE f[k - 1] \o s[k]
  BY <1>1 DEF Partial
<1>3. CASE k = 1
  BY <1>1, <1>2, <1>3
<1>4. CASE k # 1
  <2>1. k - 1 \in 1..Len(s) /\ k - 1 \notin T
    BY <1>1, <1>4
  <2>2. f[k - 1] \in Seq(S) /\ s[k] \in Seq(S)
    BY <1>1, <2>1
  <2>3. f[k - 1] \o s[k] \in Seq(S)
    BY <2>2
  <2> QED
    BY <1>1, <1>2, <1>4, <2>3
<1> QED
  BY <1>3, <1>4

LEMMA FlattenTyped ==
    ASSUME NEW S, NEW s \in Seq(Seq(S))
    PROVE  FlattenSeq(s) \in Seq(S)
<1>1. CASE Len(s) = 0
  <2>1. s = <<>>
    BY <1>1
  <2> QED
    BY <1>1, <2>1 DEF FlattenSeq
<1>2. CASE Len(s) # 0
  <2> DEFINE f == CHOOSE f : f = [i \in 1..Len(s) |-> IF i = 1 THEN s[i] ELSE f[i - 1] \o s[i]]
  <2>1. Partial(s, Len(s), f)
    <3>1. \E g : g = [i \in 1..Len(s) |-> IF i = 1 THEN s[i] ELSE g[i - 1] \o s[i]]
      <4>1. Len(s) \in Nat
        OBVIOUS
      <4> QED
        BY <4>1, PartialExists, Zenon DEF Partial
    <3> QED
      BY <3>1, Zenon DEF Partial
  <2>2. FlattenSeq(s) = f[Len(s)]
    BY <1>2, Zenon DEF FlattenSeq
  <2> HIDE DEF f
  <2>3. Len(s) \in 1..Len(s)
    BY <1>2
  <2> QED
    BY <2>1, <2>2, <2>3, PartialTyped
<1> QED
  BY <1>1, <1>2

LEMMA AppendFacts ==
    ASSUME NEW S, NEW s \in Seq(S), NEW e \in S
    PROVE  /\ Append(s, e) \in Seq(S)
           /\ Len(s) \in Nat /\ DOMAIN s = 1..Len(s)
           /\ Len(Append(s, e)) = Len(s) + 1
           /\ DOMAIN Append(s, e) = 1..(Len(s) + 1)
           /\ \A i \in 1..Len(s) : Append(s, e)[i] = s[i]
           /\ Append(s, e)[Len(s) + 1] = e
OBVIOUS

LEMMA LengthFacts ==
    ASSUME NEW S, NEW s \in Seq(S)
    PROVE  Len(s) \in Nat /\ DOMAIN s = 1..Len(s) /\ (s = <<>> <=> Len(s) = 0)
OBVIOUS

-----------------------------------------------------------------------------
(* The inductive invariant.                                                *)

CheckedFiles == [path : FileNames, content : Contents]
TestReports == [path : FileNames, content : Contents, passed : BOOLEAN]

SuiteTypes ==
    /\ cmd \in {"test", "check"} /\ paths \in Selections
    /\ disk \in [FileNames -> Contents]
    /\ phase \in {"args", "resolve", "check", "gate", "run", "exit"}
    /\ files \in Seq(FileNames) /\ unread \in Seq(FileNames)
    /\ checked \in Seq(CheckedFiles) /\ ran \in Seq(TestReports)

\* Every file that was read is in its place, unless one before it was not.
ReadInv ==
    /\ \A i \in DOMAIN checked : checked[i].content.status # "unreadable"
    /\ unread = <<>> => \A i \in DOMAIN checked : checked[i].path = files[i]

\* The gate is open.
Cleared ==
    /\ cmd = "test" /\ unread = <<>> /\ Len(checked) = Len(files)
    /\ \A i \in DOMAIN checked : ~HasErrors(checked[i])

StageInv ==
    /\ phase \in {"args", "resolve"} => files = <<>> /\ checked = <<>> /\ unread = <<>>
    /\ phase \in {"check", "gate", "run"} => files # <<>>
    /\ phase = "check" => Len(checked) + Len(unread) <= Len(files)
    /\ phase \in {"gate", "run"} => Len(checked) + Len(unread) = Len(files)
    /\ phase \in {"args", "resolve", "check", "gate"} => ran = <<>>
    /\ phase = "run" \/ ran # <<>> => Cleared

\* What ran is what was checked, and a test that passed could construct its
\* args_actor.
RanInv ==
    /\ Len(ran) <= Len(checked)
    /\ \A i \in DOMAIN ran :
          /\ ran[i].path = checked[i].path /\ ran[i].content = checked[i].content
          /\ ran[i].passed => ArgsConstructible(ran[i].content.vars, cli)

SuiteInv == SuiteTypes /\ ReadInv /\ StageInv /\ RanInv /\ ExitTruthful

LEMMA SuiteInit == Init => SuiteInv
<1> SUFFICES ASSUME Init PROVE SuiteInv
  OBVIOUS
<1>1. SuiteTypes
  BY SuiteAssumption DEF Init, SuiteTypes
<1> QED
  BY <1>1 DEF Init, SuiteInv, ReadInv, StageInv, RanInv, ExitTruthful

\* Steps that touch neither the files nor what was found in them.
LEMMA ReadKept ==
    ASSUME SuiteInv, UNCHANGED <<files, checked, unread>>
    PROVE  ReadInv'
BY DEF SuiteInv, ReadInv

LEMMA RanKept ==
    ASSUME SuiteInv, UNCHANGED <<checked, ran, cli>>
    PROVE  RanInv'
BY DEF SuiteInv, RanInv

LEMMA TypesKept ==
    ASSUME SuiteInv, UNCHANGED <<cmd, paths, disk, files, checked, unread, ran>>,
           phase' \in {"args", "resolve", "check", "gate", "run", "exit"}
    PROVE  SuiteTypes'
BY DEF SuiteInv, SuiteTypes

LEMMA ParseArgs == ASSUME SuiteInv, parse_cli_args PROVE SuiteInv'
<1>1. /\ phase = "args" /\ phase' \in {"resolve", "exit"}
      /\ UNCHANGED <<cmd, paths, disk, files, checked, unread, ran>>
      /\ phase' = "exit" => exit' = 1
  BY DEF parse_cli_args, Exit, call, world
<1>2. SuiteTypes' /\ ReadInv'
  BY <1>1, TypesKept, ReadKept
<1>3. files = <<>> /\ checked = <<>> /\ unread = <<>> /\ ran = <<>>
  BY <1>1 DEF SuiteInv, StageInv
<1>4. StageInv' /\ RanInv' /\ ExitTruthful'
  BY <1>1, <1>3 DEF StageInv, RanInv, ExitTruthful
<1> QED
  BY <1>2, <1>4 DEF SuiteInv

LEMMA FoundFiles ==
    ASSUME SuiteInv
    PROVE  /\ Files \in Seq(FileNames)
           /\ FlattenSeq([i \in DOMAIN paths |-> Expanded(paths[i])]) \in Seq(FileNames)
<1>1. paths \in Seq(FileNames \cup {"dir", "dark", "other"})
  BY SuiteAssumption DEF SuiteInv, SuiteTypes
<1>2. \A p \in FileNames \cup {"dir", "dark", "other"} : Expanded(p) \in Seq(FileNames)
  BY SuiteAssumption DEF Expanded
<1> DEFINE e == [i \in DOMAIN paths |-> Expanded(paths[i])]
<1>3. e \in Seq(Seq(FileNames))
  <2>1. Len(paths) \in Nat /\ DOMAIN paths = 1..Len(paths)
    BY <1>1
  <2>2. \A i \in DOMAIN paths : Expanded(paths[i]) \in Seq(FileNames)
    BY <1>1, <1>2
  <2>3. e \in [1..Len(paths) -> Seq(FileNames)]
    BY <2>1, <2>2
  <2> HIDE DEF e
  <2> QED
    BY <2>1, <2>3, SeqDef
<1> HIDE DEF e
<1>4. FlattenSeq(e) \in Seq(FileNames)
  BY <1>3, FlattenTyped
<1> QED
  BY <1>4, SuiteAssumption DEF e

LEMMA Resolve == ASSUME SuiteInv, resolve_files PROVE SuiteInv'
<1> DEFINE found == IF paths = <<>> THEN Files
                    ELSE FlattenSeq([i \in DOMAIN paths |-> Expanded(paths[i])])
<1>1. found \in Seq(FileNames)
  BY FoundFiles
<1>2. /\ phase = "resolve" /\ UNCHANGED <<cmd, paths, disk, cli, checked, unread, ran>>
      /\ \/ phase' = "exit" /\ exit' = 1 /\ UNCHANGED files
         \/ found # <<>> /\ files' = found /\ phase' = "check"
  BY DEF resolve_files, Exit, call, world
<1> HIDE DEF found
<1>3. files = <<>> /\ checked = <<>> /\ unread = <<>> /\ ran = <<>>
  BY <1>2 DEF SuiteInv, StageInv
<1>4. SuiteTypes'
  BY <1>1, <1>2 DEF SuiteInv, SuiteTypes
<1>5. ReadInv' /\ RanInv'
  BY <1>2, <1>3 DEF ReadInv, RanInv
<1>6. Len(files') \in Nat
  BY <1>4 DEF SuiteTypes
<1>7. StageInv' /\ ExitTruthful'
  BY <1>2, <1>3, <1>6 DEF StageInv, ExitTruthful
<1> QED
  BY <1>4, <1>5, <1>7 DEF SuiteInv

LEMMA CheckOne == ASSUME SuiteInv, check_files PROVE SuiteInv'
<1> DEFINE p == files[Next1]
           f == [path |-> p, content |-> disk[p]]
<1>1. /\ phase = "check" /\ Next1 <= Len(files)
      /\ UNCHANGED <<cmd, paths, disk, phase, cli, files, ran, exit>>
      /\ \/ unread' = Append(unread, p) /\ UNCHANGED checked
         \/ disk[p].status # "unreadable" /\ checked' = Append(checked, f) /\ UNCHANGED unread
  BY DEF check_files, call, world
<1>2. /\ files \in Seq(FileNames) /\ unread \in Seq(FileNames) /\ checked \in Seq(CheckedFiles)
      /\ disk \in [FileNames -> Contents]
  BY DEF SuiteInv, SuiteTypes
<1>3. Len(files) \in Nat /\ Len(unread) \in Nat /\ Len(checked) \in Nat
  BY <1>2
<1>4. Next1 \in 1..Len(files) /\ Next1 = Len(checked) + Len(unread) + 1
  BY <1>1, <1>3 DEF Next1
<1>5. p \in FileNames /\ f \in CheckedFiles /\ f.path = p /\ f.content = disk[p]
  BY <1>2, <1>4 DEF CheckedFiles
<1>6. ran = <<>> /\ files # <<>>
  BY <1>1 DEF SuiteInv, StageInv
<1>7. RanInv' /\ ExitTruthful'
  <2>1. Len(checked') \in Nat
    BY <1>1, <1>2, <1>5, AppendFacts
  <2> QED
    BY <1>1, <1>6, <2>1 DEF RanInv, ExitTruthful
<1> HIDE DEF f, p
<1>8. CASE unread' = Append(unread, p) /\ UNCHANGED checked
  <2>1. unread' \in Seq(FileNames) /\ Len(unread') = Len(unread) + 1
    BY <1>2, <1>5, <1>8, AppendFacts
  <2>2. unread' # <<>>
    BY <1>3, <2>1
  <2>3. SuiteTypes'
    BY <1>1, <1>8, <2>1 DEF SuiteInv, SuiteTypes
  <2>4. ReadInv'
    BY <1>8, <2>2 DEF SuiteInv, ReadInv
  <2>5. StageInv'
    BY <1>1, <1>3, <1>4, <1>6, <1>8, <2>1 DEF StageInv
  <2> QED
    BY <1>7, <2>3, <2>4, <2>5 DEF SuiteInv
<1>9. CASE disk[p].status # "unreadable" /\ checked' = Append(checked, f) /\ UNCHANGED unread
  <2>1. /\ checked' \in Seq(CheckedFiles) /\ Len(checked') = Len(checked) + 1
        /\ DOMAIN checked = 1..Len(checked) /\ DOMAIN checked' = 1..(Len(checked) + 1)
        /\ \A i \in 1..Len(checked) : checked'[i] = checked[i]
        /\ checked'[Len(checked) + 1] = f
    BY <1>2, <1>5, <1>9, AppendFacts
  <2>2. SuiteTypes'
    BY <1>1, <1>9, <2>1 DEF SuiteInv, SuiteTypes
  <2>3. ReadInv'
    <3>1. unread = <<>> => p = files[Len(checked) + 1]
      BY <1>3, <1>4 DEF p
    <3>2. \A i \in DOMAIN checked' : i \in DOMAIN checked \/ i = Len(checked) + 1
      BY <1>3, <2>1
    <3> QED
      BY <1>1, <1>5, <1>9, <2>1, <3>1, <3>2 DEF SuiteInv, ReadInv
  <2>4. StageInv'
    <3>1. Len(checked') + Len(unread') <= Len(files')
      <4>1. Len(checked') = Len(checked) + 1 /\ unread' = unread /\ files' = files
        BY <1>1, <1>9, <2>1
      <4>2. Len(checked) + Len(unread) + 1 <= Len(files)
        BY <1>4
      <4> QED
        BY <1>3, <4>1, <4>2
    <3> QED
      BY <1>1, <1>6, <3>1 DEF StageInv
  <2> QED
    BY <1>7, <2>2, <2>3, <2>4 DEF SuiteInv
<1> QED
  BY <1>1, <1>8, <1>9

\* The check is over, and the gate opens or does not.
LEMMA GateStep ==
    ASSUME SuiteInv, CheckEnds \/ CheckExits \/ Gate
    PROVE  SuiteInv'
<1>1. /\ UNCHANGED <<cmd, paths, disk, cli, files, checked, unread, ran>>
      /\ phase' \in {"gate", "run", "exit"} /\ phase \in {"check", "gate"}
  BY DEF CheckEnds, CheckExits, Gate, Exit, call, world
<1>2. SuiteTypes' /\ ReadInv' /\ RanInv'
  BY <1>1, TypesKept, ReadKept, RanKept
<1>3. Len(files) \in Nat /\ Len(unread) \in Nat /\ Len(checked) \in Nat
      /\ (unread = <<>> <=> Len(unread) = 0)
  BY DEF SuiteInv, SuiteTypes
<1>4. ran = <<>> /\ files # <<>> /\ Len(checked) + Len(unread) <= Len(files)
  BY <1>1, <1>3 DEF SuiteInv, StageInv
<1>5. CASE CheckEnds
  <2>1. phase' = "gate" /\ Len(checked) + Len(unread) = Len(files)
    BY <1>3, <1>4, <1>5 DEF CheckEnds, Next1
  <2>2. StageInv' /\ ExitTruthful'
    BY <1>1, <1>4, <2>1 DEF StageInv, ExitTruthful
  <2> QED
    BY <1>2, <2>2 DEF SuiteInv
<1>6. CASE CheckExits \/ Gate
  <2>1. phase = "gate" /\ Len(checked) + Len(unread) = Len(files)
    BY <1>6 DEF CheckExits, Gate, SuiteInv, StageInv
  <2>2. unread = <<>> <=> Len(checked) = Len(files)
    BY <1>3, <2>1
  <2>3. ~SomeFailing <=> \A i \in DOMAIN checked : checked[i].content.status \in {"clean", "warned"}
    <3>1. \A i \in DOMAIN checked : checked[i].content.status \in Statuses \ {"unreadable"}
      <4>1. \A i \in DOMAIN checked : checked[i] \in CheckedFiles
        BY DEF SuiteInv, SuiteTypes
      <4> QED
        BY <4>1, SuiteAssumption DEF SuiteInv, ReadInv, CheckedFiles
    <3> QED
      BY <3>1 DEF SomeFailing, HasErrors, Statuses
  <2>4. CASE Gate /\ phase' = "run"
    <3>1. unread = <<>> /\ ~SomeFailing /\ cmd = "test"
      BY <2>4 DEF Gate, Exit
    <3>2. Cleared'
      BY <1>1, <2>2, <3>1 DEF Cleared, SomeFailing, HasErrors
    <3>3. StageInv' /\ ExitTruthful'
      BY <1>1, <1>4, <2>1, <2>4, <3>2 DEF StageInv, ExitTruthful
    <3> QED
      BY <1>2, <3>3 DEF SuiteInv
  <2>5. CASE ~(Gate /\ phase' = "run")
    <3>1. /\ phase' = "exit" /\ exit' \in {0, 1}
          /\ exit' = 0 <=> (cmd = "check" /\ unread = <<>> /\ ~SomeFailing)
          /\ cmd = "test" => unread # <<>> \/ SomeFailing
      BY <1>6, <2>5 DEF CheckExits, Gate, Exit
    <3>2. StageInv'
      BY <1>1, <1>4, <3>1 DEF StageInv
    <3>3. cmd \in {"test", "check"}
      BY DEF SuiteInv, SuiteTypes
    <3>4. ExitTruthful'
      BY <1>1, <1>4, <2>2, <2>3, <3>1, <3>3 DEF ExitTruthful
    <3> QED
      BY <1>2, <3>2, <3>4 DEF SuiteInv
  <2> QED
    BY <2>4, <2>5
<1> QED
  BY <1>5, <1>6

\* A test that passes has constructed its args_actor.
LEMMA ReportFacts ==
    ASSUME NEW f \in CheckedFiles, NEW others \in BOOLEAN
    PROVE  /\ Report(f, f.content, others) \in TestReports
           /\ Report(f, f.content, others).path = f.path
           /\ Report(f, f.content, others).content = f.content
           /\ Report(f, f.content, others).passed => ArgsConstructible(f.content.vars, cli)
<1>1. TestPasses(f.content, others) \in BOOLEAN
  BY DEF TestPasses
<1>2. TestPasses(f.content, others) => ArgsConstructible(f.content.vars, cli)
  BY DEF TestPasses
<1> QED
  BY <1>1, <1>2 DEF Report, TestReports, CheckedFiles

LEMMA RunOne == ASSUME SuiteInv, RunFile PROVE SuiteInv'
<1> DEFINE f == checked[Len(ran) + 1]
<1>1. /\ phase = "run" /\ Len(ran) < Len(checked)
      /\ UNCHANGED <<cmd, paths, disk, phase, cli, files, checked, unread, exit>>
  BY DEF RunFile, call, world
<1>2. ran \in Seq(TestReports) /\ checked \in Seq(CheckedFiles)
  BY DEF SuiteInv, SuiteTypes
<1>3. Len(ran) \in Nat /\ Len(checked) \in Nat /\ Len(ran) + 1 \in 1..Len(checked)
  BY <1>1, <1>2
<1>4. f \in CheckedFiles
  BY <1>2, <1>3
<1>5. PICK others \in BOOLEAN : ran' = Append(ran, Report(f, f.content, others))
  BY DEF RunFile
<1> DEFINE r == Report(f, f.content, others)
<1>6. /\ r \in TestReports /\ r.path = f.path /\ r.content = f.content
      /\ r.passed => ArgsConstructible(f.content.vars, cli)
  <2> HIDE DEF f
  <2> QED
    BY <1>4, ReportFacts
<1> HIDE DEF r
<1>7. /\ ran' \in Seq(TestReports) /\ Len(ran') = Len(ran) + 1
      /\ DOMAIN ran = 1..Len(ran) /\ DOMAIN ran' = 1..(Len(ran) + 1)
      /\ \A i \in 1..Len(ran) : ran'[i] = ran[i]
      /\ ran'[Len(ran) + 1] = r
  <2>1. ran' = Append(ran, r)
    BY <1>5 DEF r
  <2> QED
    BY <1>2, <1>6, <2>1, AppendFacts
<1>8. SuiteTypes' /\ ReadInv'
  <2>1. SuiteTypes'
    BY <1>1, <1>7 DEF SuiteInv, SuiteTypes
  <2> QED
    BY <1>1, <2>1, ReadKept
<1>9. RanInv'
  <2>1. \A i \in DOMAIN ran' : i \in DOMAIN ran \/ i = Len(ran) + 1
    BY <1>3, <1>7
  <2>2. Len(ran') <= Len(checked')
    BY <1>1, <1>3, <1>7
  <2>3. ASSUME NEW i \in DOMAIN ran
        PROVE  /\ ran'[i].path = checked'[i].path /\ ran'[i].content = checked'[i].content
               /\ ran'[i].passed => ArgsConstructible(ran'[i].content.vars, cli')
    <3>1. ran'[i] = ran[i] /\ checked' = checked /\ cli' = cli
      BY <1>1, <1>7
    <3>2. /\ ran[i].path = checked[i].path /\ ran[i].content = checked[i].content
          /\ ran[i].passed => ArgsConstructible(ran[i].content.vars, cli)
      BY DEF SuiteInv, RanInv
    <3> QED
      BY <3>1, <3>2
  <2>4. LET i == Len(ran) + 1 IN
        /\ ran'[i].path = checked'[i].path /\ ran'[i].content = checked'[i].content
        /\ ran'[i].passed => ArgsConstructible(ran'[i].content.vars, cli')
    BY <1>1, <1>6, <1>7
  <2> QED
    BY <2>1, <2>2, <2>3, <2>4, Zenon DEF RanInv
<1>10. StageInv' /\ ExitTruthful'
  <2>1. Cleared' /\ files # <<>> /\ Len(checked) + Len(unread) = Len(files)
    BY <1>1 DEF SuiteInv, StageInv, Cleared, HasErrors
  <2> QED
    BY <1>1, <2>1 DEF StageInv, ExitTruthful
<1> QED
  BY <1>8, <1>9, <1>10 DEF SuiteInv

LEMMA ExitStep == ASSUME SuiteInv, TestExits PROVE SuiteInv'
<1>1. /\ phase = "run" /\ phase' = "exit" /\ Len(ran) = Len(checked)
      /\ UNCHANGED <<cmd, paths, disk, cli, files, checked, unread, ran>>
      /\ exit' = IF \E i \in DOMAIN ran : ~ran[i].passed THEN 1 ELSE 0
  BY DEF TestExits, Exit, call, world
<1>2. SuiteTypes' /\ ReadInv' /\ RanInv'
  BY <1>1, TypesKept, ReadKept, RanKept
<1>3. Cleared /\ files # <<>>
  BY <1>1 DEF SuiteInv, StageInv
<1>4. StageInv'
  BY <1>1, <1>3 DEF StageInv, Cleared, HasErrors
<1>5. \A i \in DOMAIN checked : checked[i].content.status \in {"clean", "warned"}
  <2>1. \A i \in DOMAIN checked : checked[i] \in CheckedFiles
    BY DEF SuiteInv, SuiteTypes
  <2> QED
    BY <1>3, <2>1, SuiteAssumption DEF SuiteInv, ReadInv, CheckedFiles, Cleared, HasErrors, Statuses
<1>6. ExitTruthful'
  BY <1>1, <1>3, <1>5 DEF ExitTruthful, Cleared
<1> QED
  BY <1>2, <1>4, <1>6 DEF SuiteInv

LEMMA PanicStep == ASSUME SuiteInv, RunPanics PROVE SuiteInv'
<1>1. /\ phase = "run" /\ phase' = "exit" /\ exit' = 101 /\ Len(ran) < Len(checked)
      /\ UNCHANGED <<cmd, paths, disk, cli, files, checked, unread, ran>>
  BY DEF RunPanics, Exit, call, world
<1>2. SuiteTypes' /\ ReadInv' /\ RanInv'
  BY <1>1, TypesKept, ReadKept, RanKept
<1>3. StageInv'
  BY <1>1 DEF SuiteInv, StageInv, Cleared, HasErrors
<1>4. ExitTruthful'
  <2>1. Len(checked) = Len(files) /\ Len(ran) \in Nat /\ Len(checked) \in Nat
    BY <1>1 DEF SuiteInv, SuiteTypes, StageInv, Cleared
  <2>2. cmd = "test" /\ Len(ran) # Len(files)
    BY <1>1, <2>1 DEF SuiteInv, StageInv, Cleared
  <2> QED
    BY <1>1, <2>2 DEF ExitTruthful
<1> QED
  BY <1>2, <1>3, <1>4 DEF SuiteInv

LEMMA EditStep == ASSUME SuiteInv, Edit PROVE SuiteInv'
<1>1. UNCHANGED <<cmd, raw, paths, phase, cli, files, checked, unread, ran, exit>>
  BY DEF Edit, call
<1>2. disk' \in [FileNames -> Contents]
  <2>1. PICK p \in DOMAIN disk, c \in Saved : disk' = [disk EXCEPT ![p] = c]
    BY DEF Edit
  <2>2. c \in Contents
    BY Zenon DEF Contents
  <2>3. disk \in [FileNames -> Contents]
    BY DEF SuiteInv, SuiteTypes
  <2> QED
    BY <2>1, <2>2, <2>3
<1>3. SuiteTypes'
  BY <1>1, <1>2 DEF SuiteInv, SuiteTypes
<1>4. ReadInv' /\ RanInv'
  BY <1>1, ReadKept, RanKept
<1>5. StageInv' /\ ExitTruthful'
  BY <1>1 DEF SuiteInv, StageInv, Cleared, HasErrors, ExitTruthful
<1> QED
  BY <1>3, <1>4, <1>5 DEF SuiteInv

LEMMA SuiteStep == SuiteInv /\ [Next]_vars => SuiteInv'
<1> SUFFICES ASSUME SuiteInv, [Next]_vars PROVE SuiteInv'
  OBVIOUS
<1>1. CASE UNCHANGED vars
  <2>1. UNCHANGED <<cmd, paths, disk, phase, cli, files, checked, unread, ran, exit>>
    BY <1>1 DEF vars
  <2>2. SuiteTypes' /\ ReadInv' /\ RanInv'
    BY <2>1, ReadKept, RanKept DEF SuiteInv, SuiteTypes
  <2>3. StageInv' /\ ExitTruthful'
    BY <2>1 DEF SuiteInv, StageInv, Cleared, HasErrors, ExitTruthful
  <2> QED
    BY <2>2, <2>3 DEF SuiteInv
<1>2. CASE Command
  BY <1>2, ParseArgs, Resolve, CheckOne, GateStep, RunOne, ExitStep, PanicStep DEF Command
<1>3. CASE Edit
  BY <1>3, EditStep
<1> QED
  BY <1>1, <1>2, <1>3 DEF Next, Exited

LEMMA SuiteInvariant == Spec => []SuiteInv
BY SuiteInit, SuiteStep, PTL DEF Spec

\* Nothing runs unless every selected file was read and is free of errors, and what
\* runs is the text that was checked, however often the files change meanwhile.
THEOREM GateCorrect == Spec => []GateHolds
<1>1. SuiteInv => GateHolds
  <2> SUFFICES ASSUME SuiteInv, ran # <<>> PROVE GateHolds
    BY DEF GateHolds
  <2>1. Cleared
    BY DEF SuiteInv, StageInv
  <2>2. \A i \in DOMAIN checked : checked[i].content.status \in {"clean", "warned"}
    <3>1. \A i \in DOMAIN checked : checked[i] \in CheckedFiles
      BY DEF SuiteInv, SuiteTypes
    <3> QED
      BY <2>1, <3>1, SuiteAssumption
         DEF SuiteInv, ReadInv, CheckedFiles, Cleared, HasErrors, Statuses
  <2>3. \A i \in DOMAIN ran : i \in DOMAIN checked
    BY DEF SuiteInv, SuiteTypes, RanInv
  <2> QED
    BY <2>1, <2>2, <2>3 DEF SuiteInv, RanInv, ReadInv, Cleared, GateHolds
<1> QED
  BY <1>1, SuiteInvariant, PTL

\* The exit code is 0 exactly when there was something to do and all of it went well.
THEOREM ExitCorrect == Spec => []ExitTruthful
<1>1. SuiteInv => ExitTruthful
  BY DEF SuiteInv
<1> QED
  BY <1>1, SuiteInvariant, PTL

\* A value that was accepted has the type of its default.
LEMMA CoercedType ==
    ASSUME NEW text, NEW target, coerce_to(text, target) # Err
    PROVE  coerce_to(text, target).t = target.t
<1>1. ParseNumber(text) # Err => ParseNumber(text).t = "number"
  BY DEF ParseNumber, Num, Val
<1> QED
  BY <1>1 DEF coerce_to, Str, Bool, Atom, Val

\* A test that passed has used the command line as it was given: every key is a
\* variable, and every variable has a value of its default's type.
THEOREM ArgsCorrect == Spec => []ArgsKept
<1>1. SuiteInv => ArgsKept
  <2> SUFFICES ASSUME SuiteInv, NEW i \in DOMAIN ran, ran[i].passed,
                      NEW declared, declared = ran[i].content.vars
               PROVE  /\ DOMAIN cli \subseteq DOMAIN declared
                      /\ \A k \in DOMAIN declared :
                            Members(declared, cli)[k].t =
                               IF declared[k] = NoDefault THEN "string" ELSE declared[k].t
    BY DEF ArgsKept
  <2>1. ArgsConstructible(declared, cli)
    BY DEF SuiteInv, RanInv
  <2>2. ASSUME NEW k \in DOMAIN declared
        PROVE  Members(declared, cli)[k].t =
                  IF declared[k] = NoDefault THEN "string" ELSE declared[k].t
    <3>1. /\ Members(declared, cli)[k] = MemberValue(declared[k], k, cli)
          /\ MemberValue(declared[k], k, cli) # Err
      BY <2>1 DEF ArgsConstructible, Members
    <3> QED
      BY <3>1, CoercedType DEF MemberValue, Str, Val
  <2> QED
    BY <2>1, <2>2 DEF ArgsConstructible
<1> QED
  BY <1>1, SuiteInvariant, PTL
-----------------------------------------------------------------------------
(* Values, and what an assert makes of them.                               *)

LEMMA MinIn ==
    ASSUME NEW T \in SUBSET Nat, T # {}
    PROVE  Min(T) \in T
<1>1. \E x \in T : \A y \in T : x <= y
  BY Smallest
<1> QED
  BY <1>1, Zenon DEF Min

\* A well-formed value whose elements are literals: what a literal, a command-line
\* value and an element are.
Value(v) == WellFormed(v) /\ Range(v.items) \subseteq Literals

LEMMA LiteralValue == \A v \in Literals : Value(v)
BY LiteralsAssumption DEF Value

LEMMA ElementValue ==
    ASSUME NEW c, Value(c), NEW j \in DOMAIN c.items
    PROVE  Value(c.items[j])
<1>1. c.items[j] \in Range(c.items)
  BY DEF Range
<1> QED
  BY <1>1, LiteralValue DEF Value

\* What a value that can be indexed holds at an index is a value.
LEMMA IndexValue ==
    ASSUME NEW c, Value(c), NEW i, index_into(c, i) # Err
    PROVE  Value(index_into(c, i))
<1>1. CASE c.t \in {"array", "dict"} /\ i.t = "number"
  <2>1. index_into(c, i) = IF i.v[1] + 1 \in DOMAIN c.items THEN c.items[i.v[1] + 1] ELSE Err
    BY <1>1 DEF index_into
  <2> QED
    BY <2>1, ElementValue
<1>2. CASE c.t = "dict" /\ i.t = "string"
  <2>1. index_into(c, i) = IF Contains(c.keys, i.v)
                           THEN c.items[SelectInSeq(c.keys, LAMBDA k : k = i.v)] ELSE Err
    BY <1>2 DEF index_into
  <2>2. Contains(c.keys, i.v)
    BY <2>1
  <2>3. c.keys \in Seq(Range(c.keys)) /\ DOMAIN c.items = DOMAIN c.keys
    BY <1>2 DEF Value, WellFormed
  <2>4. SelectInSeq(c.keys, LAMBDA k : k = i.v) \in DOMAIN c.items
    <3> DEFINE I == {j \in 1..Len(c.keys) : c.keys[j] = i.v}
    <3>1. SelectInSeq(c.keys, LAMBDA k : k = i.v) = IF I # {} THEN Min(I) ELSE 0
      BY DEF SelectInSeq
    <3>2. I # {} /\ I \in SUBSET Nat /\ I \subseteq DOMAIN c.keys
      BY <2>2, <2>3 DEF Contains
    <3> HIDE DEF I
    <3>3. Min(I) \in I
      BY <3>2, MinIn
    <3> QED
      BY <2>3, <3>1, <3>2, <3>3
  <2> QED
    BY <2>1, <2>2, <2>4, ElementValue
<1>3. CASE ~(c.t \in {"array", "dict"} /\ i.t = "number") /\ ~(c.t = "dict" /\ i.t = "string")
  BY <1>3 DEF index_into
<1> QED
  BY <1>1, <1>2, <1>3

\* f holds the values of the first n indices of ix, from root on.
Walked(root, ix, n, f) ==
    f = [i \in 0..n |-> IF i = 0 THEN root
                        ELSE IF f[i - 1] = Err THEN Err ELSE index_into(f[i - 1], ix[i])]

LEMMA WalkedExists ==
    ASSUME NEW root, NEW ix, NEW n \in Nat
    PROVE  \E f : Walked(root, ix, n, f)
<1> DEFINE T == {k \in Nat : ~\E f : Walked(root, ix, k, f)}
<1> SUFFICES ASSUME T # {} PROVE FALSE
  OBVIOUS
<1>1. PICK k \in T : \A y \in T : k <= y
  <2>1. T \in SUBSET Nat
    OBVIOUS
  <2> HIDE DEF T
  <2> QED
    BY <2>1, Smallest
<1>2. k # 0
  <2>1. Walked(root, ix, 0, [i \in 0..0 |-> root])
    BY DEF Walked
  <2> QED
    BY <1>1, <2>1
<1>3. k - 1 \in Nat /\ k - 1 \notin T
  BY <1>1, <1>2
<1>4. PICK f : Walked(root, ix, k - 1, f)
  BY <1>3
<1> DEFINE last == IF f[k - 1] = Err THEN Err ELSE index_into(f[k - 1], ix[k])
           g == [i \in 0..k |-> IF i = k THEN last ELSE f[i]]
<1>5. ASSUME NEW i \in 0..k
      PROVE  g[i] = IF i = 0 THEN root
                    ELSE IF g[i - 1] = Err THEN Err ELSE index_into(g[i - 1], ix[i])
  <2>1. CASE i = k
    <3>1. g[i] = last /\ g[i - 1] = f[k - 1] /\ i # 0
      BY <1>2, <1>3, <2>1
    <3> QED
      BY <2>1, <3>1
  <2>2. CASE i # k
    <3>1. i \in 0..(k - 1) /\ g[i] = f[i] /\ (i # 0 => i - 1 \in 0..k /\ i - 1 # k /\ g[i - 1] = f[i - 1])
      BY <1>3, <2>2
    <3>2. f[i] = IF i = 0 THEN root
                 ELSE IF f[i - 1] = Err THEN Err ELSE index_into(f[i - 1], ix[i])
      BY <1>4, <3>1 DEF Walked
    <3> QED
      BY <3>1, <3>2
  <2> QED
    BY <2>1, <2>2
<1>6. Walked(root, ix, k, g)
  <2>1. g = [i \in 0..k |-> g[i]]
    OBVIOUS
  <2> HIDE DEF g
  <2> QED
    BY <1>5, <2>1 DEF Walked
<1> QED
  BY <1>1, <1>6

LEMMA WalkedValues ==
    ASSUME NEW root, root = Err \/ Value(root), NEW ix, NEW n \in Nat, NEW f,
           Walked(root, ix, n, f)
    PROVE  \A i \in 0..n : f[i] = Err \/ Value(f[i])
<1> DEFINE T == {k \in 0..n : ~(f[k] = Err \/ Value(f[k]))}
<1> SUFFICES ASSUME T # {} PROVE FALSE
  OBVIOUS
<1>1. PICK k \in T : \A y \in T : k <= y
  <2>1. T \in SUBSET Nat
    OBVIOUS
  <2> HIDE DEF T
  <2> QED
    BY <2>1, Smallest
<1>2. f[k] = IF k = 0 THEN root ELSE IF f[k - 1] = Err THEN Err ELSE index_into(f[k - 1], ix[k])
  BY <1>1 DEF Walked
<1>3. CASE k = 0
  BY <1>1, <1>2, <1>3
<1>4. CASE k # 0
  <2>1. k - 1 \in 0..n /\ k - 1 \notin T
    BY <1>1, <1>4
  <2>2. f[k - 1] = Err \/ Value(f[k - 1])
    BY <2>1
  <2> QED
    BY <1>1, <1>2, <1>4, <2>2, IndexValue
<1> QED
  BY <1>3, <1>4

\* What an operand evaluates to is a value, unless it is an error.
LEMMA EvalValue ==
    ASSUME NEW e \in Operands, NEW mem, \A k \in DOMAIN mem : Value(mem[k])
    PROVE  eval(e, mem) = Err \/ Value(eval(e, mem))
<1> DEFINE root == IF e.member \notin DOMAIN mem THEN Err ELSE mem[e.member]
           n == Len(e.index)
           f == CHOOSE f : f = [i \in 0..n |-> IF i = 0 THEN root
                        ELSE IF f[i - 1] = Err THEN Err ELSE index_into(f[i - 1], e.index[i])]
<1>1. eval(e, mem) = IF e.member = "" THEN e.lit ELSE f[n]
  BY Zenon DEF eval
<1>2. n \in Nat /\ e.lit \in Literals
  BY DEF Operands
<1>3. root = Err \/ Value(root)
  OBVIOUS
<1> HIDE DEF root, n
<1>4. Walked(root, e.index, n, f)
  <2>1. \E g : g = [i \in 0..n |-> IF i = 0 THEN root
                        ELSE IF g[i - 1] = Err THEN Err ELSE index_into(g[i - 1], e.index[i])]
    <3>1. \E g : Walked(root, e.index, n, g)
      BY <1>2, WalkedExists, Zenon
    <3>2. PICK g : Walked(root, e.index, n, g)
      BY <3>1
    <3>3. g = [i \in 0..n |-> IF i = 0 THEN root
                        ELSE IF g[i - 1] = Err THEN Err ELSE index_into(g[i - 1], e.index[i])]
      BY <3>2, Zenon DEF Walked
    <3> QED
      BY <3>3, Zenon
  <2> QED
    BY <2>1, Zenon DEF Walked
<1> HIDE DEF f
<1>5. f[n] = Err \/ Value(f[n])
  <2>1. n \in 0..n
    BY <1>2
  <2> QED
    BY <1>2, <1>3, <1>4, <2>1, WalkedValues
<1> QED
  BY <1>1, <1>2, <1>5, LiteralValue

\* Two values of an ordered type have a distance.
LEMMA OrderInt ==
    ASSUME NEW l, NEW r, WellFormed(l), WellFormed(r), Orderable(l, r)
    PROVE  compare_ord(l, r) \in Int
<1>1. CASE l.t = "number"
  BY <1>1 DEF compare_ord, WellFormed, Orderable
<1>2. CASE l.t = "string"
  <2> DEFINE x == l.v
             y == r.v
             Lens == {Len(x), Len(y)}
             Differ == {i \in 1..Min(Lens) : x[i] # y[i]}
  <2>1. x \in Seq(Nat) /\ y \in Seq(Nat)
    BY <1>2 DEF WellFormed, Orderable
  <2>2. compare_ord(l, r) = IF Differ = {} THEN Len(x) - Len(y)
                            ELSE x[Min(Differ)] - y[Min(Differ)]
    BY <1>2 DEF compare_ord, CompareText
  <2> HIDE DEF x, y
  <2>3. Len(x) \in Nat /\ Len(y) \in Nat
    BY <2>1
  <2>4. Min(Lens) \in Lens
    <3>1. Lens \in SUBSET Nat /\ Lens # {}
      BY <2>3
    <3> HIDE DEF Lens
    <3> QED
      BY <3>1, MinIn
  <2>5. Min(Lens) <= Len(x) /\ Min(Lens) <= Len(y)
    <3>1. Lens \in SUBSET Nat /\ Lens # {} /\ Len(x) \in Lens /\ Len(y) \in Lens
      BY <2>3
    <3> HIDE DEF Lens
    <3>2. \E z \in Lens : \A w \in Lens : z <= w
      BY <3>1, Smallest
    <3>3. \A w \in Lens : Min(Lens) <= w
      BY <3>2, Zenon DEF Min
    <3> QED
      BY <3>1, <3>3
  <2>6. CASE Differ # {}
    <3>1. Differ \in SUBSET Nat
      OBVIOUS
    <3>2. Min(Differ) \in Differ
      <4> HIDE DEF Differ
      <4> QED
        BY <2>6, <3>1, MinIn
    <3>3. Min(Differ) \in 1..Min(Lens)
      BY <3>2
    <3> HIDE DEF Differ, Lens
    <3>4. Min(Differ) \in 1..Len(x) /\ Min(Differ) \in 1..Len(y)
      <4>1. ASSUME NEW a \in Nat, NEW b \in Nat, NEW c \in Nat, NEW d, d \in 1..a, a <= b, a <= c
            PROVE  d \in 1..b /\ d \in 1..c
        BY <4>1
      <4>2. Min(Lens) \in Nat
        BY <2>3, <2>4 DEF Lens
      <4> QED
        BY <2>3, <2>5, <3>3, <4>1, <4>2
    <3>5. x[Min(Differ)] \in Nat /\ y[Min(Differ)] \in Nat
      BY <2>1, <3>4
    <3> QED
      BY <2>2, <2>6, <3>5
  <2>7. CASE Differ = {}
    BY <2>2, <2>3, <2>7
  <2> QED
    BY <2>6, <2>7
<1> QED
  BY <1>1, <1>2 DEF Orderable

LEMMA NegatedTruth == ASSUME NEW b \in BOOLEAN PROVE Negated(Truth(b)) = Truth(~b)
BY DEF Negated, Truth

\* Of a comparison and its negation exactly one is true, or both are errors.
LEMMA Complement ==
    ASSUME NEW l, NEW r, WellFormed(l), WellFormed(r), NEW op \in Ops \ {"bare"}
    PROVE  compare(l, r, Negation(op)) = Negated(compare(l, r, op))
<1>1. Equal(l, r) \in BOOLEAN
  BY DEF Equal
<1>2. CASE op \in {"==", "!="}
  <2>1. compare(l, r, "==") = Truth(Equal(l, r)) /\ compare(l, r, "!=") = Truth(~Equal(l, r))
    BY DEF compare
  <2> QED
    BY <1>1, <1>2, <2>1, NegatedTruth DEF Negation
<1>3. CASE op \in {"contains", "!contains"}
  <2>1. /\ compare(l, r, "contains") = contains(l, r)
        /\ compare(l, r, "!contains") = Negated(contains(l, r))
    BY DEF compare
  <2>2. contains(l, r) \in {"true", "false", "error"}
    BY DEF contains, Truth
  <2>3. Negated(Negated(contains(l, r))) = contains(l, r)
    BY <2>2 DEF Negated, Truth
  <2> QED
    BY <1>3, <2>1, <2>3 DEF Negation
<1>4. CASE op \in {"<", "<=", ">", ">="}
  <2>1. Negation(op) \in {"<", "<=", ">", ">="}
    BY <1>4 DEF Negation
  <2>2. \A o \in {"<", "<=", ">", ">="} : compare(l, r, o) = Ordered(l, r, o)
    BY DEF compare
  <2>3. CASE ~Orderable(l, r)
    <3>1. \A o \in {"<", "<=", ">", ">="} : Ordered(l, r, o) = "error"
      BY <2>3 DEF Ordered
    <3> QED
      BY <1>4, <2>1, <2>2, <3>1 DEF Negated
  <2>4. CASE Orderable(l, r)
    <3>1. PICK d \in Int : d = compare_ord(l, r)
      BY <2>4, OrderInt
    <3>2. /\ Ordered(l, r, "<") = Truth(d < 0) /\ Ordered(l, r, ">=") = Truth(d >= 0)
          /\ Ordered(l, r, "<=") = Truth(d <= 0) /\ Ordered(l, r, ">") = Truth(d > 0)
      BY <2>4, <3>1 DEF Ordered
    <3>3. /\ Truth(d >= 0) = Negated(Truth(d < 0)) /\ Truth(d < 0) = Negated(Truth(d >= 0))
          /\ Truth(d > 0) = Negated(Truth(d <= 0)) /\ Truth(d <= 0) = Negated(Truth(d > 0))
      BY DEF Negated, Truth
    <3> QED
      BY <1>4, <2>1, <2>2, <3>2, <3>3 DEF Negation
  <2> QED
    BY <2>3, <2>4
<1> QED
  BY <1>2, <1>3, <1>4 DEF Ops

\* The command line consists of texts.
CliInv == raw \in RawArgs \cup {<<>>} /\ \A k \in DOMAIN cli : cli[k] \in Seq(Nat)

LEMMA CliInvariant == Spec => []CliInv
<1>1. Init => CliInv
  BY DEF Init, CliInv
<1>2. CliInv /\ [Next]_vars => CliInv'
  <2> SUFFICES ASSUME CliInv, [Next]_vars PROVE CliInv'
    OBVIOUS
  <2>1. CASE parse_cli_args /\ GoodArgs
    <3>1. ASSUME NEW k \in {raw[i].key : i \in DOMAIN raw}
          PROVE  raw[SelectInSeq(raw, LAMBDA a : a.key = k)].text \in Seq(Nat)
      <4> DEFINE I == {i \in 1..Len(raw) : raw[i].key = k}
      <4>1. raw \in Seq(Range(raw)) /\ \A i \in DOMAIN raw : raw[i].text \in Seq(Nat)
        BY <3>1, LiteralsAssumption DEF CliInv
      <4>2. SelectInSeq(raw, LAMBDA a : a.key = k) = IF I # {} THEN Min(I) ELSE 0
        BY DEF SelectInSeq
      <4>3. I # {} /\ I \in SUBSET Nat /\ I \subseteq DOMAIN raw
        BY <3>1, <4>1
      <4> HIDE DEF I
      <4>4. Min(I) \in DOMAIN raw
        BY <4>3, MinIn
      <4> QED
        BY <4>1, <4>2, <4>3, <4>4
    <3>2. /\ raw' = raw
          /\ cli' = [k \in {raw[i].key : i \in DOMAIN raw} |->
                        raw[SelectInSeq(raw, LAMBDA a : a.key = k)].text]
      BY <2>1 DEF parse_cli_args, call
    <3> QED
      BY <3>1, <3>2, Zenon DEF CliInv
  <2>2. CASE ~(parse_cli_args /\ GoodArgs)
    <3>1. UNCHANGED <<raw, cli>>
      BY <2>2 DEF Next, Command, parse_cli_args, resolve_files, check_files, CheckEnds, CheckExits,
         Gate, RunFile, RunPanics, TestExits, Edit, Exited, Exit, call, vars
    <3> QED
      BY <3>1 DEF CliInv
  <2> QED
    BY <2>1, <2>2
<1> QED
  BY <1>1, <1>2, PTL DEF Spec

LEMMA FlatValues ==
    /\ \A s \in Seq(Nat) : Value(Str(s))
    /\ \A n \in Int : Value(Num(n))
    /\ \A b : Value(Bool(b)) /\ Value(Atom(b))
BY DEF Value, WellFormed, Str, Num, Bool, Atom, Val, Range

\* The members of an args_actor that could be constructed are values.
LEMMA MemberValues ==
    ASSUME CliInv, NEW declared, Range(declared) \subseteq Literals \cup {NoDefault},
           ArgsConstructible(declared, cli), NEW k \in DOMAIN declared
    PROVE  Value(Members(declared, cli)[k])
<1>1. /\ Members(declared, cli)[k] = MemberValue(declared[k], k, cli)
      /\ MemberValue(declared[k], k, cli) # Err
  BY DEF ArgsConstructible, Members
<1>2. declared[k] \in Literals \cup {NoDefault}
  BY DEF Range
<1>3. CASE k \in DOMAIN cli
  <2>1. cli[k] \in Seq(Nat)
    BY <1>3 DEF CliInv
  <2>2. ParseNumber(cli[k]) # Err => Value(ParseNumber(cli[k]))
    <3>1. ParseNumber(cli[k]) # Err =>
             Decimal(cli[k]) \in Int /\ ParseNumber(cli[k]) = Num(Decimal(cli[k]))
      BY ValuesAssumption DEF ParseNumber
    <3> QED
      BY <3>1, FlatValues
  <2>3. coerce_to(cli[k], declared[k]) # Err => Value(coerce_to(cli[k], declared[k]))
    BY <2>1, <2>2, FlatValues DEF coerce_to
  <2> QED
    BY <1>1, <1>3, <2>1, <2>3, FlatValues DEF MemberValue
<1>4. CASE k \notin DOMAIN cli
  BY <1>1, <1>2, <1>4, LiteralValue DEF MemberValue
<1> QED
  BY <1>3, <1>4

\* Of an assert and its negation exactly one passes on the same values, unless
\* neither can be evaluated.
THEOREM AssertsComplement == Spec => []AssertsExclude
<1>1. SuiteInv /\ CliInv => AssertsExclude
  <2> SUFFICES ASSUME SuiteInv, CliInv, NEW i \in DOMAIN ran,
                      NEW a, a = ran[i].content.assert,
                      NEW m, m = Members(ran[i].content.vars, cli),
                      ArgsConstructible(ran[i].content.vars, cli), a.op # "bare"
               PROVE  eval_assert([a EXCEPT !.op = Negation(a.op)], m)
                         = Negated(eval_assert(a, m))
    BY DEF AssertsExclude
  <2>1. ran[i].content \in Contents
    <3>1. ran[i] \in TestReports
      BY DEF SuiteInv, SuiteTypes
    <3> QED
      BY <3>1 DEF TestReports
  <2>2. a \in Asserts /\ Range(ran[i].content.vars) \subseteq Literals \cup {NoDefault}
    BY <2>1, LiteralsAssumption
  <2>3. \A k \in DOMAIN m : Value(m[k])
    <3>1. DOMAIN m = DOMAIN ran[i].content.vars
      BY DEF Members
    <3> QED
      BY <2>2, <3>1, MemberValues
  <2> DEFINE b == [a EXCEPT !.op = Negation(a.op)]
             l == eval(a.left, m)
             r == eval(a.right, m)
  <2>4. a.left \in Operands /\ a.right \in Operands /\ a.op \in Ops \ {"bare"}
    BY <2>2 DEF Asserts
  <2>5. b.left = a.left /\ b.right = a.right /\ b.op = Negation(a.op)
    BY <2>2 DEF Asserts
  <2>6. Negation(a.op) # "bare"
    BY <2>4 DEF Negation, Ops
  <2>7. (l = Err \/ Value(l)) /\ (r = Err \/ Value(r))
    BY <2>3, <2>4, EvalValue
  <2>8. /\ eval_assert(a, m) = IF l = Err \/ r = Err THEN "error" ELSE compare(l, r, a.op)
        /\ eval_assert(b, m) = IF l = Err \/ r = Err THEN "error" ELSE compare(l, r, Negation(a.op))
    <3> HIDE DEF b
    <3> QED
      BY <2>4, <2>5, <2>6 DEF eval_assert
  <2> HIDE DEF l, r, b
  <2>9. CASE l = Err \/ r = Err
    BY <2>8, <2>9 DEF Negated, b
  <2>10. CASE ~(l = Err \/ r = Err)
    <3>1. compare(l, r, Negation(a.op)) = Negated(compare(l, r, a.op))
      BY <2>4, <2>7, <2>10, Complement DEF Value
    <3> QED
      BY <2>8, <2>10, <3>1 DEF b
  <2> QED
    BY <2>9, <2>10
<1> QED
  BY <1>1, SuiteInvariant, CliInvariant, PTL
=============================================================================
