-------------------------------- MODULE Suite -------------------------------
(***************************************************************************)
(* The command line (crates/ill/src/main.rs): `ill test` and `ill check`   *)
(* over files and directories, the gate between checking and running, the  *)
(* arguments handed to args_actor, and the exit code.                      *)
(*                                                                         *)
(* Files live on a disk that somebody else may write to while the command  *)
(* runs.  A file is what the checks tell apart (its status) and, for the   *)
(* run, the variables of its args_actor and one assert on them; module     *)
(* Values says what those mean.  Other actors may make a test fail.        *)
(***************************************************************************)
EXTENDS Values

CONSTANTS Files,      \* names of the .ill files of the directory, in order
          Disks,      \* what the files may contain at the start
          Saved,      \* contents a file may be changed to
          Selections, \* lists of paths on the command line
          RawArgs,    \* lists of --arg values
          Literals,   \* values a script can contain, with their elements
          MaxEdits    \* bound: files changed while the command runs

FileNames == Range(Files)
Contents == Saved \cup UNION {Range(d) : d \in Disks}
Statuses == {"unreadable", "unparsable", "invalid", "warned", "clean"}

Operands == [member : STRING, lit : Literals, index : Seq(Literals)]
Asserts == [left : Operands, op : Ops, right : Operands]

\* A number has a value, a text consists of characters, a dict has a key for every
\* element, and elements are values.
WellFormed(v) ==
    /\ v.t = "number" => v.v[1] \in Int
    /\ v.t = "string" => v.v \in Seq(Nat)
    /\ v.t = "dict" => v.keys \in Seq(Range(v.keys)) /\ DOMAIN v.items = DOMAIN v.keys

ASSUME LiteralsAssumption ==
    /\ \A v \in Literals : WellFormed(v) /\ Range(v.items) \subseteq Literals
    /\ \A c \in Contents : c.assert \in Asserts /\ Range(c.vars) \subseteq Literals \cup {NoDefault}
    /\ \A r \in RawArgs : r \in Seq(Range(r)) /\ \A i \in DOMAIN r : r[i].text \in Seq(Nat)

ASSUME SuiteAssumption ==
    /\ MaxEdits \in Nat /\ Files # <<>> /\ Files \in Seq(FileNames)
    /\ \A d \in Disks : d \in [FileNames -> Contents]
    /\ \A c \in Contents : c.status \in Statuses
    /\ \A s \in Selections : s \in Seq(FileNames \cup {"dir", "dark", "other"})

VARIABLES
    cmd,      \* "test" or "check"
    raw,      \* the --arg values: key, text, and whether there is a '='
    paths,    \* files, "dir", "dark" (a directory that cannot be read) and "other"
    disk,     \* file -> its content now
    edits,    \* changes made so far
    phase,    \* "args", "resolve", "check", "gate", "run", "exit"
    cli,      \* CLI_ARGS
    files,    \* the files resolved
    checked,  \* CheckedSuite.files: path and the content that was read
    unread,   \* CheckedSuite.read_errors
    ran,      \* the tests run: path, content, members and whether it passed
    exit      \* exit code, -1 while running

vars == <<cmd, raw, paths, disk, edits, phase, cli, files, checked, unread, ran, exit>>
call == <<cmd, raw, paths>>
world == <<disk, edits>>

Init ==
    /\ cmd \in {"test", "check"} /\ paths \in Selections
    /\ raw \in IF cmd = "test" THEN RawArgs ELSE {<<>>}
    /\ disk \in Disks /\ edits = 0
    /\ phase = "args" /\ cli = <<>> /\ files = <<>> /\ checked = <<>> /\ unread = <<>>
    /\ ran = <<>> /\ exit = -1

Exit(code) == phase' = "exit" /\ exit' = code

-----------------------------------------------------------------------------
(* main.                                                                   *)

\* Every entry has a '=' and a key, and no key comes twice.
GoodArgs ==
    /\ \A i \in DOMAIN raw : raw[i].eq /\ raw[i].key # ""
    /\ \A i, j \in DOMAIN raw : raw[i].key = raw[j].key => i = j

parse_cli_args ==
    /\ phase = "args"
    /\ IF GoodArgs
       THEN /\ cli' = [k \in {raw[i].key : i \in DOMAIN raw} |->
                          raw[SelectInSeq(raw, LAMBDA a : a.key = k)].text]
            /\ phase' = "resolve" /\ UNCHANGED exit
       ELSE Exit(1) /\ UNCHANGED cli
    /\ UNCHANGED <<call, world, files, checked, unread, ran>>

\* A directory gives its files, sorted; one that cannot be read gives none, and a
\* path that is no .ill file is skipped.
Expanded(p) ==
    CASE p = "dir" -> Files
      [] p \in {"dark", "other"} -> <<>>
      [] OTHER -> <<p>>

\* Without paths the current directory is searched.
resolve_files ==
    /\ phase = "resolve"
    /\ LET found == IF paths = <<>> THEN Files ELSE FlattenSeq([i \in DOMAIN paths |-> Expanded(paths[i])])
       IN  IF found = <<>> THEN Exit(1) /\ UNCHANGED files
           ELSE files' = found /\ phase' = "check" /\ UNCHANGED exit
    /\ UNCHANGED <<call, world, cli, checked, unread, ran>>

Next1 == Len(checked) + Len(unread) + 1

\* read_to_string, lower and validate of one file.
check_files ==
    /\ phase = "check" /\ Next1 <= Len(files)
    /\ LET p == files[Next1] IN
       IF disk[p].status = "unreadable"
       THEN unread' = Append(unread, p) /\ UNCHANGED checked
       ELSE checked' = Append(checked, [path |-> p, content |-> disk[p]]) /\ UNCHANGED unread
    /\ UNCHANGED <<call, world, phase, cli, files, ran, exit>>

CheckEnds ==
    /\ phase = "check" /\ Next1 > Len(files)
    /\ phase' = "gate"
    /\ UNCHANGED <<call, world, cli, files, checked, unread, ran, exit>>

\* The severity of the diagnostics: parse errors are errors, the validator also has
\* warnings.
HasErrors(f) == f.content.status \in {"unparsable", "invalid"}
SomeFailing == \E i \in DOMAIN checked : HasErrors(checked[i])

\* run_check counts, and fails on errors only.
CheckExits ==
    /\ phase = "gate" /\ cmd = "check"
    /\ Exit(IF unread # <<>> \/ SomeFailing THEN 1 ELSE 0)
    /\ UNCHANGED <<call, world, cli, files, checked, unread, ran>>

\* Mutant: files that cannot be read are reported and left out.
GateSkipsUnread ==
    /\ phase = "gate" /\ cmd = "test"
    /\ IF SomeFailing THEN Exit(1) ELSE phase' = "run" /\ UNCHANGED exit
    /\ UNCHANGED <<call, world, cli, files, checked, unread, ran>>

\* run_test: nothing runs unless every file is free of errors.
Gate ==
    /\ phase = "gate" /\ cmd = "test"
    /\ IF unread # <<>> \/ SomeFailing THEN Exit(1) ELSE phase' = "run" /\ UNCHANGED exit
    /\ UNCHANGED <<call, world, cli, files, checked, unread, ran>>

\* The construction of args_actor, its assert, and everything else the file does.
TestPasses(c, others) ==
    /\ ArgsConstructible(c.vars, cli)
    /\ eval_assert(c.assert, Members(c.vars, cli)) = "true"
    /\ others

Report(f, c, others) ==
    [path |-> f.path, content |-> c, passed |-> TestPasses(c, others)]

\* Mutant: the file is read once more.
RunFileFromDisk ==
    /\ phase = "run" /\ Len(ran) < Len(checked)
    /\ \E others \in BOOLEAN :
           LET f == checked[Len(ran) + 1] IN ran' = Append(ran, Report(f, disk[f.path], others))
    /\ UNCHANGED <<call, world, phase, cli, files, checked, unread, exit>>

\* run_validated_test_file on the tree the check produced.
RunFile ==
    /\ phase = "run" /\ Len(ran) < Len(checked)
    /\ \E others \in BOOLEAN :
           LET f == checked[Len(ran) + 1] IN ran' = Append(ran, Report(f, f.content, others))
    /\ UNCHANGED <<call, world, phase, cli, files, checked, unread, exit>>

\* A panic of a construct or command leaves main, and the remaining files do not run.
RunPanics ==
    /\ phase = "run" /\ Len(ran) < Len(checked)
    /\ Exit(101)
    /\ UNCHANGED <<call, world, cli, files, checked, unread, ran>>

TestExits ==
    /\ phase = "run" /\ Len(ran) = Len(checked)
    /\ Exit(IF \E i \in DOMAIN ran : ~ran[i].passed THEN 1 ELSE 0)
    /\ UNCHANGED <<call, world, cli, files, checked, unread, ran>>

\* Somebody saves a file, or a test of the suite writes one.
Edit ==
    /\ phase \in {"check", "gate", "run"} /\ edits < MaxEdits
    /\ \E p \in DOMAIN disk, c \in Saved : c # disk[p] /\ disk' = [disk EXCEPT ![p] = c]
    /\ edits' = edits + 1
    /\ UNCHANGED <<call, phase, cli, files, checked, unread, ran, exit>>

Exited == phase = "exit" /\ UNCHANGED vars

Command == parse_cli_args \/ resolve_files \/ check_files \/ CheckEnds \/ CheckExits \/ Gate
           \/ RunFile \/ RunPanics \/ TestExits
Next == Command \/ Edit \/ Exited

Spec == Init /\ [][Next]_vars
-----------------------------------------------------------------------------
\* Nothing runs, and so nothing outside is touched, unless every selected file was
\* read and is free of errors; and what runs is the text that was checked, also when
\* the file has been changed since.
GateHolds ==
    ran # <<>> =>
        /\ cmd = "test" /\ Len(checked) = Len(files)
        /\ \A i \in DOMAIN checked : checked[i].content.status \in {"clean", "warned"}
        /\ \A i \in DOMAIN ran : /\ ran[i].content = checked[i].content
                                 /\ ran[i].path = files[i]

\* The exit code is 0 exactly when there was something to do and all of it went well:
\* every selected file checked without errors and, for test, passed.
ExitTruthful ==
    phase = "exit" =>
        (exit = 0 <=>
            /\ files # <<>> /\ Len(checked) = Len(files)
            /\ \A i \in DOMAIN checked : checked[i].content.status \in {"clean", "warned"}
            /\ cmd = "test" => /\ Len(ran) = Len(files)
                               /\ \A i \in DOMAIN ran : ran[i].passed)

\* A test that passed has used the command line as it was given: every key is a
\* variable of its args_actor, and every variable with a default has a value of the
\* default's type.
ArgsKept ==
    \A i \in DOMAIN ran : ran[i].passed =>
        LET declared == ran[i].content.vars IN
        /\ DOMAIN cli \subseteq DOMAIN declared
        /\ \A k \in DOMAIN declared :
               LET v == Members(declared, cli)[k] IN
               v.t = IF declared[k] = NoDefault THEN "string" ELSE declared[k].t

Negation(op) ==
    CASE op = "==" -> "!=" [] op = "!=" -> "==" [] op = "<" -> ">=" [] op = ">=" -> "<"
      [] op = ">" -> "<=" [] op = "<=" -> ">" [] op = "contains" -> "!contains"
      [] op = "!contains" -> "contains" [] OTHER -> "bare"

\* Of an assert and its negation exactly one passes on the same values, unless
\* neither can be evaluated: a mistyped assert fails and never passes by negation.
AssertsExclude ==
    \A i \in DOMAIN ran :
        LET a == ran[i].content.assert
            m == Members(ran[i].content.vars, cli)
            r == eval_assert(a, m)
        IN  ArgsConstructible(ran[i].content.vars, cli) /\ a.op # "bare" =>
                eval_assert([a EXCEPT !.op = Negation(a.op)], m) = Negated(r)
=============================================================================
