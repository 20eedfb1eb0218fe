----------------------------- MODULE MCCheckRun -----------------------------
(***************************************************************************)
(* Families of scripts for TLC: the names and declarations of a family and *)
(* the statements that may be appended to what is written so far.          *)
(***************************************************************************)
EXTENDS CheckRun, FiniteSetsExt

MCNames == {"a", "b"}

Bodies(p) == {i \in DOMAIN p : p[i].item = "as"}
Statements(p) == FoldSet(LAMBDA i, n : Len(p[i].body) + n, 0, Bodies(p))

\* Branch family: one actor of any type, up to four statements spread over two
\* blocks; the commands of its type and every kind of reference.
MaxStatements == 4
BranchDecls == {Actor("a", t, TRUE) : t \in Types \ {"http_client"}}
References == {Assert("ok"), Assert("error"), Let("x", "error")}
BranchCommands(t) ==
    CASE t = "exec"        -> {"run", "bogus"}
      [] t = "mqtt_client" -> {"connect", "publish_0", "receive_disconnect"}
      [] OTHER             -> CommandsOf(t)
BranchAlphabet(p, n) ==
    IF n # "a" \/ Statements(p) >= MaxStatements THEN {}
    ELSE References \cup {Cmd(c) : c \in BranchCommands(p[1].type)}

\* Layout family: two names, declarations and up to two statements in any order:
\* duplicates, unknown and unimplemented types, malformed arguments, blocks
\* before their declaration, statements the runtime does not support.
LayoutDecls(p) ==
    {Actor("b", "exec", TRUE), Actor("b", "exec", FALSE), Actor("b", "bogus", TRUE)}
        \cup (IF p = <<>> THEN {}
              ELSE {Actor("a", "container", TRUE), Actor("a", "http_client", TRUE)})
LayoutAlphabet(p, n) ==
    IF Statements(p) >= 2 THEN {}
    ELSE {Cmd("run"), [Cmd("run") EXCEPT !.wf = FALSE], Let("x", "a"), Assign("x"),
          Parse("x", "ok"), Assert("self")}

\* Both families at once: the first item decides.
Branching(p) == p # <<>> /\ p[1] \in BranchDecls
MCDecls(p) ==
    IF Branching(p) THEN {}
    ELSE LayoutDecls(p) \cup (IF p = <<>> THEN BranchDecls ELSE {})
MCAlphabet(p, n) == IF Branching(p) THEN BranchAlphabet(p, n) ELSE LayoutAlphabet(p, n)

\* Shadow family: scripts that give the name `error` a value of their own.
ShadowDecls(p) == IF p = <<>> THEN {Actor("a", "pg_client", TRUE)} ELSE {}
ShadowAlphabet(p, n) ==
    IF p = <<>> \/ n # "a" \/ Statements(p) >= MaxStatements THEN {}
    ELSE {Cmd("connect"), Cmd("query"), Assert("error"), Let("error", "lit")}
=============================================================================
