------------------------------- MODULE Script -------------------------------
(***************************************************************************)
(* The syntax tree of a .ill file (ast.rs), as far as the validator and    *)
(* the harness look at it.  Item: an actor declaration or an `as` block.   *)
(* Statement: a command, a `let`, a `let ... parse as`, an assignment or   *)
(* an assert.  An expression is abstracted to the identifier its access    *)
(* chain is rooted at ("lit" for a literal): that is all either side       *)
(* inspects before it evaluates.  `wf` is FALSE when an argument, keyword  *)
(* or squiggle of the item is malformed.                                   *)
(***************************************************************************)
EXTENDS Naturals, Sequences, ActorTypes

CONSTANTS
    Names,          \* actor names used in the files considered
    Decls(_),       \* declarations that may follow in the file written so far
    Alphabet(_, _), \* statements that may follow in a block of an actor
    MaxItems        \* bound: items in a file

ASSUME MaxItemsAssumption == MaxItems \in Nat

VARIABLES
    program,  \* SourceFile.items
    written   \* the file is complete

Actor(n, t, ok) == [item |-> "actor", name |-> n, type |-> t, wf |-> ok]
As(n, body) == [item |-> "as", name |-> n, body |-> body]

\* s: the statement; n: its command or let name; e: the root of its expression
Stmt(s, n, e, ok) == [s |-> s, n |-> n, e |-> e, wf |-> ok]
Cmd(c)      == Stmt("command", c, "lit", TRUE)
Let(x, e)   == Stmt("let", x, e, TRUE)
Parse(x, e) == Stmt("parse", x, e, TRUE)
Assign(e)   == Stmt("assign", "none", e, TRUE)
Assert(e)   == Stmt("assert", "none", e, TRUE)

IsCommand(st) == st.s = "command"

\* The nodes of the tree: Item is a declaration or a block of statements.
Declarations == [item : {"actor"}, name : Names, type : STRING, wf : BOOLEAN]
StatementNodes == [s : {"command", "let", "parse", "assign", "assert"},
                   n : STRING, e : STRING, wf : BOOLEAN]

\* expr_starts_with_ident for the expressions both sides test: the left side
\* of an assert and the value of a plain `let`.
Refers(st, root) == st.s \in {"let", "assert"} /\ st.e = root

-----------------------------------------------------------------------------
(* The file is written one item or statement at a time and then handed to  *)
(* the pipeline; a block has at least one statement.                       *)

SInit == program = <<>> /\ written = FALSE

WriteActor ==
    /\ ~written /\ Len(program) < MaxItems
    /\ \E d \in Decls(program) \cap Declarations : program' = Append(program, d)
    /\ UNCHANGED written

WriteBlock ==
    /\ ~written /\ Len(program) < MaxItems
    /\ \E n \in Names : \E st \in Alphabet(program, n) \cap StatementNodes :
          program' = Append(program, As(n, <<st>>))
    /\ UNCHANGED written

WriteStatement ==
    /\ ~written /\ program # <<>>
    /\ program[Len(program)].item = "as"
    /\ \E st \in Alphabet(program, program[Len(program)].name) \cap StatementNodes :
          program' = [program EXCEPT ![Len(program)].body = Append(@, st)]
    /\ UNCHANGED written

EndOfFile == ~written /\ written' = TRUE /\ UNCHANGED program

SNext == WriteActor \/ WriteBlock \/ WriteStatement \/ EndOfFile
=============================================================================
