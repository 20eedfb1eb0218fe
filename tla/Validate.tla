------------------------------ MODULE Validate ------------------------------
(***************************************************************************)
(* The validator (validate.rs): a symbolic walk over the syntax tree that  *)
(* tracks the mode of every actor.  Pass one registers the declarations,   *)
(* pass two walks the `as` blocks; a command's mode transition is pending  *)
(* until the asserts that follow have committed it to its ok or its error  *)
(* branch.                                                                 *)
(***************************************************************************)
EXTENDS Script

VARIABLES
    vpass,      \* "register", "check", "done"
    vi,         \* index of the current item
    vs,         \* index of the statement last checked in the block, 0: none
    symbols,    \* Validator.actors: name -> absent, errored or healthy entry
    vcmd,       \* index of the command whose window is open, 0: none
    vout,       \* CommandOutcome of that window
    pending,    \* pending_transition
    diags,      \* codes of the diagnostics
    committed   \* history: commands <<item, statement>> on their error branch

vvars == <<vpass, vi, vs, symbols, vcmd, vout, pending, diags, committed>>

Absent  == [st |-> "absent", type |-> "none", mode |-> NoMode]
Errored == [st |-> "errored", type |-> "none", mode |-> NoMode]
Healthy(t) == [st |-> "healthy", type |-> t, mode |-> InitialMode(t)]

VInit ==
    /\ vpass = "register" /\ vi = 1 /\ vs = 0
    /\ symbols = [n \in Names |-> Absent]
    /\ vcmd = 0 /\ vout = "ImpliedOk" /\ pending = NoMode
    /\ diags = {} /\ committed = {}

VItem == program[vi]
VStmt == VItem.body[vs + 1]

Report(ok, code) == IF ok THEN {} ELSE {code}

-----------------------------------------------------------------------------
(* First pass: register_actor.                                             *)

\* A healthy earlier declaration makes this one a duplicate; an errored one is
\* shadowed.  An unknown type poisons the name.
NewSymbol(old, decl) ==
    CASE old.st = "healthy"     -> old
      [] decl.type \notin Types -> Errored
      [] OTHER                  -> Healthy(decl.type)

DeclDiags(old, decl) ==
    CASE old.st = "healthy"     -> {"DuplicateActor"}
      [] decl.type \notin Types -> {"UnknownActorType"}
      [] OTHER                  -> Report(decl.wf, "BadArguments")

RegisterActor ==
    /\ vpass = "register" /\ vi <= Len(program) /\ VItem.item = "actor"
    /\ symbols' = [symbols EXCEPT ![VItem.name] = NewSymbol(@, VItem)]
    /\ diags' = diags \cup DeclDiags(symbols[VItem.name], VItem)
    /\ vi' = vi + 1
    /\ UNCHANGED <<program, written, vpass, vs, vcmd, vout, pending, committed>>

SkipAsBlock ==
    /\ vpass = "register" /\ vi <= Len(program) /\ VItem.item = "as"
    /\ vi' = vi + 1
    /\ UNCHANGED <<program, written, vpass, vs, symbols, vcmd, vout, pending, diags, committed>>

EndOfRegister ==
    /\ vpass = "register" /\ vi > Len(program)
    /\ vpass' = "check" /\ vi' = 1
    /\ UNCHANGED <<program, written, vs, symbols, vcmd, vout, pending, diags, committed>>

-----------------------------------------------------------------------------
(* Second pass: check_as_block.                                            *)

InBlock == vpass = "check" /\ vi <= Len(program) /\ VItem.item = "as"
Me == symbols[VItem.name]

SkipDeclaration ==
    /\ vpass = "check" /\ vi <= Len(program) /\ VItem.item = "actor"
    /\ vi' = vi + 1
    /\ UNCHANGED <<program, written, vpass, vs, symbols, vcmd, vout, pending, diags, committed>>

\* An unknown actor is reported; a poisoned one was reported already.
SkipUnusable ==
    /\ InBlock /\ Me.st # "healthy"
    /\ diags' = diags \cup Report(Me.st = "errored", "UnknownActor")
    /\ vi' = vi + 1
    /\ UNCHANGED <<program, written, vpass, vs, symbols, vcmd, vout, pending, committed>>

\* The transition of the last command is applied if its outcome was ok.
OutcomeOk == vout \in {"ImpliedOk", "ExplicitOk"}
\* Mutant: the transition is applied whatever the outcome was.
CommittedAlways(sym) ==
    IF pending # NoMode THEN [sym EXCEPT ![VItem.name].mode = pending] ELSE sym

Committed(sym) ==
    IF OutcomeOk /\ pending # NoMode
    THEN [sym EXCEPT ![VItem.name].mode = pending] ELSE sym

\* The window of the last command closes: which branch it was committed to.
CloseWindow ==
    committed' = IF vcmd # 0 /\ ~OutcomeOk THEN committed \cup {<<vi, vcmd>>}
                 ELSE committed

\* check_command: unknown command, command not valid in the mode, arguments.
\* Only a command that passes the first two has a pending transition.
CommandDiags(t, m, st) ==
    CASE st.n \notin CommandsOf(t)         -> {"UnknownCommand"}
      [] m \notin ValidInModes(t, st.n)    -> {"CommandNotValidInMode"}
      [] OTHER                             -> Report(st.wf, "BadArguments")

Resolved(t, m, st) ==
    /\ st.n \in CommandsOf(t)
    /\ m \in ValidInModes(t, st.n)

CheckCommand ==
    /\ InBlock /\ Me.st = "healthy" /\ vs < Len(VItem.body) /\ IsCommand(VStmt)
    /\ CloseWindow
    /\ symbols' = Committed(symbols)
    /\ LET m == symbols'[VItem.name].mode
       IN /\ diags' = diags \cup CommandDiags(Me.type, m, VStmt)
          /\ pending' = IF Resolved(Me.type, m, VStmt)
                        THEN TransitionsTo(Me.type, VStmt.n) ELSE NoMode
    /\ vcmd' = vs + 1 /\ vout' = "ImpliedOk"
    /\ vs' = vs + 1
    /\ UNCHANGED <<program, written, vpass, vi>>

\* advance_outcome for a reference to ok.* or error.*.
Advanced(out, isOk) ==
    IF out = "ImpliedOk" THEN (IF isOk THEN "ExplicitOk" ELSE "ExplicitError")
    ELSE out

Conflicts(out, isOk) ==
    out = (IF isOk THEN "ExplicitError" ELSE "ExplicitOk")

CheckStatement ==
    /\ InBlock /\ Me.st = "healthy" /\ vs < Len(VItem.body) /\ ~IsCommand(VStmt)
    /\ LET refOk == Refers(VStmt, "ok")
           refs  == refOk \/ Refers(VStmt, "error")
       IN /\ vout' = IF refs THEN Advanced(vout, refOk) ELSE vout
          /\ diags' = diags
                \cup Report(~(refs /\ Conflicts(vout, refOk)), "ConflictingOutcomeAsserts")
                \cup Report(VStmt.wf, "UnknownSquiggle")
    /\ vs' = vs + 1
    /\ UNCHANGED <<program, written, vpass, vi, symbols, vcmd, pending, committed>>

\* End of the block: the transition of its final command.
EndAsBlock ==
    /\ InBlock /\ Me.st = "healthy" /\ vs = Len(VItem.body)
    /\ CloseWindow
    /\ symbols' = Committed(symbols)
    /\ vi' = vi + 1 /\ vs' = 0 /\ vcmd' = 0
    /\ vout' = "ImpliedOk" /\ pending' = NoMode
    /\ UNCHANGED <<program, written, vpass, diags>>

EndOfCheck ==
    /\ vpass = "check" /\ vi > Len(program)
    /\ vpass' = "done"
    /\ UNCHANGED <<program, written, vi, vs, symbols, vcmd, vout, pending, diags, committed>>

VNext ==
    \/ RegisterActor \/ SkipAsBlock \/ EndOfRegister
    \/ SkipDeclaration \/ SkipUnusable \/ CheckCommand \/ CheckStatement
    \/ EndAsBlock \/ EndOfCheck

Accepted == vpass = "done" /\ diags = {}
=============================================================================
