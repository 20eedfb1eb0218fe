------------------------------- MODULE Harness ------------------------------
(***************************************************************************)
(* The test harness (runtime/harness.rs): one walk over the items of the   *)
(* file in source order, constructing actors and running `as` blocks; the  *)
(* first failure ends the walk; then every live instance is torn down, the *)
(* last constructed first.                                                 *)
(*                                                                         *)
(* A command's result comes from the runtime table of ActorTypes.  The     *)
(* scope is the set of names it binds: whether a bound value satisfies an  *)
(* assert, or has the member asked for, is left open.                      *)
(***************************************************************************)
EXTENDS Script

VARIABLES
    phase,        \* "idle", "run", "teardown", "done"; "panicked"
    hi,           \* index of the current item
    hs,           \* index of the current statement, 0: block not entered
    live,         \* InstantiatedActors.entries, in construction order
    scope,        \* names bound in the block's Scope
    report,       \* kind of the StatementReport that ended the walk
    reports,      \* TestReport.teardown
    constructed,  \* history: names in construction order
    erred,        \* history: commands <<item, statement>> that returned Error
    drifted,      \* history: actors whose mode changed on an Error
    dropped       \* history: names of the instances that only Drop cleans up

hvars == <<phase, hi, hs, live, scope, report, reports, constructed, erred, drifted, dropped>>

HInit ==
    /\ phase = "idle" /\ hi = 1 /\ hs = 0
    /\ live = <<>> /\ scope = {} /\ report = "none" /\ reports = <<>>
    /\ constructed = <<>> /\ erred = {} /\ drifted = {} /\ dropped = <<>>

HItem == program[hi]
HStmt == HItem.body[hs]

Walking(kind) == phase = "run" /\ hi <= Len(program) /\ HItem.item = kind

\* A failure is recorded, the walk stops, the teardown follows.
Fail(kind) == report' = kind /\ phase' = "teardown"

-----------------------------------------------------------------------------
(* execute: the walk over the items.                                       *)

ConstructActor ==
    /\ Walking("actor") /\ Constructible(HItem.type)
    /\ live' = Append(live, [name |-> HItem.name, type |-> HItem.type,
                             mode |-> InitialMode(HItem.type)])
    /\ constructed' = Append(constructed, HItem.name)
    /\ hi' = hi + 1
    /\ UNCHANGED <<program, written, phase, hs, scope, report, reports, erred, drifted, dropped>>

ConstructFails ==
    /\ Walking("actor")
    /\ Fail("ConstructFailure")
    /\ UNCHANGED <<program, written, hi, hs, live, scope, reports, constructed, erred, drifted,
                   dropped>>

EndOfWalk ==
    /\ phase = "run" /\ hi > Len(program)
    /\ phase' = "teardown"
    /\ UNCHANGED <<program, written, hi, hs, live, scope, report, reports, constructed, erred,
                   drifted, dropped>>

-----------------------------------------------------------------------------
(* run_as_block.                                                           *)

\* InstantiatedActors::get: the first entry with the name.
Indices(n) == {j \in DOMAIN live : live[j].name = n}
First(n) == CHOOSE j \in Indices(n) : \A k \in Indices(n) : j <= k
Current == live[First(HItem.name)]

NoLiveInstance ==
    /\ Walking("as") /\ hs = 0 /\ Indices(HItem.name) = {}
    /\ Fail("NoLiveInstance")
    /\ UNCHANGED <<program, written, hi, hs, live, scope, reports, constructed, erred, drifted,
                   dropped>>

EnterBlock ==
    /\ Walking("as") /\ hs = 0 /\ Indices(HItem.name) # {}
    /\ hs' = 1 /\ scope' = {}
    /\ UNCHANGED <<program, written, phase, hi, live, report, reports, constructed, erred,
                   drifted, dropped>>

LeaveBlock ==
    /\ Walking("as") /\ hs > Len(HItem.body)
    /\ hi' = hi + 1 /\ hs' = 0 /\ scope' = {}
    /\ UNCHANGED <<program, written, phase, live, report, reports, constructed, erred, drifted,
                   dropped>>

AtStatement == Walking("as") /\ hs \in 1..Len(HItem.body)

\* bind_self, before every statement: the actors with member variables are
\* bound under their names and the others unbound; `self` is the current one.
Shown  == {live[j].name : j \in {k \in DOMAIN live : HasSelfView(live[k].type)}}
Hidden == {live[j].name : j \in {k \in DOMAIN live : ~HasSelfView(live[k].type)}}
BindSelf(sc) ==
    (((sc \ Hidden) \cup Shown) \ {"self"})
        \cup (IF HasSelfView(Current.type) THEN {"self"} ELSE {})

\* An expression can evaluate only if the name it starts from is bound.
Evaluable(e, sc) == e = "lit" \/ e \in sc

\* Mutant: ok and error of the previous command stay bound.
CommandScopeKept == BindSelf(scope)

\* A command starts with ok and error unbound.
CommandScope == BindSelf(scope) \ {"ok", "error"}

\* block_has_error_ref_after: an error.* reference before the next command.
ErrorRefAfter(body, idx) ==
    \E k \in (idx + 1)..Len(body) :
        /\ Refers(body[k], "error")
        /\ \A j \in (idx + 1)..k : ~IsCommand(body[j])

\* The command reaches the instance.
Issued ==
    /\ AtStatement /\ IsCommand(HStmt)
    /\ HStmt.n \in CommandsOf(Current.type)
    /\ Evaluable(HStmt.e, CommandScope)

\* The instance answers r = <<outcome, mode>>.
Execute(r) ==
    /\ Issued
    /\ r \in Results(Current.type, Current.mode, HStmt.n)
    /\ live' = [live EXCEPT ![First(HItem.name)].mode = r[2]]

CommandOk ==
    /\ \E m \in Modes : Execute(<<"ok", m>>)
    /\ scope' = CommandScope \cup {"ok"}
    /\ hs' = hs + 1
    /\ UNCHANGED <<program, written, phase, hi, report, reports, constructed, erred, drifted,
                   dropped>>

\* An error is a failure unless the statements that follow refer to it.
CommandError ==
    /\ \E m \in Modes :
          /\ Execute(<<"error", m>>)
          /\ drifted' = IF m # Current.mode THEN drifted \cup {HItem.name} ELSE drifted
    /\ erred' = erred \cup {<<hi, hs>>}
    /\ scope' = CommandScope \cup {"error"}
    /\ IF ErrorRefAfter(HItem.body, hs)
       THEN hs' = hs + 1 /\ UNCHANGED <<phase, report>>
       ELSE Fail("CommandFailure") /\ UNCHANGED hs
    /\ UNCHANGED <<program, written, hi, reports, constructed, dropped>>

CommandNotImplemented ==
    /\ \E m \in Modes : Execute(<<"not_implemented", m>>)
    /\ Fail("CommandNotImplemented")
    /\ UNCHANGED <<program, written, hi, hs, scope, reports, constructed, erred, drifted, dropped>>

RunLet ==
    /\ AtStatement /\ HStmt.s = "let"
    /\ Evaluable(HStmt.e, BindSelf(scope))
    /\ scope' = BindSelf(scope) \cup {HStmt.n}
    /\ hs' = hs + 1
    /\ UNCHANGED <<program, written, phase, hi, live, report, reports, constructed, erred,
                   drifted, dropped>>

AssertPasses ==
    /\ AtStatement /\ HStmt.s = "assert"
    /\ Evaluable(HStmt.e, BindSelf(scope))
    /\ scope' = BindSelf(scope)
    /\ hs' = hs + 1
    /\ UNCHANGED <<program, written, phase, hi, live, report, reports, constructed, erred,
                   drifted, dropped>>

AssertFails ==
    /\ AtStatement /\ HStmt.s = "assert"
    /\ Evaluable(HStmt.e, BindSelf(scope))
    /\ Fail("AssertFailure")
    /\ UNCHANGED <<program, written, hi, hs, live, scope, reports, constructed, erred, drifted,
                   dropped>>

\* Evaluation can fail at any statement; an assignment and a `parse` always do.
StatementError ==
    /\ AtStatement
    /\ Fail("EvalError")
    /\ UNCHANGED <<program, written, hi, hs, live, scope, reports, constructed, erred, drifted,
                   dropped>>

-----------------------------------------------------------------------------
(* A panic of `construct` or of a command is not on a task of its own: it   *)
(* unwinds `execute`, there is no report and no teardown, and the instances *)
(* are dropped with the entries, the first constructed first.               *)

Unwind ==
    /\ phase' = "panicked"
    /\ dropped' = [j \in DOMAIN live |-> live[j].name] /\ live' = <<>>
    /\ UNCHANGED <<program, written, hi, hs, scope, report, reports, constructed, erred, drifted>>

ConstructPanics == Walking("actor") /\ Unwind
CommandPanics == Issued /\ Unwind

-----------------------------------------------------------------------------
(* teardown_all: pop from the end; each teardown runs on a task of its own, *)
(* so a failure or a panic is the report of that actor only.                *)

\* Mutant: the actors are torn down in construction order.
TeardownFirst ==
    /\ phase = "teardown" /\ live # <<>>
    /\ live' = Tail(live)
    /\ \E ok \in BOOLEAN :
          reports' = Append(reports, [actor |-> Head(live).name, ok |-> ok])
    /\ UNCHANGED <<program, written, phase, hi, hs, scope, report, constructed, erred, drifted,
                   dropped>>

TeardownNext ==
    /\ phase = "teardown" /\ live # <<>>
    /\ live' = SubSeq(live, 1, Len(live) - 1)
    /\ \E ok \in BOOLEAN :
          reports' = Append(reports, [actor |-> live[Len(live)].name, ok |-> ok])
    /\ UNCHANGED <<program, written, phase, hi, hs, scope, report, constructed, erred, drifted,
                   dropped>>

\* The reports are handed out in construction order.
EndOfTeardown ==
    /\ phase = "teardown" /\ live = <<>>
    /\ phase' = "done"
    /\ reports' = [j \in DOMAIN reports |-> reports[Len(reports) + 1 - j]]
    /\ UNCHANGED <<program, written, hi, hs, live, scope, report, constructed, erred, drifted,
                   dropped>>

HNext ==
    \/ ConstructActor \/ ConstructFails \/ EndOfWalk
    \/ NoLiveInstance \/ EnterBlock \/ LeaveBlock
    \/ CommandOk \/ CommandError \/ CommandNotImplemented
    \/ RunLet \/ AssertPasses \/ AssertFails \/ StatementError
    \/ ConstructPanics \/ CommandPanics
    \/ TeardownNext \/ EndOfTeardown

\* TestReport.passed.
Passed == report = "none"
=============================================================================
