------------------------------ MODULE CheckRun ------------------------------
(***************************************************************************)
(* The pipeline of a test file (harness.rs run_test_file): validate, and   *)
(* execute only when there is no error.  The properties here relate what   *)
(* the validator concluded about a script to what happens when it runs.    *)
(***************************************************************************)
EXTENDS Validate, Harness

vars == <<program, written, vvars, hvars>>

Init ==
    /\ SInit /\ VInit /\ HInit

Write == SNext /\ UNCHANGED <<vvars, hvars>>

Check == written /\ phase = "idle" /\ VNext /\ UNCHANGED hvars

\* run_validated_test_file
Start ==
    /\ phase = "idle" /\ Accepted
    /\ phase' = "run"
    /\ UNCHANGED <<program, written, vvars, hi, hs, live, scope, report, reports, constructed,
                   erred, drifted, dropped>>

Refuse ==
    /\ phase = "idle" /\ vpass = "done" /\ diags # {}
    /\ phase' = "done" /\ report' = "ValidationFailure"
    /\ UNCHANGED <<program, written, vvars, hi, hs, live, scope, reports, constructed, erred,
                   drifted, dropped>>

Run == HNext /\ UNCHANGED vvars

Finished == phase \in {"done", "panicked"} /\ UNCHANGED vars

Next == Write \/ Check \/ Start \/ Refuse \/ Run \/ Finished

Spec == Init /\ [][Next]_vars

-----------------------------------------------------------------------------
\* A checked script only issues a command in a mode the command is valid in,
\* unless the actor's mode changed on an error (`drifted`): what the validator
\* tracked through asserts is where the instance really is.
ModesAgree ==
    AtStatement /\ IsCommand(HStmt) /\ HItem.name \notin drifted =>
        Current.mode \in ValidInModes(Current.type, HStmt.n)

\* When a run gets past all its statements, exactly the commands the validator
\* committed to their error branch returned an error: no error is swallowed and
\* no assert on `error` passes after a success.
BranchesAgree ==
    phase = "done" /\ Passed => erred = committed

\* An actor whose mode moved on an error is not where the validator thinks it is.
\* It can answer no further command with ok: whatever the validator still lets
\* through is refused at run time, so no test passes on the wrong mode.
DriftNeverSucceeds ==
    AtStatement /\ IsCommand(HStmt) /\ HItem.name \in drifted =>
        \A r \in Results(Current.type, Current.mode, HStmt.n) : r[1] # "ok"

\* Every constructed actor ends once and in one way.  When the walk comes to an
\* end, by a failure or not, each is torn down, in the reverse order, also after
\* the failure or panic of another teardown; the final report lists them in
\* construction order.  When a construction or a command panics, none is torn
\* down and all are dropped; that cannot happen any more once a teardown began.
TornDownOrDropped ==
    /\ phase \in {"run", "panicked"} => reports = <<>>
    /\ phase = "teardown" =>
          /\ Len(live) + Len(reports) = Len(constructed)
          /\ \A j \in DOMAIN live : live[j].name = constructed[j]
          /\ \A j \in DOMAIN reports :
                reports[j].actor = constructed[Len(constructed) + 1 - j]
    /\ phase = "done" =>
          /\ Len(reports) = Len(constructed)
          /\ \A j \in DOMAIN reports : reports[j].actor = constructed[j]
    /\ dropped = IF phase = "panicked" THEN constructed ELSE <<>>

\* "Validation has already ensured both exist": a checked script never meets an
\* `as` block whose actor has no live instance.
ActorsAreLive == report # "NoLiveInstance"

\* "This keeps check and run from drifting": a checked script never runs into a
\* command its actor has no arm for in its mode.
NeverNotImplemented == report # "CommandNotImplemented"
=============================================================================
