---------------------------- MODULE ActorContract ---------------------------
(***************************************************************************)
(* What the harness relies on from an actor instance of type Type          *)
(* (trait ActorInstance): commands one at a time, each returning with an   *)
(* outcome and a next mode of the runtime table in ActorTypes, and a       *)
(* teardown that ends in the initial mode.  The detailed models of the     *)
(* actors implement this specification; module Harness uses only the table.*)
(***************************************************************************)
EXTENDS ActorTypes

CONSTANT Type

VARIABLES
    amode,    \* the instance's mode
    call,     \* the call in progress: "none", a command, "teardown"; "torn" after
    result    \* outcome of the last call

avars == <<amode, call, result>>

AInit == amode = InitialMode(Type) /\ call = "none" /\ result = "none"

Call ==
    /\ call = "none"
    /\ call' \in CommandsOf(Type) \cup {"teardown"}
    /\ result' = "none"
    /\ UNCHANGED amode

\* The call c returns.
Returns(c) ==
    /\ call' = "none"
    /\ <<result', amode'>> \in Results(Type, amode, c)

Return == call \in CommandsOf(Type) /\ Returns(call)

\* A command that needs no waiting is called and returns in one step.
CallAndReturn == call = "none" /\ \E c \in CommandsOf(Type) : Returns(c)

TornDown ==
    /\ call \in {"none", "teardown"}
    /\ call' = "torn"
    /\ amode' = InitialMode(Type)
    /\ result' \in {"none", "ok", "error", "not_implemented"}

\* A panic drops the instance, possibly in the middle of a call.
Dropped ==
    /\ call # "torn" /\ call' = "torn"
    /\ amode' = InitialMode(Type) /\ result' = "none"

ANext == Call \/ Return \/ CallAndReturn \/ TornDown \/ Dropped

ASpec == AInit /\ [][ANext]_avars
=============================================================================
