--------------------------- MODULE ContainerActor ---------------------------
(***************************************************************************)
(* The runtime of the `container` actor (actor_type/container/runtime.rs)  *)
(* and the containers it leaves with the docker daemon.                    *)
(*                                                                         *)
(* construct checks the declaration and prepares the image; run asks the   *)
(* daemon to start a container and keeps its handle; stop and teardown ask *)
(* for its removal under a timeout.  A handle that was not removed asks    *)
(* once more when it is dropped, and only then does the call return.  An   *)
(* Option of the code is a set of at most one element.                     *)
(***************************************************************************)
EXTENDS Integers, SequencesExt

CONSTANTS MaxCalls,    \* bound: commands issued
          PortNumbers, \* numbers a script gives for a port
          ImageRefs    \* image references, sequences over "n", ":" and "/"

ASSUME ContainerAssumption ==
    /\ MaxCalls \in Nat /\ PortNumbers \subseteq Int
    /\ \A r \in ImageRefs : r \in Seq({"n", ":", "/"})

VARIABLES
    stage,     \* "declared", "live" (constructed), "failed"
    image,     \* ContainerInstance.image_name, image_tag and what was asked
    internal,  \* ContainerInstance.internal_port
    mode,      \* ContainerInstance.mode
    step,      \* "idle", "starting", "removing", "dropping", "torn"
    cmd,       \* the call in progress, or the last one
    calls,     \* commands so far
    result,    \* outcome of the last call, with its reason atom
    asked,     \* external_port: of the run in progress or the last one
    own,       \* the container behind the handle, 0 for none
    cont,      \* containers on the daemon: state and published host port
    lost       \* history: containers whose last removal was refused

vars == <<stage, image, internal, mode, step, cmd, calls, result, asked, own,
          cont, lost>>
declaration == <<stage, image, internal>>
daemon == <<cont, lost>>

Runs == 1..MaxCalls
NoContainer == [state |-> "none", port |-> {}]

\* A keyword argument: absent, a number, or a value of another type.
Absent == [t |-> "absent", n |-> 0]
PortArgs == {Absent, [t |-> "string", n |-> 0]}
            \cup {[t |-> "number", n |-> p] : p \in PortNumbers}

Init ==
    /\ stage = "declared" /\ internal = {}
    /\ image = [ref |-> <<>>, name |-> <<>>, tag |-> <<>>]
    /\ mode = "stopped" /\ step = "idle" /\ cmd = "none" /\ calls = 0
    /\ result = "none" /\ asked = Absent /\ own = 0
    /\ cont = [i \in Runs |-> NoContainer] /\ lost = {}

-----------------------------------------------------------------------------
(* construct.                                                              *)

U16Max == 65535

\* Mutant: the number is cast to 16 bits.
ValueAsU16Wraps(v) == IF v.t = "number" THEN {v.n % (U16Max + 1)} ELSE {}

value_as_u16(v) == IF v.t = "number" /\ v.n \in 0..U16Max THEN {v.n} ELSE {}

\* Mutant: the tag starts at the first colon.
SplitAtFirstColon(ref) ==
    LET i == SelectInSeq(ref, LAMBDA c : c = ":")
        tag == SubSeq(ref, i + 1, Len(ref))
    IN  IF i # 0 /\ tag # <<>>
        THEN [ref |-> ref, name |-> SubSeq(ref, 1, i - 1), tag |-> tag]
        ELSE [ref |-> ref, name |-> ref, tag |-> <<"latest">>]

\* "name[:tag]", split at the last colon unless a slash follows it.
split_image_ref(ref) ==
    LET i == SelectLastInSeq(ref, LAMBDA c : c = ":")
        tag == SubSeq(ref, i + 1, Len(ref))
    IN  IF i # 0 /\ ~Contains(tag, "/") /\ tag # <<>>
        THEN [ref |-> ref, name |-> SubSeq(ref, 1, i - 1), tag |-> tag]
        ELSE [ref |-> ref, name |-> ref, tag |-> <<"latest">>]

\* image: and dockerfile: are each absent, a string or of another type.
Sources == {"absent", "string", "other"}

GoodDeclaration(img, file, port) ==
    /\ port = Absent \/ value_as_u16(port) # {}
    /\ {img, file} = {"absent", "string"}

\* A bad declaration, or an image that cannot be pulled or built.
ConstructFails ==
    /\ stage = "declared"
    /\ stage' = "failed"
    /\ UNCHANGED <<image, internal, mode, step, cmd, calls, result, asked, own, daemon>>

\* prepare_from_image or prepare_from_dockerfile; a built image has its own name.
ConstructOk(img, file, port) ==
    /\ stage = "declared" /\ GoodDeclaration(img, file, port)
    /\ stage' = "live" /\ internal' = value_as_u16(port)
    /\ IF img = "string" THEN \E r \in ImageRefs : image' = split_image_ref(r)
                         ELSE UNCHANGED image
    /\ UNCHANGED <<mode, step, cmd, calls, result, asked, own, daemon>>

Construct ==
    \/ ConstructFails
    \/ \E img, file \in Sources, port \in PortArgs : ConstructOk(img, file, port)

-----------------------------------------------------------------------------
(* execute and teardown.                                                   *)

Begin(c) ==
    /\ stage = "live" /\ step = "idle" /\ calls < MaxCalls
    /\ calls' = calls + 1 /\ cmd' = c

\* Stopped::run: what it refuses before it asks the daemon, in this order.
BadPort(port) == port # Absent /\ (value_as_u16(port) = {} \/ internal = {})

RunRefused(port, env) ==
    /\ mode = "stopped" /\ Begin("run") /\ asked' = port
    /\ \/ BadPort(port) /\ result' = "bad_port"
       \/ ~BadPort(port) /\ env = "bad" /\ result' = "bad_env"
    /\ UNCHANGED <<declaration, mode, step, own, daemon>>

RunStarts(port, env) ==
    /\ mode = "stopped" /\ ~BadPort(port) /\ env # "bad"
    /\ Begin("run") /\ asked' = port
    /\ step' = "starting" /\ result' = "none"
    /\ UNCHANGED <<declaration, mode, own, daemon>>

\* apply_env takes a dict of string-like values.
Run == \E port \in PortArgs, env \in {"absent", "good", "bad"} :
           RunRefused(port, env) \/ RunStarts(port, env)

\* Mutant: a second run replaces the handle of the first.
RunAgainRestarts ==
    /\ mode = "running" /\ Begin("run")
    /\ step' = "starting" /\ result' = "none" /\ own' = 0
    /\ UNCHANGED <<declaration, mode, asked, daemon>>

RunAgain ==
    /\ mode = "running" /\ Begin("run")
    /\ result' = "already_running"
    /\ UNCHANGED <<declaration, mode, step, asked, own, daemon>>

StopStopped ==
    /\ mode = "stopped" /\ Begin("stop")
    /\ result' = "not_running"
    /\ UNCHANGED <<declaration, mode, step, asked, own, daemon>>

StopRunning ==
    /\ mode = "running" /\ Begin("stop")
    /\ step' = "removing" /\ result' = "none"
    /\ UNCHANGED <<declaration, mode, asked, own, daemon>>

Teardown ==
    /\ stage = "live" /\ step = "idle"
    /\ cmd' = "teardown"
    /\ IF mode = "running" THEN step' = "removing" /\ result' = "none"
                           ELSE step' = "torn" /\ result' = "ok"
    /\ UNCHANGED <<declaration, mode, calls, asked, own, daemon>>

\* A panic drops the instance, and the handle with it.
DropInstance ==
    /\ stage = "live" /\ step \in {"idle", "removing"}
    /\ cmd' = "drop" /\ result' = "none"
    /\ step' = IF own # 0 THEN "dropping" ELSE "torn"
    /\ UNCHANGED <<declaration, mode, calls, asked, own, daemon>>

\* Mutant: a call that failed keeps the mode.
ReturnKeepsMode(r) ==
    /\ mode' = IF r = "ok" THEN "stopped" ELSE mode
    /\ own' = 0 /\ result' = r
    /\ step' = IF cmd \in {"teardown", "drop"} THEN "torn" ELSE "idle"

\* The call returns without a handle.
ReturnStopped(r) ==
    /\ mode' = "stopped" /\ own' = 0 /\ result' = r
    /\ step' = IF cmd \in {"teardown", "drop"} THEN "torn" ELSE "idle"

-----------------------------------------------------------------------------
(* start() and rm(), with the daemon's answers (external: testcontainers). *)

Published == IF internal = {} THEN {} ELSE value_as_u16(asked)

\* Port 0 asks for any free port.
InUse(port) == \E i \in Runs : cont[i].state = "alive" /\ (port \ {0}) \cap cont[i].port # {}

StartOk ==
    /\ step = "starting" /\ ~InUse(Published)
    /\ cont' = [cont EXCEPT ![calls] = [state |-> "alive", port |-> Published]]
    /\ own' = calls /\ mode' = "running" /\ step' = "idle" /\ result' = "ok"
    /\ UNCHANGED <<declaration, cmd, calls, asked, lost>>

\* classify_run_error, when there is nothing to clean up.
StartFails ==
    /\ step = "starting"
    /\ \E r \in {"timeout", "docker_unavailable"}
                    \cup (IF InUse(Published) THEN {"port_in_use"} ELSE {}) :
           ReturnStopped(r)
    /\ UNCHANGED <<declaration, cmd, calls, asked, daemon>>

\* Mutant: a container that was not ready in time is forgotten.
StartTimesOutForgets ==
    /\ step = "starting" /\ ~InUse(Published)
    /\ cont' = [cont EXCEPT ![calls] = [state |-> "alive", port |-> Published]]
    /\ ReturnStopped("timeout")
    /\ UNCHANGED <<declaration, cmd, calls, asked, lost>>

\* The container runs and is not ready in time: its handle is dropped.
StartTimesOut ==
    /\ step = "starting" /\ ~InUse(Published)
    /\ cont' = [cont EXCEPT ![calls] = [state |-> "alive", port |-> Published]]
    /\ own' = calls /\ step' = "dropping" /\ result' = "timeout"
    /\ UNCHANGED <<declaration, mode, cmd, calls, asked, lost>>

Gone == [cont EXCEPT ![own] = [state |-> "gone", port |-> {}]]

RmOk ==
    /\ step = "removing"
    /\ cont' = Gone /\ ReturnStopped("ok")
    /\ UNCHANGED <<declaration, cmd, calls, asked, lost>>

\* Mutant: a removal that times out counts as done.
RmFailsOk ==
    /\ step = "removing"
    /\ UNCHANGED cont /\ ReturnStopped("ok")
    /\ UNCHANGED <<declaration, cmd, calls, asked, lost>>

\* An error or the timeout of Running::stop and Running::teardown; the daemon may
\* have removed the container all the same.  rm() owned the handle and drops it.
RmFails ==
    /\ step = "removing"
    /\ cont' \in {cont, Gone}
    /\ step' = "dropping" /\ result' \in {"docker_unavailable", "timeout"}
    /\ UNCHANGED <<declaration, mode, cmd, calls, asked, own, lost>>

\* Drop of ContainerAsync: one more removal, waited for.
DropRemoves ==
    /\ step = "dropping"
    /\ cont' = Gone /\ ReturnStopped(result)
    /\ UNCHANGED <<declaration, cmd, calls, asked, lost>>

DropRefused ==
    /\ step = "dropping"
    /\ lost' = lost \cup {own} /\ ReturnStopped(result)
    /\ UNCHANGED <<declaration, cmd, calls, asked, cont>>

Over == (step = "torn" \/ stage = "failed") /\ UNCHANGED vars

Starting == StartOk \/ StartFails \/ StartTimesOut
Removing == RmOk \/ RmFails
Dropping == DropRemoves \/ DropRefused

Next ==
    \/ Construct \/ Run \/ RunAgain \/ StopStopped \/ StopRunning \/ Teardown
    \/ DropInstance \/ Starting \/ Removing \/ Dropping \/ Over

Spec == Init /\ [][Next]_vars

\* The daemon answers, or the client's own timeout ends the request.
FairSpec == Spec /\ WF_vars(Starting) /\ WF_vars(Removing) /\ WF_vars(Dropping)

-----------------------------------------------------------------------------
\* Types; the handle is held exactly while the mode is running or a removal is in
\* progress.
TypeOK ==
    /\ stage \in {"declared", "live", "failed"}
    /\ mode \in {"stopped", "running"}
    /\ step \in {"idle", "starting", "removing", "dropping", "torn"}
    /\ calls \in 0..MaxCalls /\ internal \in SUBSET (0..U16Max)
    /\ own \in {0} \cup Runs /\ lost \subseteq Runs
    /\ \A i \in Runs : /\ cont[i].state \in {"none", "alive", "gone"}
                       /\ cont[i].port \in SUBSET (0..U16Max)
    /\ own # 0 <=> mode = "running" \/ step = "dropping"
    /\ step = "removing" => mode = "running"

\* No container outlives its handle: one that is alive is owned by the instance, or
\* its removal was refused when the handle was dropped.  This is what is left when
\* every step of the removal may fail and the mode is stopped all the same.
NoOrphan ==
    \A i \in Runs : cont[i].state = "alive" => i = own \/ i \in lost

\* A stop or a teardown that reports ok has removed the container.
OkMeansRemoved ==
    result = "ok" /\ cmd \in {"stop", "teardown"} /\ step \in {"idle", "torn"} =>
        \A i \in Runs : cont[i].state = "alive" => i \in lost

\* A host port is free again after the container that used it was stopped: a later
\* run of the script finds it in use only if a removal was refused before.
PortFreed == result = "port_in_use" => lost # {}

\* A container is published on the very port the script asked for, and on none if
\* it asked for none: a 64-bit number is never cut to a port.  (Port 0 is what is
\* asked of the daemon, which then picks a free port.)
PortsExact ==
    step = "idle" /\ cmd = "run" /\ result = "ok" =>
        cont[own].port = IF asked = Absent THEN {} ELSE {asked.n}

\* A reference without a tag: its last colon, if it has one, ends it or is followed
\* by a slash.
Untagged(ref) ==
    \A i \in DOMAIN ref : ref[i] = ":" =>
        i = Len(ref) \/ \E j \in (i + 1)..Len(ref) : ref[j] \in {":", "/"}

\* The image that is pulled is the one that was asked for: putting name and tag
\* together gives the reference back, or the reference has no tag and "latest" is
\* supplied; the port of a registry is not taken for a tag.
ImageIsTheAskedOne ==
    /\ \/ image.name \o <<":">> \o image.tag = image.ref
       \/ /\ Untagged(image.ref) /\ image.name = image.ref
          /\ image.tag \in {<<"latest">>, <<>>}
    /\ ~Contains(image.tag, "/")

\* A container whose removal was asked for is removed in the end, by the removal or
\* by the drop of the handle, unless the daemon refused that too.
EventuallyRemoved ==
    \A i \in Runs : (cont[i].state = "alive" /\ step \in {"removing", "dropping", "torn"})
                        ~> (cont[i].state = "gone" \/ i \in lost)

\* The instance implements the contract the harness relies on.
Contract == INSTANCE ActorContract WITH
    Type   <- "container",
    amode  <- IF cmd = "drop" THEN "stopped" ELSE mode,
    call   <- CASE cmd = "drop" \/ step = "torn" -> "torn"
                [] step = "idle" -> "none" [] OTHER -> cmd,
    result <- IF step = "dropping" \/ result = "none" THEN "none"
              ELSE IF result = "ok" THEN "ok" ELSE "error"

ContractSpec == Contract!ASpec
=============================================================================
