----------------------------- MODULE ActorTypes -----------------------------
(***************************************************************************)
(* The actor types of the registry, as two tables.                         *)
(*                                                                         *)
(* The STATIC table is what the validator reads: for each command the      *)
(* modes it is valid in and the mode a success leads to (commands.rs of    *)
(* each type).  The RUNTIME table is what an instance does with a command  *)
(* in a mode: the pairs <<outcome, next mode>> its `execute` can produce   *)
(* (runtime.rs of each type).  The two are written separately in the code, *)
(* and nothing but the tests relates them.                                 *)
(***************************************************************************)

Types == {"exec", "container", "pg_client", "mqtt_client", "args_actor",
          "http_client"}

Modes == {"stopped", "running", "disconnected", "connected", "ready"}

NoMode == "none"

InitialMode(t) ==
    CASE t \in {"exec", "container"}        -> "stopped"
      [] t \in {"pg_client", "mqtt_client"} -> "disconnected"
      [] OTHER                              -> "ready"

\* A command's entry: the modes it is valid in, and the mode its success leads
\* to (NoMode: it changes none).
Entry(valid, to) == [valid |-> valid, to |-> to]

ExecCommands == [run |-> Entry({"stopped"}, "running")]

ContainerCommands == [run  |-> Entry({"stopped"}, "running"),
                      stop |-> Entry({"running"}, "stopped")]

PgCommands == [connect    |-> Entry({"disconnected"}, "connected"),
               query      |-> Entry({"connected"}, NoMode),
               disconnect |-> Entry({"connected"}, "disconnected")]

MqttCommands == [connect            |-> Entry({"disconnected"}, "connected"),
                 disconnect         |-> Entry({"connected"}, "disconnected"),
                 subscribe          |-> Entry({"connected"}, NoMode),
                 publish_0          |-> Entry({"connected"}, NoMode),
                 publish_1          |-> Entry({"connected"}, NoMode),
                 publish_2          |-> Entry({"connected"}, NoMode),
                 receive_publish    |-> Entry({"connected"}, NoMode),
                 receive_disconnect |-> Entry({"connected"}, "disconnected")]

ArgsCommands == [check |-> Entry({"ready"}, NoMode)]

HttpCommands == [c \in {"get", "post", "put", "delete"} |-> Entry({"ready"}, NoMode)]

CommandTable == [exec        |-> ExecCommands,
                 container   |-> ContainerCommands,
                 pg_client   |-> PgCommands,
                 mqtt_client |-> MqttCommands,
                 args_actor  |-> ArgsCommands,
                 http_client |-> HttpCommands]

\* ActorType::resolve_command succeeds on exactly these names.
CommandsOf(t) == IF t \in Types THEN DOMAIN CommandTable[t] ELSE {}

\* Command::valid_in_modes and Command::transitions_to, for c in CommandsOf(t).
ValidInModes(t, c) == CommandTable[t][c].valid

TransitionsTo(t, c) == CommandTable[t][c].to

\* Types whose instances expose member variables (self_view is Some).
HasSelfView(t) == t \in {"container", "args_actor"}

-----------------------------------------------------------------------------
(* ActorInstance::execute per type: <<outcome, next mode>>.                 *)

ExecResults(m, c) ==
    CASE c # "run"     -> {<<"not_implemented", m>>}
      [] m = "stopped" -> {<<"ok", "running">>, <<"error", "stopped">>}
      [] OTHER         -> {<<"error", "running">>}            \* already_running

\* `stop` leaves the mode stopped also when the removal failed.
ContainerResults(m, c) ==
    CASE c = "run" /\ m = "stopped"  -> {<<"ok", "running">>, <<"error", "stopped">>}
      [] c = "run" /\ m = "running"  -> {<<"error", "running">>}
      [] c = "stop" /\ m = "stopped" -> {<<"error", "stopped">>}   \* not_running
      [] c = "stop" /\ m = "running" -> {<<"ok", "stopped">>, <<"error", "stopped">>}
      [] OTHER -> {<<"not_implemented", m>>}

PgResults(m, c) ==
    CASE c = "connect" /\ m = "disconnected" ->
             {<<"ok", "connected">>, <<"error", "disconnected">>}
      [] c = "query" /\ m = "connected"      -> {<<"ok", m>>, <<"error", m>>}
      [] c = "disconnect" /\ m = "connected" -> {<<"ok", "disconnected">>}
      [] OTHER -> {<<"not_implemented", m>>}

\* The mqtt commands that keep a connected client connected.
MqttTraffic == {"subscribe", "publish_0", "publish_1", "publish_2",
                "receive_publish"}

\* A receive_disconnect that finds the channel closed is an error that still
\* ends the session; one that times out is an error that keeps it.
MqttResults(m, c) ==
    CASE c = "connect" /\ m = "disconnected" ->
             {<<"ok", "connected">>, <<"error", "disconnected">>}
      [] c = "disconnect" /\ m = "connected" -> {<<"ok", "disconnected">>}
      [] c \in MqttTraffic /\ m = "connected" -> {<<"ok", m>>, <<"error", m>>}
      [] c = "receive_disconnect" /\ m = "connected" ->
             {<<"ok", "disconnected">>, <<"error", "disconnected">>, <<"error", m>>}
      [] OTHER -> {<<"not_implemented", m>>}

ArgsResults(m, c) ==
    IF c = "check" THEN {<<"ok", m>>} ELSE {<<"not_implemented", m>>}

\* http_client has no runtime: its construction fails, no instance exists.
Constructible(t) == t \in Types \ {"http_client"}

Results(t, m, c) ==
    CASE t = "exec"        -> ExecResults(m, c)
      [] t = "container"   -> ContainerResults(m, c)
      [] t = "pg_client"   -> PgResults(m, c)
      [] t = "mqtt_client" -> MqttResults(m, c)
      [] t = "args_actor"  -> ArgsResults(m, c)
      [] OTHER             -> {<<"not_implemented", m>>}
=============================================================================
