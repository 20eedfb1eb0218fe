# iLL in TLA+

iLL is a language for integration tests. A `.ill` file declares *actors* (a
process, a container, a database or MQTT client) and says in `as` blocks which
commands each actor executes and what must hold of the results. `ill check`
parses and validates files; `ill test` validates them and then runs them.

This directory models the parts of that program whose correctness depends on
order, interleaving, failure or time, checks the models with TLC on small
instances, and proves what matters most with TLAPS for every value of the
parameters. Paths below are relative to `src/crates/ill-core/src/` unless they
start with `src/`.

## The system

| Part | State | Operations | Interacts with |
| --- | --- | --- | --- |
| command line, `src/crates/ill/src/main.rs` | arguments, selected files, check results | `check`, `test` with a check gate | lowering, validator, harness |
| lowering, `lower.rs` | diagnostics so far | concrete tree to syntax tree | grammar, diagnostics |
| validator, `validate.rs` | symbol table with a mode per actor; outcome window and pending transition per block | register declarations, check blocks | registry, command tables |
| registry and framework, `registry.rs`, `actor_type/mod.rs` | static tables | resolve type, command, mode; traits of types and instances | validator, harness |
| harness, `runtime/harness.rs` | live instances, scope, reports | construct, run blocks, tear down | instances, evaluation |
| `mqtt_client` | mode; session with request channel, two inboxes, three waiter queues, event-loop task | connect, disconnect, subscribe, publish, receive, teardown | broker through rumqttc |
| `pg_client` | mode; connection and its task | connect, query, disconnect, teardown | server through tokio-postgres |
| `exec` | mode; child process | run, teardown | operating system, tokio's reaper |
| `container` | mode; container handle | run, stop, teardown | docker daemon |
| `args_actor`, `http_client` | values from the command line; nothing | coercion at construction; no runtime | command line |
| evaluation, `runtime/eval.rs`, `assert.rs`, `members.rs`, `squiggle/` | none | expressions to values | harness |
| scanner and grammar, `src/tree-sitter-ill/` | indentation stack, serialised between calls | tokens | tree-sitter |

What is hard to get right, and to test, in it:

* **Two tasks per MQTT session.** The task that awaits a command and the event
  loop share queues and channels. Acks are matched to commands by queue order
  alone; the loop can die at any point of a command; every queue has a capacity.
* **Two judges of one script.** The validator decides statically in which mode
  each command runs and on which branch each command ends. The harness and the
  actors decide it again at run time, from separate tables and a separate
  lookahead.
* **Failure in the middle.** A construction, command, assert or teardown can
  fail, and a teardown can panic: everything constructed must still be torn down,
  once. A construction or command that panics skips the teardowns; then every
  instance must clean up when it is dropped.
* **Time.** Connect retries within a budget; stopping a process has a grace
  period after which SIGKILL races with the exit; a query that timed out may be
  answered while the next one waits for its own answer.
* **Things left with others.** Child processes, containers and host ports outlive
  the handle that the instance holds unless every path returns them.
* **Layout.** Blocks exist only as tokens that the scanner makes up from columns;
  its memory is a bounded stack that is written to bytes and read back at every
  call. A line that is lost on the way is a statement that is silently not tested.

`PROJECT.json` lists these hazards one by one, each with its line.

## Modules

| Module | Models | Shape |
| --- | --- | --- |
| `ActorTypes` | the command tables (`*/commands.rs`, `*/mod.rs`) and what `execute` can answer (`*/runtime.rs`), as two separate tables | constant operators |
| `ActorContract` | trait `ActorInstance`: what the harness relies on | abstract specification |
| `MqttClient` | `actor_type/mqtt_client/runtime.rs` | state machine, implements `ActorContract` |
| `ExecActor` | `actor_type/exec/runtime.rs` | state machine, implements `ActorContract` |
| `ConnectRetry` | the retry loop of `connect` in `mqtt_client` and `pg_client` | state machine with a clock |
| `PgClient` | `actor_type/pg_client/runtime.rs` | state machine around `ConnectRetry`, implements `ActorContract` |
| `ContainerActor` | `actor_type/container/runtime.rs` | state machine, implements `ActorContract` |
| `Script` | `ast.rs`: the files the pipeline is given | written item by item |
| `Validate` | `validate.rs` | state machine over a script |
| `Harness` | `runtime/harness.rs` | state machine over a script |
| `CheckRun` | `run_test_file`: validate, then run | composes `Validate` and `Harness` |
| `FrontEnd` | `src/tree-sitter-ill/src/scanner.c`, the blocks of `grammar.js`, `lower.rs` | state machine over a text, with a declarative layout rule as reference |
| `Values` | `runtime/value.rs`, `eval.rs`, `assert.rs`, `actor_type/args_actor/runtime.rs` | constant operators |
| `Suite` | `src/crates/ill/src/main.rs` | state machine, uses `Values` |
| `MCCheckRun`, `MCContainer`, `MCSuite` | script families, ports, image references, files and arguments for TLC | definitions for the configurations |
| `MqttClientProofs`, `MqttRefinementProofs`, `ExecActorProofs`, `PgClientProofs` (with the connect loop), `ContainerProofs`, `CheckRunProofs`, `SuiteProofs`, `FrontEndProofs` | theorems | |

`Harness` uses an actor only through the runtime table of `ActorTypes`.
`ActorContract` turns one type's rows of that table into a specification, and
the detailed models implement it. That closes the gap: what is shown of scripts
with the table holds with the real MQTT, Postgres, exec and container actors in it.

### MqttClient

`mode`, `pc`, `cmd`, `rx` and `outcome` are the task inside
`MqttClientInstance::execute`: `pc` is the await it is suspended at (sending
into the request channel, awaiting the oneshot `rx`, receiving from an inbox).
`loop` and `held` are `run_event_loop`. `waiters`, `requests`, `inbox` and
`disc` are shared. One action is the code between two awaits, or between two
lock acquisitions: `fail_all_with` takes one lock per queue and is three steps,
and the end of the loop task drops the inbox senders before the event loop with
the request receiver (parameters are dropped last to first).

The broker and the network (`wire`, `unacked`, `link`) are external. The broker
answers requests in any order, refuses some, publishes, disconnects; a dropped
connection delivers a prefix of what was sent. `accepted`, `rejected`, `got` and
`sawDisc` are history variables used by properties only.

`subscribe` stands for the three QoS variants, which differ in one byte. Topics,
payloads, properties and reason codes are abstracted to the outcome variant.
`connect` is one step; its loop is `ConnectRetry`.

### ExecActor

The instance (`mode`, `pc` inside `Running::stop`), who holds the `Child`
(`handle`) and the process itself (`proc`, `signals`). `DropInstance` is a panic
or a cancelled teardown: tokio's `kill_on_drop` and its orphan reaper take over.
`shield` says which signals have no effect on the child: none, SIGTERM, or all of
them, because the system lets us send none (a program that changed its user).
Both waits of `Running::stop` may fail. The error of the first is the teardown's
outcome (`GraceWaitFails`); that of the second is ignored, and the teardown
reports what `start_kill` returned although the child has not been collected
(`ReapWaitFails`). `TeardownOkEnds` says what an ok is worth then: the child has
exited or has a SIGKILL on its way, and the reaper, whose own wait is assumed to
work, holds it.

### ConnectRetry

A discrete clock; code between two awaits takes no time. `remaining` is kept as
a variable because the code uses it again after the attempt, when it is stale.
The server starts unbound and may become ready, silent or rejecting at any time;
it answers within `AnswerTime` unless it is silent. The loop is checked inside
`PgClient`, which starts it afresh at every `connect`; the proofs are about the
loop alone and then about every `connect` of a client's life.

### PgClient

`mode`, `step`, `cmd`, `calls` and `result` are the task inside
`PgClientInstance::execute`; `task` is `conn_task`, the spawned future that
drives the connection. `queue` holds the statements sent and not yet answered,
numbered by the command that issued them; answers come in that order, which is
what the protocol and tokio-postgres guarantee (external). `rx` is the channel of
the query in progress. A timeout drops the future and with it the channel: the
statement stays queued and may still take effect. Only a positive `timeout:`
counts; 0 and negative numbers mean none. `DropConnected` is `impl Drop for
Connected`, reached by `disconnect`, the teardown and a panic; the early return
of `query` must put the connection back that `mem::take` took out.

An error of a query has three ways through `classify_query_error`: the server's
own error (`query`, with its sqlstate), a connection that is closed (`network`),
and anything else, which is a query error with an empty sqlstate (`query_other`).
The last is an error of the client itself, before it sends the statement or at a
message it does not expect (`UnexpectedAnswer`), after which the server may go on
and execute it. So `VerdictIsServers` promises nothing of `query_other`.

### ContainerActor

`stage`, `image` and `internal` are what `construct` leaves; `mode`, `step` and
`own` are the instance with the handle it holds or is about to give up; `cont`
are the containers and their published ports at the daemon (external). A start
that times out may have created its container, whose handle is then dropped; a
removal may fail, or time out although the daemon carried it out; dropping the
handle asks once more and waits. `lost` records containers whose last removal
was refused. A port is a 64-bit number of the script; `value_as_u16` refuses what
does not fit. `split_image_ref` is modelled on sequences of name parts, colons
and slashes, which is all it looks at. Port 0 is a request like any other, for
which the daemon picks a free port: `PortsExact` speaks of the request.

### FrontEnd

A text is a sequence of lines; TLC chooses the next line when the scanner reads
past a line break. `buf` is the scanner between two calls: the bytes that
`serialize` wrote, so every call starts with `deserialize`. `pos` and `depth` are
the parser's position in the block structure of the grammar, which decides the
`valid_symbols` of the next call. `tree` is the concrete tree and `ast` what
`lower` keeps of it, node by node, with the codes of its diagnostics in `errors`.
What stands inside a line is reduced to whether it opens a block and whether it
holds a literal that cannot be lowered. Error recovery is tree-sitter's: the model
ends the parse with one ERROR or MISSING node.

`IsLayout` says without tokens and without a stack which levels a text has:
an opening line is followed by a deeper one, every other line stands at exactly
the column of an open block. The properties compare the two. They also document
corners of the code: the first line may be indented; a top-level item after a
block may stand anywhere left of that block, because top-level items need no
NEWLINE; a comment line counts as a line for the scanner, and one that stands
alone at the end of a block is refused. `lower` first normalises the end of the
text, so the branches of the scanner for a text without a final line break are
in the model and not reached through `lower`.

### Values, Suite

`Suite` runs one command: `--arg` values, paths, reading and checking of each
file, the gate, the runs, the exit code. The disk is not the command's own: a
file may be saved by somebody else at any time between two reads (`Edit`). A
file's content is its check status and, for the run, the variables of its
`args_actor` and one assert; `Values` coerces the command line to the declared
types and evaluates the assert as `eval` and `eval_assert` do, errors included.
`Literals` are the values a script can hold, closed under taking elements
(`LiteralsAssumption`): numbers are integers, texts are sequences of characters and
a dict has one key for each element, which is what `runtime/value.rs` can represent.
Whatever else the test does may pass or fail, or panic: that panic leaves `main`
with exit code 101 and the remaining files do not run (`RunPanics`). Nested dicts
are compared in the order of their keys, which `IndexMap` ignores; no property
depends on it.

### Script, Validate, Harness, CheckRun

A script is written nondeterministically, one item or statement at a time, from
the alphabet of a family, and handed to the pipeline. An expression is the
identifier its access chain is rooted at, because neither side looks further
before it evaluates; argument and squiggle errors are one well-formedness bit.

`Validate` keeps the symbol table with absent, errored and healthy entries, and
per block the outcome window and the pending transition. `Harness` keeps the
live instances, the set of bound names (refreshed before each statement as
`bind_self` does) and the report that ended the walk. Whether a bound value
satisfies an assert is left open.

A construction or command may also panic. Only teardowns run on tasks of their
own, so such a panic unwinds `execute`: there is no report and no teardown, and
the instances are dropped in the order of their construction (`Unwind`). What a
dropped instance leaves behind is the matter of the actors' models
(`DropInstance`, `DropConnected`). Every await of the walk is one step here that
may be taken or not: nothing is said of termination, because calls exist that
never return (a query without a timeout, the findings about MQTT, a child that
can be sent no signal). When a call returns is a property of the actors' models.

## Runs

| Run | Configuration | Question | Result |
| --- | --- | --- | --- |
| `mqtt` | `Mqtt` | acks, outcomes, publishes, disconnect reasons, contract under every interleaving and failure; every command returns | passes |
| `mqtt_orphan_waiter` | `MqttOrphanWaiter` | no command is left waiting once the loop is gone | violated |
| `mqtt_full_inbox` | `MqttFullInbox` | the loop gets past a publish when the inbox is full | violated |
| `checkrun` | `CheckRun` | validator and run agree on modes and branches; where they disagree on a mode no command succeeds; teardown in reverse, or drop after a panic, for every layout of declarations | passes |
| `checkrun_order` | `CheckRunOrder` | no checked block lacks a live instance | violated |
| `checkrun_drift` | `CheckRunDrift` | no checked script meets an unimplemented command | violated |
| `checkrun_shadow` | `CheckRunShadow` | branches agree when a `let` is named `error` | violated |
| `exec` | `Exec` | no process is lost; what an ok of a teardown says when signals are refused and waits fail; contract | passes |
| `pg` | `Pg` | connect keeps its budget and reaches a slow server; a query reports its own statement's fate; the background task dies with its session; contract | passes |
| `container` | `Container` | no container is lost, ports and images are the ones asked for, contract | passes |
| `front_end` | `FrontEnd` | scanner, parser and lowering keep every line at its level, or report | passes |
| `suite` | `Suite` | the gate holds, what runs is what was checked, the exit code is truthful, arguments and asserts mean what they say | passes |

The violated runs are disagreements between the code and a comment beside it:

* **Orphaned waiter.** The loop drains each waiter queue once and ends; the
  request channel closes a moment later. A command that pushes its waiter after
  the drain and sends before the close waits for ever. `fail_all_with`'s comment
  says that every pending waiter is resolved.
* **Full inbox.** The comment says that a message is lost when the inbox is
  full; the code waits for room. A command that awaits an ack then waits for a
  loop that waits for that same task to receive. (The comment at `INBOX_CAP`
  describes the waiting.)
* **Order.** A block may precede its declaration for the check, which has two
  passes, and not for the run, which has one.
* **Drift.** `receive_disconnect` on a closed channel is an error that changes
  the mode. The validator changes modes on success only. `ModesAgree` therefore
  exempts actors whose mode changed on an error (`drifted`), and this run shows
  that the exemption is needed. `DriftNeverSucceeds` says that the disagreement
  does no harm: such an actor (an MQTT client, or a container whose removal
  failed) answers no further command with ok. It is checked in `checkrun`.
* **Shadowing.** Both sides take any expression rooted at `error` for the
  command's error, also when a `let` gave that name another value.

### Bounds

* `Mqtt`: five commands, two publishes, capacities 1. One command cannot
  overtake another (the harness awaits each), so five are enough for a connect, a command,
  its failure path, a successor that would meet what it left behind and a reconnect; two
  publishes fill the inbox and wait behind it. The connection may drop at any
  point and the broker may refuse everything, QoS-2 publishes included.
* `CheckRun`: the first item decides between two families. Branches: four
  statements in up to two blocks (a command, a reference to its result, a second
  command that depends on the mode, and its reference), for all types except
  `http_client`, which has no instances. Layouts: three items over two names, two
  statements: enough for a duplicate, a poisoned name that is redeclared, and a
  failure between two constructions.
* `Exec`: three calls of `run`, for a failed, a successful and a refused one.
* `Pg`: four commands, so that a query can time out, be answered during its
  successor, and the session end and be opened again; a budget of 9 with pauses
  of 2 and answers within 2, so that the last pause can cross the deadline and the
  server can become ready in every phase.
* `Container`: four commands (run, failed stop, run on the same port, stop);
  ports -1, 0, 80, 65535, 65536 and 65616, the last of which is 80 modulo 2^16;
  image references with and without tag, registry and registry port.
* `FrontEnd`: five lines, one of them a comment or flawed, at columns 0, 2, 4 and
  258. Five lines open three blocks and close them at once; 258 does not fit in
  the low byte of a stack entry. `MAX_INDENT_LEVELS` is 4 for the code's 64: the
  assumption `FrontEndAssumption` is that it exceeds the nesting of the grammar,
  three blocks, and 4 is the smallest such number.
* `Suite`: two files, 19 contents, seven selections (no path, a directory, a file
  twice, an unreadable directory, a path that is no test), eleven argument lists,
  one change on disk. `I64Max` is 99, so that a number of three digits overflows.

Deadlock is checked except where a state without successor is the finding
itself (`Mqtt` and the MQTT violation runs).

### Fairness

* Tasks: tokio polls every task that can make progress (`ActorSteps`,
  `LoopSteps`, `Loop`, `Stop`), timers fire (`Tick`), and the harness always
  tears down an instance that was not dropped (`Teardown`). `CheckRun` states no
  liveness and assumes no fairness.
* MQTT: the broker answers what it received while the connection holds. The
  connection may drop for good, and `CommandReturns` names the three ways in
  which a command waits for ever all the same: the orphaned waiter and the full
  inbox (the findings above), and a QoS-2 publish that the broker refuses with
  PUBREC, a packet the loop ignores. There is no fourth.
* `Exec`: signals that were sent are delivered and the reaper runs; a child need
  never exit by itself, and a wait need never fail. A child that can be sent no
  signal is collected only after it has exited: `EventuallyReaped` does not speak
  of it while it lives.
* `Pg`: the executing task runs and timers fire. The server need never become
  ready, and owes no answer to a query: a query without a timeout may wait for
  ever, and `CallEnds` speaks of the others and of connect.
* `Container`: the daemon answers a request or the client's own timeout ends it.
  No container is promised to become ready or to be removable.
* `FrontEnd`: one thread that waits for nobody. `Suite` states no liveness: its
  loops run over the selected files, and deadlock is checked.

## Proofs

All theorems hold for every value of the constants that satisfies the named
assumptions: capacities at least 1, bounds natural numbers, an indentation stack
larger than the nesting of the grammar and columns of 16 bits
(`FrontEndAssumption`), values as `LiteralsAssumption` says, and files, selections
and contents of the right shape (`SuiteAssumption`).

* **MqttClientProofs.** `TypeCorrect` includes the capacities; that the
  disconnect inbox never needs to wait rests on `DiscUnread`: while the loop
  reads packets no DISCONNECT has been put there. `WaitersCorrect` is inductive
  together with `PcInv` and `LoopInv`, which say what the program counter and the
  loop position imply of command, mode and receiver. `NoStaleAckCorrect` adds
  `UnsentPending`: a command that has not sent yet has no ack under way.
  `VerdictCorrect` adds that every ack on the wire, and every resolved receiver,
  carries the broker's recorded verdict. `DisconnectReasonCorrect` adds that a
  DISCONNECT once read stays in the inbox until the session ends.
  `OrderCorrect`: `PublishesInOrder` is inductive as it stands, because it says of
  the packets on the wire which numbers they carry (`Numbered`); the lemmas follow
  that through the first packet, an appended one, and a prefix, which is what a
  dropped connection delivers.
* **MqttRefinementProofs, `ExecMeetsContract`, `PgMeetsContract`,
  `ContainerMeetsContract`.** Every step of the four actors is a call, a return
  with a row of the runtime table, the teardown, a drop or a stutter of
  `ActorContract`. Each uses the actor's types and an invariant that says which
  command and mode a program position implies. With them the table that `Harness`
  relies on is established for all four.
* **ExecActorProofs.** `Ownership` ties who holds the `Child` to what the process
  can be, and the types say that the mode is running exactly while it is held
  (`ExecTypeCorrect`); `TeardownCorrect` and `ChildNeverLost` follow. For the wait
  whose error is ignored, `TeardownCorrect` needs that a child for which
  `start_kill` was ok has exited or has been sent SIGKILL, and that signals are
  never taken back.
* **PgClientProofs.** For the connect loop the invariant bounds the clock by where
  the loop is (before the deadline when an attempt starts or ends well, at most one
  pause after it in a sleep) and the attempt by the server's answer time
  (`RetryReturnsInTime`, `RetryReachesServer`). `PgConnectInTime` and
  `PgConnectReaches` carry both to every connect of the client: the other steps
  leave the loop alone, and a new `connect` starts it in an initial state.
  For the queries the invariant orders what the server has executed before
  what is queued, both ascending and none later than the last command
  (`QueueInv`). So a new statement's number is not yet anywhere, the head of the
  queue is the query in progress only if every earlier statement has been
  answered, and a late answer cannot be taken for a new one. `RxInv` says that
  what the query has been told by the server is true and that its statement has
  left the queue, so that it stays true; of an error of the client itself it says
  nothing; `ReportInv` says the same of what it reported.
* **ContainerProofs.** The invariant is the types, with the handle held exactly
  while the mode is running or a removal is in progress; `StepInv`, which says
  in which step, mode and command the instance can be at once; `NoOrphan`; and `PortFreed`. A port is found in use only by a live
  container, which is then not owned (the mode is stopped) and so was lost.
  `PortsPublished` adds `AskedInv`: what `construct` kept of the port is the number
  of the script or nothing, and it is what `run` publishes. `ImageKept` is a lemma
  about `split_image_ref` on references of any length: the last colon is taken for
  a separator only when no slash follows it.
* **CheckRunProofs**, for scripts of any length over any names.
  `TornDownOrDroppedAlways`: the live instances are a prefix of the constructed
  ones, and the reports the rest, reversed; until the teardown starts, and so at a
  panic, they are all of them. `ModesTracked` and `BranchesTracked` relate two
  walks that happen one after the other, so the state of the first is gone when
  the second is under way. `Walk` is the validator as a function of the script:
  `WalkInv` says that a validator that got past a statement without an error was
  in the state `Walk` gives for it, and so `Checked` describes a whole accepted
  script; `RunInv` then compares the harness with that description, statement by statement:
  instances with healthy entries of the symbol table, the scope with the outcome window, the
  errors so far with the commands committed. The tables of `ActorTypes`, one for
  the validator and one for the instances, are compared row by row (`TablesAgree`).
  `DriftHarmless` adds `DriftInv`: an instance that an error moved is in its
  initial mode, and the validator believes it in another one. `DriftTable` reads
  off the two tables that no command valid in another mode is answered with ok in
  the initial one. The three theorems have the hypothesis `Unshadowed`: no actor and no `let` is named
  `ok` or `error`. The run `checkrun_shadow` shows that it is needed.
* **SuiteProofs.** `GateCorrect` and `ExitCorrect`: what has been checked is the
  files in their order, less the unreadable ones, each with the content that was
  read; a run takes the content from there. That a selection gives file names, which
  `ExitCorrect` needs, is an induction over the concatenation of the expanded paths.
  `ArgsCorrect` is about `coerce_to` and `Members`. `AssertsComplement` is about
  the evaluator: `eval` returns a value or an error, whatever the depth of
  the index chain, and on values two texts or two numbers compare as integers do.
* **FrontEndProofs.** `BlocksBalanced`: the bytes are those of a scanner
  (`Good`: columns of 16 bits, ascending, the first 0) that fits the parser's
  position (`Fits`): levels are left to be closed only after a complete item, and a
  block is opened only below the deepest level. So an INDENT always finds room on
  the stack. `RoundTrip` says that two bytes for each column lose nothing.
  `LinesKept` and `LayoutAccepted` compare the scanner with the layout of the
  reference, for texts of any length at any columns. The invariant (`Parsing`) has
  three parts. `Holds`: the tree has the lines read so far that are no comments,
  each placed as the reference says and, in a text without comments, under the only
  levels that place them. `Tracks`: with `L` the level of the last of these lines
  and `col[k]` the column of the latest line at level `k`, the stack holds `col[k]`
  for every open level up to `L` (`Sync`). `Stands`: before a line break nothing is
  pending; before the text of a line, and at the end, the levels closed since are
  deeper than that line's column, and the pending tokens lead exactly to where it
  starts (`Ahead`, `AtEof`). It is needed in both directions. What the parser takes
  stands at its depth and at no other level (`TakenStands`, `TakenUnique`), which
  keeps `Holds`. A line for which there is neither token nor text stands nowhere
  (`RefusedText`, `RefusedBreak`, `RefusedEof`), so a text on which the parser
  recovers has no layout, or ends in an opening line (`RefusedEnd`). The lowering
  adds that without a report the lowered nodes mirror the tree, and that every
  report comes from a flawed line or from the recovery (`Lowered`).

Inductions over data (concatenation of paths, chains of indices, the smallest
position with a property) are written as a smallest counterexample, from the
well-foundedness of the natural numbers.

Only model-checked is liveness under fairness (`CommandReturns`,
`EventuallyReaped`, `CallEnds`, `EventuallyRemoved`, `FrontEndEnds`), which the
prover does not cover, and, with it, everything that depends on the fairness of
the schedulers. Every invariant and every action property of the passing runs is a
theorem.

## Not modelled

* Squiggles and the conversion of rows to values (`pg_client/convert.rs`):
  conversions by library parsers, without state. Diagnostics and reports:
  formatting; their kinds are kept.
* Of the grammar: expressions inside a line, an annotation line before a command,
  tabs, and tree-sitter's error recovery. The generated parser.
* Of the values: floats, bytes, signs, regular expressions, interpolation.
* `PortFreed` assumes that no other program on the host takes the port.
* An unreadable subdirectory is reported and skipped; the exit code does not
  depend on it, and no line of the repository says that it should.

## Plan

1. Done: MQTT session, contract, check and run of scripts, exec, connect retry;
   their type invariants, safety theorems and the first refinement theorem.
2. Done: `ContainerActor`, `PgClient`, `FrontEnd`, `Values`, `Suite`; the safety
   theorems of the first two.
3. Done: theorems for every script (teardown order, modes, branches), every suite
   (gate, exit code, arguments, asserts), the contract for all four actors, the
   order of publishes, ports and images, and the balance of scanner and parser.
4. Done: the layout of every text, both ways: nothing that lowers has lost a line
   (`NothingLost`), and nothing that is laid out well is refused
   (`NothingRefused`).
5. Left: annotation lines, expressions inside a line and the values of rows, which
   need a finer model of a line than its column and its flaw.
