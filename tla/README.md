# ninja-go: a TLA+ model of the build

ninja-go (`src/ninja/`, package `main`) is a Go port of the ninja build tool. It
reads a manifest, finds out which files are out of date, runs the commands that
rebuild them, as many at once as `-j`, pools and load allow, and remembers in two
append-only logs what it ran and what the commands depended on.

This directory holds TLA+ modules of that program, TLC configurations that check
them on small build graphs, and theorems about them that TLAPS proves for every
graph. All file names below without a directory are in `src/ninja/`.

## 1. The system

### 1.1 Components

| Component | Files | State | Operations |
|---|---|---|---|
| Build graph | `state.go`, `node.go`, `edge.go`, `rule.go` | nodes (path, mtime, `dirty_`, in edge, out edges), edges (inputs in three groups, outputs, validations, `outputs_ready_`, `deps_missing_`), pools, defaults | `AddEdge`, `AddIn`, `AddOut`, `AddValidation`, `AllInputsReady`, `RootNodes`, `Reset` |
| Manifest parser | `manifest_parser.go`, `parser.go`, `lexer.go`, `eval.go`, `bindingenv.go`, `edge_env.go` | scopes, rules, the text being read | `Load`, `ParseEdge`, variable lookup with cycle check |
| Dirtiness scan | `scan.go`, `scan_debug.go` | marks of the walk, stack of nodes | `RecomputeDirty`, `RecomputeNodeDirty`, `VerifyDAG`, `RecomputeOutputsDirty` |
| Dependency loader | `graph.go`, `depfile_parser.go` | none | `LoadDeps` from a depfile or the deps log: discovered inputs join the manifest's |
| Plan | `plan.go` | `want_`, `ready_`, `wanted_edges_`, `command_edges_`, `targets_` | `AddTarget`, `PrepareQueue`, `FindWork`, `EdgeFinished`, `CleanNode`, `MoreToDo`, `DyndepsLoaded` |
| Ready queue | `queue.go` | a slice of edges | `Push`, `Top`, `Pop`, `Len`, `Clear` |
| Pools | `pool.go` | `current_use_`, delayed edges | `DelayEdge`, `RetrieveReadyEdges`, `EdgeScheduled`, `EdgeFinished` |
| Build loop | `builder.go` | failures allowed, pending commands, running edges' start times | `AddTarget`, `Build`, `StartEdge`, `FinishCommand`, `ExtractDeps`, `Cleanup`, `LoadDyndeps` |
| Command runner | `command_runner.go`, `real_command_runner.go`, `dry_run_command_runner.go` | running and finished processes, a channel of notices, the map from process to edge | `CanRunMore`, `StartCommand`, `WaitForCommand`, `Abort`; `SubprocessSet.Add`, `DoWork`, `NextFinished`, `Clear` |
| Jobserver client | `jobserver.go` | tokens held | `CreateClient`, `TryAcquire`, `Release` |
| Build log | `buildlog.go` | entries by output, the file | `Load`, `OpenForWrite`, `RecordCommand`, `Recompact`, `Restat` |
| Deps log | `depslog.go` | nodes by id, deps by id, the file | `Load`, `OpenForWrite`, `RecordDeps`, `GetDeps`, `Recompact` |
| Dyndep | `dyndep*.go` | discovered outputs and inputs by edge | `LoadDyndeps`, `UpdateEdge` |
| Executor | `executor.go` | pool channels, in-degrees | `Run` (no caller in the program) |
| Main | `main.go`, `build_config.go`, `exit_status.go` | flags, logs, the state | `RebuildManifest`, `RunBuild`, tools, the restart loop |
| Status | `status.go`, `line_printer.go`, `console_*.go` | counters, the console lock | `EdgeAddedToPlan`, `BuildEdgeStarted`, `BuildEdgeFinished`, `SetConsoleLocked` |
| Tools | `clean.go`, `missing_deps.go`, `graphviz.go`, ... | marks of a walk | `CleanAll`, `CleanTarget`, `CleanDead`, `ProcessNode`, ... |
| File system | `fs.go`, `real_filesystem*.go` | none | `Stat`, `MakeDirs`, `WriteFile`, `RemoveFile` |
| Helpers | `util*.go`, `clparser.go`, `edit_distance.go`, `json.go`, `metrics.go`, `version.go`, ... | none | path canonicalization, escaping, spelling |

### 1.2 How they interact

`main` loads the manifest into the state, opens both logs (loading, and perhaps
recompacting, what an earlier run left) and first tries to rebuild the manifest
itself. Then `RunBuild` calls `Builder.AddTarget` for every target: the scan walks
the graph below it, asks the file system for mtimes, the build log for recorded
commands and the dependency loader for discovered inputs, and sets `dirty_` and
`outputs_ready_`; the plan then enters what is not ready. `Builder.Build` is one
loop on one thread. It takes edges from the plan (which hands them out through
pools and the queue), has the command runner start them, waits for one to finish,
tells the plan, which wakes the edges that waited for it, and appends to both
logs. Each process has a goroutine of its own that waits for it and leaves a notice
in a channel; that, and the signal handler, is all the concurrency there is.

### 1.3 What is hard

* Completions arrive in any order, interleaved with starts; an edge becomes ready
  at exactly one of them, sometimes through a chain of phony and unwanted edges.
* A pool slot is taken in one function, passed on in a second, and given back in
  a third, on success and on failure.
* The loop ends by counters (`wanted_edges_`, `command_edges_`,
  `failuresAllowed`, `pendingCommands`), which have to agree with the sets they
  stand for through failures, duplicates and interrupts.
* A fast process races with the code that files it as running.
* The process may die between any two writes; the next run trusts the logs.

`PROJECT.json` lists the hazards at their lines with the properties that cover them.

## 2. Modules

| Module | Models | Status |
|---|---|---|
| `BuildGraph` | the static graph, `AllInputsReady`, what the scan promises | done |
| `Plan` | `plan.go`, `queue.go`, `pool.go` as actions on the plan's state | done but dyndep and `Reset` |
| `Builder`, `MCBuilder` | the build loop, composing `Plan` with running commands and the logs' records; graphs for TLC | done |
| `BuilderProofs` | theorems about `Builder`: types, counts, forgotten work, the log, the failure budget, pool slots, repeated starts, how the loop ends | done |
| `CommandRunner` | what the runner promises to the build loop | done |
| `RealCommandRunner` | `real_command_runner.go`: lists, channel, goroutines, interrupts | done |
| `RealCommandRunnerProofs` | theorems about it, among them that it keeps the promise | done |
| `SequenceLemmas` | lemmas on sequences and intervals that the other proof modules cite | done |
| `Scan`, `MCScan` | `scan.go`, the deps loader of `graph.go`, the stat state of `node.go`, `State.Reset` | done but dyndep |
| `ScanProofs` | theorems about `Scan` | done |
| `DepsLog`, `MCDepsLog` | `depslog.go` across sessions | done |
| `DepsLogProofs` | theorems about `DepsLog` | all but half of `IdsAgree` in torn logs |
| `BuildLog`, `MCBuildLog` | `buildlog.go` across sessions, and the tools `recompact` and `restat` | done |
| `BuildLogProofs` | theorems about `BuildLog` | done |
| `Main` | `realMain`, `readFlags`, `RebuildManifest`, `RunBuild`: the rounds of the program | done |
| `MainProofs` | theorems about `Main` | done |
| `Manifest`, `MCManifest` | `manifest_parser.go`, `bindingenv.go` and the graph they make in `state.go` | done but `$in`, `$out` |
| `ManifestProofs` | theorems about `Manifest` | done |
| `Lexer`, `MCLexer` | `lexer.go` under the parser's loops | build statements and `let` |
| `Paths` | `CanonicalizePathBytes` of `util.go` | done but slash bits |
| `Depfile`, `MCDepfile` | `depfile_parser.go` and `extractDeps` of `builder.go` | done for gcc |
| `Tools`, `MCTools` | `clean.go`, `missing_deps.go`, the collectors, `graphviz.go`, the critical path | done |

An operator whose name begins with `Mutant` is the definition after it as a plausible
slip would have it. `PROJECT.json` names, for every property, one such operator that
breaks it when it takes the definition's place; nothing else uses them.

How the modules fit together: `Manifest` makes the graph that `BuildGraph` describes by
constants, and its `GraphConsistent`, which `ManifestProofs` proves, is the ground for `BuildGraph`'s assumptions; `Scan`
leaves the marks that `ScanContract` promises to `Plan` and `Builder`; `RealCommandRunner`
implements the `CommandRunner` that `Builder` assumes; `DepsLog` and `BuildLog` are what
`Builder`'s records are appended to and `Scan`'s answers come from; `Main` runs all
of it, and knows of a build only how it ended.

### 2.1 BuildGraph

The graph a manifest describes is given by constants: `RegularInputs`,
`OrderOnlyInputs`, `Outputs`, `Validations`, `Dependents` (the out edges of an
edge's outputs, in the order they are visited), `PoolOf`, `Depth`, `Phony`,
`Restat`. Its assumptions are what the code guarantees: one edge per output
(`State.AddOut`), out edges registered for every input (`AddIn`), at least one
output (`ParseEdge`); `Plan` adds that there is no cycle, which the scan establishes
(`CyclesFound` of `Scan`). `ScanContract` is the interface between scan and plan: an edge is dirty when it is out of date by itself
(`stale`), when its recorded dependencies could not be loaded (`depsMissing`), or
when a regular input is dirty; all its outputs share the mark; and its outputs are
ready when it is clean and its inputs are ready. `Builder`'s `Init` admits every
combination of marks that satisfies it, and `Scan` is checked to leave no other.

### 2.2 Plan

The variables are the plan's fields under their names; a key missing from the map
`want_` is `Absent`. Each method is an operator used as an action. The recursion of
`EdgeFinished`, `nodeFinished` and `EdgeMaybeReady` is unfolded into steps: the
variable `agenda` holds the out edges that the pending calls have yet to visit, in
call order. `FindWork` is as the code has it: it returns the first edge of the
slice and removes the last one; the removed edge is kept in the history variable
`lost`.

### 2.3 Builder

`pc` is the position of the builder's thread: `targets` (adding targets),
`initial` (`ScheduleInitialEdges`), `head` (the outer loop's condition), `start`
(the inner loop), `phony` and `cascade` (inside `FinishCommand`), `wait`
(`WaitForCommand`), `done`. `jobs` maps each slot to the edge of a pending command; slots
are names for `pendingCommands` and limit nothing. What limits is `CanRunMore`, which goes by the
runner's two lists: `fast` are the commands in `finishedQ`, which had ended when `Add` looked at
them, `Slow` the others, in `running`. When `running` is empty one command more may always start
(`real_command_runner.go` 296), so fast commands pass `-j`. They are given back first
(`Given`), and each leaves a second notice in the channel (`echoes`), which finds no edge
when it is received (`SecondNotice`: `FinishCommand` panics). What a command does (success, failure, which outputs of a restat command keep
their mtime) is chosen when `WaitForCommand` returns it. Failures of the program's
own I/O are choices too: a stat (`AddTargetFails`, `StatFails`), creating
directories or the process (`StartCommandFails`), writing a log (`RecordFails`, with
the build log written and the deps log not, as the order of the writes allows).

Abstractions: times and the status output are left out; the command runner is
idealised (a started command is returned with its edge exactly once, slow ones in any order;
there is no load limit, `-l`); a command killed by SIGINT counts as
an interrupt; `StatFails` may happen on every command while the code stats outputs
only when the record needs their mtimes, so it allows more than the code.
A missing file that no rule makes is an error unless only recorded dependencies mention
it (`GeneratedByDepLoader`); then it just makes its dependents dirty.

### 2.4 CommandRunner and RealCommandRunner

`CommandRunner` is the abstraction `Builder` works with: a command is accepted, its
process ends, and the command is given back at most once, only after that.
`RealCommandRunner` models how the code does it, and implements the abstraction.

`process` is the life of a subprocess: `alive`; `exited`, when its goroutine holds the
lock, has set the status and closed `done`; `ended`, when the notice is in `finishCh`
and the lock is free. The goroutine's two steps are `ProcessEnds` and `Notify`; the
rest is the build loop's thread, whose place is `pc`: `added` is inside
`SubprocessSet.Add` between `go` and `select`, `next`, `dowork` and `finish` are inside
`WaitForCommand`, `clear` and `drain` inside `Abort`. `running`, `finishedQ` and
`subprocToEdge` are touched by that thread only, so their mutex is not modelled; the
lock of a subprocess is (`FinishCommand` waits for `ended`). `Abort` sends SIGTERM,
waits 100 ms and kills, process by process; that is one action, `Terminate`, because the
outcome is the same: each will end. The build loop is any client that starts commands
while it may, waits while commands are pending, and aborts where `Build` does. A load
average limit lowers `CanRunMore`, which a client that does not start covers.

### 2.5 DepsLog

`file` is the sequence of 32 bit words of `.ninja_deps`, each with the kind it was
written as. `RecordDeps` puts into `todo` the words the code writes (for a node: size,
path, checksum; for deps: size, output, two halves of the mtime, one id each). Each `Write`
is one word, which is finer than the code's calls, so a write that the file system makes in
parts is covered; `EndSession` may come between any two. `Load` is one action per
record. Its persistent buffer and its short reads are modelled: `f.Read` at the end of
the file returns what there is and no error, so the rest of the record is what earlier
records left in the buffer. Words are also read out of place, when a torn record was
accepted and later ones filled the gap; `Payload` and `AsId` say what the reader takes
them for. `Recompact` is one action, since the new log replaces the old one by a rename.

Abstractions: a path with its NUL bytes is a few words; the node of a path
has an id when the path is in `nodes`; failures of open, stat, sync and rename end the
session; path and mtime words, read as a size, are larger than `kMaxRecordSize` (true of
paths of three characters and more, and of times in nanoseconds).

### 2.6 Scan

`RecomputeNodeDirty` is recursive; `stack` holds the calls in progress, each with the
inputs it has still to visit, and `queue` is the loop of `RecomputeDirty` over the target
and the validation nodes. One action per way a call can go: return at once (`Skip`), stat
a source (`VisitLeaf`), refuse a cycle, enter an edge (with the four outcomes of
`LoadDeps`), and `Leave`, which is everything after the loop over the inputs. What a stat,
the deps log and the build log answer is chosen when the scan first asks, so every
combination of mtimes, records and entries that can make a difference is tried. `Reset`
is the second scan of `RebuildManifest`: it forgets marks and mtimes, but
neither the inputs that were loaded nor `deps_missing_`, as in the code. The inputs are
visited in any order, which shows that the order does not matter.

Abstractions: a log entry is whether it exists, whether its hash is that of today's command,
and its mtime; an error of a stat, or of reading a depfile, is one action (`ReadFails`).
`LoadDepFile` ends where the code panics (see 5).

### 2.7 BuildLog

`file` is the sequence of lines of `.ninja_log`; `eol` is whether the last one has its
newline. `RecordCommand` opens the log on its first call (`OpenForWriteIfNeeded`: a new file
gets its version line) and writes one line per output (`WriteEntry`), and `EndSession` or a
torn line (`TearVersion`, `TearRecord`) may come in between. A line is torn before its fifth
field (a scrap, which no load takes for a record) or inside the hash, which is the last
one. The next session's first line continues a torn one, so one more line is lost with it.
`Load` reads lines as the code splits them, keeps the last entry of an output, and
decides on recompaction by the numbers of entries and of outputs. Recompaction closes
the log, writes `.ninja_log.recompact` entry by entry (`CreateTemp`, `CopyEntry`) and swaps it in (`ReplaceLog`).
The `BuildLogUser` is a parameter of the session, because `NinjaMain` embeds a nil one,
on which `IsPathDead` panics (`IsPathDeadPanics`). `RestatEntry` and `ReplaceTemp` are
the tool `restat`, whose last step has its arguments exchanged, as in the code.

Abstractions: start and end times; failures of open, stat and rename end a session; a hash
torn short is `NoHash`, as no command has it.

### 2.8 Main

`pc` is the position of `realMain`: `flags`, `started` (chdir and tools that need nothing),
`cycle` (the loop's condition and the manifest), `loaded` (build directory and logs),
`logs` (the scan of the manifest's own edge), `regenerate` (its build), `decide` (what
`realMain` makes of it), `targets`, `tool`, `exit`. Manifests are versions: `manifest` is the version of the sources the file was
generated from, `source` the version they have now, `loaded` what is in `state_`. `Edit`
may happen at any moment, `RunAgain` starts the program anew. The decision to go round again is
taken from `dirty`, as the scan left it, because the code reads `node.dirty()` of the
state that was scanned (`main.go` 75). `ScanManifest` has the edge that failed to scan.
`BuildManifest` leaves `result`, the status and whether there is an error text: they do not go
together. Commands that failed leave a success and a text; a directory or response file that
cannot be made leaves a failure and no text (`builder.go` 208, 224, 232). In either the generator may have
written or not. `LeaveManifest` is a restat generator that found the file as it would write
it, so that the node becomes clean, `BuildCrashes` a panic of the loop. `RebuildManifest` is the decision: an
error text ends the program (`main.go` 1665), a success with a dirty node starts the next round
(`Again`, or the end of a dry run), everything else goes on to the targets with what was
loaded, a silent failure and a build started only for an order-only input (`helper`) among it.

Abstractions: a build is its exit status and whether there is an error text; options are the ones control
depends on, a command line has at most `MaxArgs` of them.

### 2.9 Manifest and Lexer

`Manifest`: an action is one round of `Parse`'s loop, on a statement as the lexer delimits
it. `frames` are the parsers on top of each other (`include` and `subninja`), `scopes` the
`BindingEnv`s with their parents, `edges`, `inEdge`, `outEdges`, `defaults` and `pools` the
`State`. `ParseEdge` is the whole function: scope of the edge's own bindings, evaluation
of the paths in it, pool by the edge's own bindings, then the rule's, then the scopes,
refusal of a second producer (`AddOutFails`), the counts of implicit and
order-only inputs, and the phony edge that names itself. A refused statement ends the
program, so what it had done before is left out. `Canonical` stands for `Paths`, `MCManifest` gives it.

`Lexer`: a text is a sequence of symbols, a letter standing for a run of letters. An action
is one round of a loop of `ParseEdge` or of `Parse`; tokens, blanks with continued lines,
comments, identifiers and EvalStrings are operators on the position, as the scanner's tables
have them. What is read goes to `read` under the name of the list it joins.

### 2.10 Paths and Depfile

`Paths` translates `CanonicalizePathBytes`: the function copies components to the front
of its buffer; `BackUp` removes what it removes there for `..`, a separator instead of a
component. `Walk` is the reference: the directory a path leads to.

`Depfile`: an action is one round of the scanner's inner loop, with the end of a
file name (`EndWord`) where the round ends one; `Render` writes a depfile as a compiler
does, and `rules` keeps what it meant. `ExtractDeps` is what `builder.go` does with the result.

### 2.11 Tools

`Tools` has a manifest (which changes), the disk, the two logs as sets, and `user`, the
files written by hand. The clean tools are actions; the walks that only report
(`NodesMissingDeps` with its memo, `Commands`, `Inputs`, `CriticalPathWeights`) are
operators, compared in every state with `Before`, the edges that must run before an edge.
`CollectTarget` and `RootNodes` are the targets they start from. `ProcessNode` leaves out the
edges without a `deps` binding, whose depfile the code would load (`missing_deps.go` 171): that
panics when there is such a file (see 5), and there is nothing to report otherwise.

## 3. Runs

| Run | Instance | Question |
|---|---|---|
| `build` | seven edges: a restat generator with two outputs, an object with recorded deps and a validation edge in a pool of depth 2, two documents in a pool of depth 1 over a phony edge without inputs, a phony edge on top; -j2 -k2, two commands at a time may be fast | safety and liveness of the loop, although `FindWork` drops and repeats edges and fast commands pass `-j` |
| `runner` | `RealCommandRunner`, three commands, -j2, a channel with room for every notice | is each command given back once, -j kept, nothing lost, and does an abort spare none and end |
| `scan` | two discovered headers, a validation, a restat, a generator and two phony edges, a cycle through recorded deps; two scans | does the walk leave the marks the plan is promised, whatever the files and logs hold |
| `deps_log` | two outputs, one of them not live any more, a header with a path of three words | what is remembered across dying sessions |
| `build_log` | two edges, one the other's successor with an output less; three users | is what was written read again, at every moment |
| `main` | a manifest with and without a generating edge, three rounds, two edits, two options; builds with every status, with and without an error text | is the manifest the targets are built from the current one, does an error end the program, does it end |
| `manifest` | every build.ninja of up to four out of 17 statements, an included file | is the graph in order, and each input of its kind |
| `lexer` | every text of up to three symbols, alone and behind the beginnings of a statement; build statements of every shape in twelve layouts | is what is read what was written |
| `depfile` | files of one and two rules, names with every mark that is escaped, many spellings of a path | are the dependencies those the compiler meant |
| `tools` | three manifests that succeed each other over the same logs | do the walks report the truth, do the cleans spare sources |
| `started_twice` | `Builder`, three independent commands under two aliases, -j3 | one disagreement, see 5 |
| `path_mangled` | `Depfile`, a dependency that climbs out of a directory | one disagreement, see 5 |

### 3.1 Properties

Of `Builder`:

* `TypeOK`: among others `wanted_edges_` never drops below zero.
* `NoForgottenWork`: an edge of the plan whose inputs are ready is queued, delayed,
  running, failed, dropped by `FindWork`, or on the agenda.
* `WantedCount`: `wanted_edges_` is the number of edges the plan wants.
* `PoolsBusy`: no pool exceeds its depth, and none lets edges wait with a slot free.
* `SlotsAccounted`: the slots in use are those of the edges that hold one, less at most one for
  each completion of an edge that had failed before (`SlotsFreedAgain`): an edge that is started twice
  because `FindWork` dropped another one, and fails, frees a slot again.
* `OnceUnlessLost`: an edge is started again only after `FindWork` dropped one.
* `RecordedBeforeUse`: both logs are closed upwards along dependencies, at every
  moment the process may die or a write to a log may fail.
* `BuiltIsBuilt`: the loop ends normally only with every target built.
* `KeepGoing`: it ends otherwise, with budget left, only when every wanted edge
  failed or depends on one that failed or was dropped.
* `FailureOverrun`: once the budget is used up nothing is started. Failures beyond it are the other
  commands on `running`, fewer than `-j`, and the fast ones, which `-j` does not count.
* `Termination`: the build ends, whatever fails.

Of `RealCommandRunner`:

* `JobsBounded`: no more than `-j` processes are alive, though `CanRunMore` counts lists
  that lag behind and always allows one command when `running` is empty.
* `Accounted`: a command the loop waits for is on a list or in hand, or its notice is
  under way.
* `NoneSpared`: when an abort waits for the goroutines, every command that is alive has been
  terminated, although commands are filed late and notices come for commands that are not on the list.
* `KeepsPromise`: the runner implements `CommandRunner`.
* `Reaped`, `AbortReturns`: a process that ends is given back; an abort ends.

Of `DepsLog`:

* `Remembered`: unless a record was torn inside its payload, every session knows for
  every output the deps last recorded. Deaths between records, in the header or after a
  size word, and recompactions are harmless.
* `IdsAgree`: no node has two ids, and every id in `deps_` is that of a node.
* `IntactKept`: whatever was torn, a repair never cuts off what was complete before.

Of `Scan`:

* `ContractKept`: the marks are those of `ScanContract`, with "out of date" defined from
  files and logs alone (`OutOfDate`, `NewestBehind`), without the walk.
* `CleanMeansDepsKnown`: an edge with recorded deps is clean only on a record that is not
  older than its output.
* `CyclesFound`, `NothingForgotten`: exactly the cyclic graphs are refused; all producers
  and validations are scanned, and the latter handed to the plan.
* `Termination`: the walk ends.

Of `BuildLog`:

* `Durable`: as long as no line was torn, the file holds at every moment (in the middle of a
  recompaction too) the last complete record of each output, and a session's `entries_` are
  what the next one will load.
* `Genuine`: no torn or glued line passes for a record of a command.

Of `Main`:

* `BuiltFromCurrent`: targets are built from a manifest no older than the sources the last scan
  saw, unless the build of the manifest failed without an error text (see 5).
* `FailureIsFatal`: once there is an error text no target is built, and the exit code says so,
  whatever status `Build` returned with it.
* `GivesUp`: the program ends, whatever the generator does and however people edit.

Of `Manifest`, `Lexer`, `Depfile` and `Paths`, `Tools`:

* `GraphConsistent`: one producer per node, no output named twice, in edges and out edges agree.
* `KindsKept`: an input is explicit, implicit or order-only as it was written, also when a phony
  edge loses the input that is itself.
* `NothingLeaks`: a subninja's rules and variables stay in it.
* `ReadAsMeant`: every path of a well-formed statement is read whole, into its list, in any
  layout. `Advances`: each round of the loops reads something, on any text.
* `ParsedAsMeant`: the parser gives back the dependencies the compiler meant, each once, and
  refuses only what it says it refuses.
* `OneNodePerFile`: two spellings of a file are one node, those of two files two, where no
  path climbs out of a name.
* `MissingDepsFound`: exactly the outputs with an unreachable generated dependency, whatever the
  memo holds. `OrderedByDependency`: commands, inputs and weights respect dependencies.
* `SourcesKept`: no clean removes a hand-written file that the manifest reads and does not make.

`TypeOK` of `RealCommandRunner`, `DepsLog`, `Scan`, `BuildLog` and `Main` documents their
variables and belongs to no run; those of `Main`, `BuildLog`, `Scan` and `DepsLog` are theorems.

### 3.2 Bounds and fairness

A build graph is finite and each of its edges finishes a bounded number of times, so
of the counters only one is bounded: `MaxFast`, the fast commands pending plus the second notices
that were not received yet. With two of them three commands can be pending at -j2, so that of four slots one is always free,
and three can fail with a budget of two. They hold the shapes on which
the code branches: an order-only edge, a diamond, an edge with two outputs that
share a consumer, unwanted edges between wanted ones, phony edges at the top, in the
middle and without inputs, a pool that is full and one two of whose slots are free,
a validation node, more ready edges than slots. Every set of stale edges and of
missing deps is tried on each graph.

`FairSpec` assumes `WF_vars(Next)`: the builder's thread runs on, and when it waits
some command ends or is interrupted. The first is Go's scheduler; the second is what
`Build` itself relies on, since it waits without a limit.

`RealCommandRunner`: with -j2 and three commands one slot is used twice, while a
notice of its first command may still be in the channel. A channel of three stands for
the code's 64 as long as 64 notices are never unread; 5 says what
happens otherwise. Its `FairSpec` assumes that the build loop's
thread and the goroutines run on, and that a process ends once it has been killed; a
command need not end by itself.

`DepsLog`: `MaxWords` bounds the file at which a record may be begun; with 16 it holds
the records of all three nodes and two or three records of deps. One record is torn
between two recompactions. A log is recompacted at more than one record, and more than
one per output, instead of 1000 and 3, so that files this short reach it. One mtime
is enough, since the nodes can differ.

`BuildLog`: two records per session and one recompaction fit into the four lines at which a
record may be begun (`MaxLines`); a log is recompacted at more than two entries and more than
one per output, instead of 100 and 3. One hash and one mtime are enough: records of an output
differ by its being written again with another mtime, 0 (dry run) or 1.

`Main`: `CycleLimit` 3 stands for 100, so that the limit is reached; with two edits the manifest
can be stale, regenerated from stale sources, and current. `WF_vars(Step)`: one goroutine
runs `realMain`, and a build ends (`Termination` of `Builder`); edits and new runs are not fair.

`Manifest`, `Lexer`, `Depfile`, `Tools`: the inputs are enumerated, each action consumes part
of one (`Tools` goes on for ever over seven nodes). Four statements are enough for a rule, a variable, an edge and
a second producer, or an include between two uses; three symbols for the longest token and what
may follow it (`$\r\n`, `||` and a blank). All but `tools` stop where the program
has read its input, so deadlock is not checked in them.

`Scan`: mtimes are 0 (no file) to 3, so that outputs, inputs and records can be older,
equal and newer; each file, record and entry takes the values that fall on both sides of
each comparison it meets. `MaxRescans` is 1, as `RebuildManifest` resets at most once before
the targets are scanned. Its `Spec` assumes that the one thread runs on (`WF_vars(Step)`).

## 4. Proofs

`BuilderProofs` proves for every graph that satisfies the assumptions of
`BuildGraph`, every `-j` and `-k`, every scan result and every outcome of the
commands:

* `TypeCorrect`: `Spec => []TypeOK`
* `WantedCounted`: `Spec => []WantedCount`
* `PoolsAreBusy`: `Spec => []PoolsBusy`
* `NothingForgotten`: `Spec => []NoForgottenWork`

The inductive invariant `IInv` adds to type correctness and `WantedCount`:

* `Phases`: in which phase the lists of each phase are empty. Without it, `PoolsBusy`
  would have to hold in the middle of `ScheduleInitialEdges`, where edges are delayed
  before the pools are asked.
* `PoolsInOrder`: `PoolsBusy` for pools that `ScheduleInitialEdges` has passed.
* `Adding`: while targets are added, planned edges are those that are not ready,
  wanted exactly when dirty. It gives the start of the loop: a planned edge whose inputs
  are ready is dirty (by `ScanContract`), hence wanted, hence scheduled.
* `Remembered`: `NoForgottenWork`, and that every edge marked as scheduled is held
  somewhere. The second part is what makes the first inductive: `EdgeMaybeReady` skips
  a scheduled edge.

The step that matters is `EdgeSucceededKeeps`: an edge whose inputs become ready by a
completion consumes an output of the finished edge (`DependentsAreConsumers`), so it is
put on the agenda in the same step. `OutputsNonempty` excludes an edge that is dirty
without a dirty output.

It goes on from `IInv`, under the same assumptions:

* `LogClosedUpwards`: `Spec => []RecordedBeforeUse`. An edge comes into hand (running, recorded,
  being finished) only from the queue, where its inputs are ready (`HandedOnReady`, `HeldReady`);
  a ready edge has ready inputs (`ReadyUpwards`), so everything upstream is ready; and what is ready
  is recorded, was clean, or is the edge `FinishCommand` is working on (`ReadyRebuilt`,
  `UnwantedClean`), while which nothing is started. `InOrder` states what each action keeps to.
* `BudgetKept`: `Spec => []FailureOverrun`. The inner loop is entered with budget left; a failure of
  a command on `running` shortens that list, one of a fast command leaves a notice (`FInv`).

Four more are about how edges move and how the loop ends:

* `NoSlotLeaks` (`SlotsAccounted`): the slots in use are those of the wanted edges that are queued, in work or
  dropped, and never more. They are fewer only when one edge was dropped and another failed, since an edge that was
  started twice and fails gives its slot back twice (`SlotsHeld`, `Exact`), and then by no more than there
  were completions of failed edges (`AgainFails`, `AgainLeaves`). A pool delays an edge once,
  and only before it had its turn (`DelayedOnce`).
* `NoSecondStart` (`OnceUnlessLost`): while nothing was dropped an edge is in one place: queued once, or in one
  slot, or being finished, or failed (`HandedOnce`).
* `BuiltMeansBuilt` (`BuiltIsBuilt`): with nothing wanted left, an edge of the plan that is not
  ready would be wanted or have one upstream that is; the plan has no cycle, so there is none.
* `StopsOnlyWhenBlocked` (`KeepGoing`): take, among the wanted edges that are not blocked by a failed
  or dropped edge, a lowest one (the graph is well founded): its inputs are ready, so it is queued,
  delayed or running (`NoForgottenWork`); nothing runs and nothing is queued when the loop gives up,
  and what is delayed waits for a slot that a running or dropped edge holds (`PoolsBusy`).

`ScanProofs` proves for every finite graph, with every set of recorded dependencies and whatever the files
and logs hold:

* `ScanTyped`: the types, of the files and records that are found in mid-walk too.
* `NothingSkipped` (`NothingForgotten`): all producers and validations of a visited edge are visited.
* `CyclesAreFound` (`CyclesFound`): what is refused has a cycle, and no edge on a cycle is ever marked as done.
* `CleanOnlyWithDeps` (`CleanMeansDepsKnown`).
* `ContractIsKept` (`ContractKept`), for graphs in which no phony edge has a deps record.

The invariant is `Walk`: the calls in progress are the edges marked so, each once (`InProgress`);
each is there for an input of the one below (`Chain`); a visited edge has no input that
was neither visited nor is still to be (`Visited`, with the discovered inputs that `LoadDeps` adds), and
what the queue has yielded was visited (`Handed`, `AtEnd`). A cycle through the edge on top of the
stack is the part of the stack above its first call (`CycleShown`). In the other direction, take the
edge of a cycle that would be the first to be done: the next one on the cycle would have had to be
done before (`NoCycleDone`).

`ContractIsKept` rests on `Marks`, which says of every finished edge what its marks are, by the mtimes and marks
that its inputs have now (`Settled`). It is inductive because the inputs of a finished edge are known, and what is
known is not touched until `Reset` (`KnownFixed`, `SettledStays`). What remains is that the walk, which looks one
edge down, compares with what `ContractKept` asks for, the newest file behind any chain of phony edges:

* `NewestBehindIs`: the recursive `NewestBehind` has a value, also where phony edges go in circles (a greatest mtime
  of what is `Behind` a node solves it).
* `CleanIsNewest`: the mtime of a clean node is its `NewestBehind`. Edges with an output for which it is not
  would each have another such edge below, which is a cycle of finished edges.

The hypothesis is there for a phony edge whose output another rule made in an earlier build, with a deps record
that is out of date now: its recorded inputs are no inputs of today's graph, and it passes for an edge without inputs.
A phony edge runs no command, so nothing is recorded for it otherwise.

`BuildLogProofs` proves for any number of sessions, records, torn lines and recompactions:

* `LogTyped`: `Spec => []TypeOK`.
* `NoRecordLost` (`Durable`). `DInv` adds what is true in the middle of a recompaction: the entries that
  were copied are those of `entries_` that were to be (`Copied`), the ones still to copy are listed.
* `NoRecordInvented` (`Genuine`): the lines that a load takes for records are those that were
  recorded, also where a torn line was continued by another (`GInv`, `Written`).

`DepsLogProofs` proves for any number of sessions, records, deaths between two words and recompactions:

* `TypesKept`: `Spec => []TypeOK`, in every file a torn log can become.
* `RememberedAlways`: `Spec => []Remembered`.
* `IntactNeverCut`: `Spec => []IntactKept`.
* `OneIdPerNode`: no node ever has two ids, the first half of `IdsAgree`; torn logs included.
* `IdsAgreeUntilTorn`: `Spec => [](~torn => IdsAgree)`, both halves.

A log is described by what its reader goes through: `Log(f, L)` says that `L` is the list of the states
of `Load` (place, `nodes_`, `deps_`) in front of each record of `f`, from `Start` on. The invariant
`Inv` has three parts:

* `TypeInv`: types, and `nodes_` without repetitions.
* `Sound`, while no session has died inside a payload, by `pc`. In a closed file the last state of some `L` knows
  what `stored` knows, and behind it there is at most a lone size word (`Cut`); while loading, `Load` is in one of the
  states of `L`; while writing, the file with `todo` behind it is a log, and the file ends in some record of
  it (`Written`). The records between the last complete call and its deps record are nodes, which
  change nothing that is remembered (`Quiet`), so it does not matter at which of them the session dies.
* `Torn`, afterwards: the file has kept the records in front of the torn one, with their states,
  and `Load` stands at one of them or behind, so a repair cannot cut there.

The lemmas that carry it: `AppendRecords` (what `RecordDeps` writes extends the log by states that know the new
deps), `LoadsRecord` (`Load` takes the step that the record was written for), `NewLogFacts` (a
recompacted log is a log that knows the deps it kept), and `EndInRecords` (where a session can die).
`NewLog`, `Records` and `WithIds` are recursive functions on positions; what they compute is shown with
`RecursiveFunction` and `IntervalInduction` of `SequenceLemmas`.

`ManifestProofs` proves for every build.ninja, all included files and every spelling of the paths:

* `NothingLeaksOut` (`NothingLeaks`): parsers whose scope is the first one read files that `build.ninja`
  includes (`ReadInMain`); a subninja has a scope of its own, and an edge's comes after it.
* `GraphAgrees` (`GraphConsistent`) and `KindsStay` (`KindsKept`). The invariant `Graph` adds that an edge's
  inputs are nodes, so a new node has no consumers yet, and that in and out edges are edges.

What `Without` does to the kinds of inputs is induction over a sequence, which `IntervalInduction` of
`SequenceLemmas` allows: it is about a set of numbers instead of a predicate, and takes no operator.

`MainProofs` proves for every limit of rounds and number of edits and options: `Typed` (types, and no more
rounds than `kCycleLimit`), `BuildsFromCurrent` (`BuiltFromCurrent`) and `FailuresAreFatal`
(`FailureIsFatal`). The invariant `MInv` adds what the properties rest on: `LoadedIsOnDisk` (between
loading and scanning nobody writes the file), `CleanIsCurrent` (a manifest that is built although it is
clean, for an order-only input, is the current one, and so is one that a restat generator left), and
`SeenIsPast` (what was seen of the sources is not newer than they are).

`RealCommandRunnerProofs` proves for any set of commands, `-j` and channel capacity:
`JobsAreBounded`, `NothingLost` (`Accounted`), `PendingCounted`, `NoneIsSpared` (`NoneSpared`), and
`PromiseKept`: `Spec => Promise!Spec`. The invariant `RInv` adds where a process can be:

* `InHand`: the thread holds a subprocess exactly in `added` and `finish`; one that is
  being added has been started, is on no list and was never given back.
* `Fresh`: a process that was not started is nowhere, an edge in the map has not been
  given back, and a process with a notice in the channel has ended.
* `Filed`: every process that is alive is on `running`, or just being filed, each is there
  once, and the list is within `-j`. This carries `JobsBounded`: `CanRunMore`
  compares lengths of lists, not processes.
* `ClearSees`: that is still so when `Clear` copies the list.

`PromiseKept` maps the edges in the map and those given back to `accepted`; the steps
that matter are `FileProcess` (a process is filed once) and `FinishCommand` (an edge leaves
the map when it is given back, so a second notice of the same process gives nothing back).

With TLC stay:

* liveness and ENABLED, which the prover does not do: `Termination` of `Builder` and of `Scan`, `Reaped`,
  `AbortReturns`, `GivesUp`;
* what is defined by RECURSIVE operators, which the prover cannot use: `Lexer`, `Depfile` with `Paths`, `Tools`;
* the second half of `IdsAgree` of `DepsLog` (ids in `deps_` are those of nodes) in logs with a torn record: `Load` does
  not compare the output's id of a deps record with the nodes it has, and there the id may come from a buffer that
  earlier records left.

The assumptions of the theorems are those of the modules: `BuildGraph`'s; that the sets of `Scan` are finite and
its records are about its nodes (`ScanConstants`); that hashes and the like are not the values that stand for
none (`LogAssumption`, `NilsAreNone` of `BuildLog`); that the lexer delimits lists (`ManifestConstants`); that paths
differ and are not empty, and mtimes are natural numbers (`DepsLogConstants`; its bound of four nodes is for reading
ids out of place, and no proof uses it). TLC evaluates them in every run.

## 5. Where the code disagrees with what it says

The two with a run; `PROJECT.json` quotes the lines.

* `started_twice`: `FindWork` returns the first edge of the queue and removes the
  last. With two ready edges the first is started twice and the last never.
* `path_mangled`: for `..` after a name, only the separator is removed: `a/../b` becomes
  `ab` (`util.go` 328), and a dependency becomes the node of another file.

Stated in the modules and violated there; TLC shows it when the property is added to the
run of its module.

| Property | What the code does |
|---|---|
| `Builder!FailureStatus` | nothing assigns `exit_code_` (`builder.go` 178): `Build` returns success with failed commands, and only its error text tells |
| `Builder!RestatGoesOn` | the scan's "clean" is taken for an error (`plan.go` 338), and a restat command that changed nothing ends the build |
| `RealCommandRunner!ResultHasEdge` | a process that ends early is delivered twice, the second time without an edge, and `FinishCommand` panics (`Builder!SecondNotice`) |
| `Main!SilentFailureIsFatal` | when the build of the manifest fails without an error text (a directory or response file cannot be made, `builder.go` 208, 224, 232), `RebuildManifest` returns false (`main.go` 71) and `realMain` builds the targets from the old manifest, in the state the failed build left |
| `DepsLog!PrematureEndIsNoticed` | a short read is not noticed (`depslog.go` 300), and a torn record is completed with words of earlier records; a negative id or a size below 4 read out of place then panics (`NegativeId`, `SizeWraps`) |
| `DepsLog!RepairIsGood` | the log is truncated behind the bad record, so the next load fails at the same place and what was recorded in between is lost |
| `Scan!DepfileIsLoaded` | the path of a depfile's output is canonicalized into a nil slice (`graph.go` 115), so the second build of an edge with a depfile and no `deps` binding panics; `missing_deps.go` has the same call |
| `BuildLog!RecompactReturns` | `NinjaMain` embeds a nil `BuildLogUser`: recompaction panics in `IsPathDead` (`buildlog.go` 275) |
| `BuildLog!DryRunKeepsLog` | `-n` writes `.ninja_log`: `RecordCommand` opens it on demand |
| `BuildLog!RestatKeepsEntries` | `Restat` passes the arguments of `ReplaceContent` in the wrong order (`buildlog.go` 337): the log is moved over its new version, and there is no log any more |
| `Depfile!BackslashesKept` | before a blank one backslash is lost (`depfile_parser.go` 77, 90) |

Seen while modelling:

* When the last wanted edge is phony, the `break` at `builder.go` 140 leaves only the inner
  loop, and a complete build ends with "stuck [this is a bug]" (`Builder`'s outcome `stuck`
  with nothing wanted). A build with failed commands is called "stuck" too unless the
  failures are exactly as many as `-k` (`GiveUp`).
* With `-j1 -k1` several fast commands are started before one is waited for, and when two of
  them fail `failuresAllowed` is -1: one more than the budget fails, and the message is "stuck".
* After `FindWork` dropped an edge, a started edge comes back a second time, and a failed one then
  frees a slot of its pool a second time: more commands than the depth can run in it.
* `Clear` waits for goroutines that wait for room in a channel nobody reads any more: with a
  `ChannelCap` below `-j`, `AbortReturns` is violated, as it would be with more than 64
  commands running.
* A torn last line of `.ninja_log` is continued by the next record, which is lost with it; a
  torn version line makes the next load drop the whole log.
* `-n` with a dirty manifest exits with 0 and lists nothing (`main.go` 1670); `State.Reset`
  leaves recorded deps in place, so the second scan inserts them again.
* `cleandead` deletes a hand-written file that an old manifest made and the new one does not mention.
* A phony edge that names itself after `||` keeps an order-only count that is one too high
  (`manifest_parser.go` 424); `rule phony` is accepted in a subninja; a file that includes
  itself is read without end.
* The output `$:` alone is refused as an empty path (`manifest_parser.go` 235), `${}` is accepted as a
  variable without a name.
* `TestLexer_Comments` expects a NEWLINE for a comment, which `ReadToken` skips with its line, and
  `TestLexer_Whitespace` expects BUILD where blanks begin a line, which are an INDENT (`lexer_test.go` 141, 186).
* `DoCleanTarget`, `PathExistsBetween` and the list of targets do not end on a cyclic graph.

## 6. Plan

What is left, in this order.

1. An abstract specification of a build (what may be started when, and what a finished build
   has built), implemented by `Builder` as far as `FindWork` loses nothing.
2. Theorems: `IdsAgree` of `DepsLog` in torn logs.
3. The two logs together: a command recorded in one and not in the other must be run again.
4. The cycle check of rule variables (`edge_env.go`); `Executor` and `Jobserver`, should the program come to use them.

## 7. Not modelled

* Dyndep (`dyndep*.go`): its parser always fails, and the manifest parser panics on an edge with a
  dyndep binding (`manifest_parser.go` 461), so the plan's and the builder's dyndep
  operations are never reached.
* Jobserver (`jobserver.go`): `ParseNativeMakeFlagsValue` refuses every mode it recognises, so
  there is never a client.
* Executor (`executor.go`): no caller in the program.
* Status, line printer and console: counters and text no decision depends on.
* Output formatting, metrics, spelling suggestions, shell escaping, msvc output, platform files: text and I/O
  without state that outlives a call.
* The load average, the files `Cleanup` removes after an interrupt, `Plan.Reset` (tests only).
