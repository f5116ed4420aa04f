# A formal model of mlperf-sysinfo

`mlperf-sysinfo` describes a system for an MLPerf submission: it reads a config,
checks it and the nodes it names, drives an external automation (`mlc-scripts`)
that collects hardware facts over SSH, judges what came back, and publishes one
JSON file. The models here are about what can go wrong on the way: nodes that
answer the check and then fall silent, files an earlier run left behind, an
automation that raises half way, processes that outlive it and hold its pipe,
two captures in one process, a process that dies between two writes.

Sources are quoted relative to `src/mlperf_sysinfo/`.

## The system

| Part | State it keeps | Operations | Hard behaviours | What makes it correct |
|---|---|---|---|---|
| capture (`collector.py`) | the output directory and its scratch directory, the working directory, a temp file | `capture()` and what it calls | leftovers of earlier runs, partial collections, exceptions at every step, crashes | only fresh, truthfully stamped, consented-to files are published; nothing is left behind |
| run log (`runlog.py`) | the log file, fds 1 and 2, a pipe, a thread | `open`, `capturing`, `_pump`, `finish` | pump against main thread, late writers, fd reuse, a full pipe | nothing lost or misattributed, the terminal comes back, the capture returns |
| log routing (`logs.py`) | a buffer, the package logger's handlers | `setup`, `attach`, `detach`, `point_terminal_at` | replay order, two handlers for one record, a redirected terminal, a bounded buffer | each record reaches terminal and log once, in order |
| pre-flight (`preflight.py`) | a `CheckReport`, a thread pool | `run_check` and the probes | probes in any order, a probe that raises, repeated targets, overlapping rules on one field | a passing check vouches for config and nodes; statuses are attributed to the right node |
| configuration (`config.py`) | none after loading | `load_config`, `_resolve_extends`, `deep_merge`, `all_targets` | inheritance chains, cycles, sections left empty | the nearest document wins, nothing inherited is lost by accident |
| output (`output.py`) | none | `shape` and the three builders, counts, the stamp, the field tables | counts that are text, joined or missing; a document of another field set | the file says what was collected and what the config said |
| report (`report.py`) | none | `validate`, `summarise` | judges a file written under another profile or an edited config | agrees with `check` |
| command line (`cli.py`) | the config file and the output file | `init`, `check`, `capture`, `show`, `validate`, `profiles` | exit codes from exceptions | the code says what became of the files |
| profiles (`profiles/`) | none | `load`, `available` | a built-in name or a path; names that collide | `validate` finds the rules of the capture |
| errors, suggestions, styling | none | | | |
| `mlc-scripts` (external) | | `mlc.access` | fails, raises, writes less than asked | |

How they interact: `cli.capture` loads a config and calls `capture()`, which calls
`run_check()`, refuses or narrows the targets to those that answered, opens a
`RunLog` (whose `_begin` calls `logs.attach`, replaying the buffer), drops the stale
intermediate, writes a temp node config, changes directory, and calls `mlc.access`
inside `RunLog.capturing`. It then reads the intermediate the automation wrote,
counts nodes and accelerators, writes the deliverable, moves the power files out
of the scratch directory and returns; `RunLog.__exit__` writes the footer. Output
of the automation comes through the pipe and the pump; the package's own records
go straight to the log through a handler and to a copy of the real terminal.
`cli.validate` later reads the file alone, finds a profile by the name stamped in it
(or by `--profile`), and judges it by tables in `output.py` that are not those by which
`check` read the config and the builders wrote the file.

## Modules

| Module | Models |
|---|---|
| `Publication` | the abstract promise: one file, replaced only by a truthful description somebody asked for |
| `Capture` | `capture()`, run after run over one output directory; `Implements` is the refinement of `Publication` |
| `MCCapture` | instances of `Capture` for TLC |
| `RunLog` | `RunLog` with descriptor numbers, pipe, pump thread and late writers |
| `Logs` | `logs.py`: buffer, handlers, redirection |
| `Preflight`, `MCPreflight` | `run_check`: evaluation of fields, the probe pool, the report |
| `ConfigLoad`, `MCConfigLoad` | `load_config`: `extends`, merging, embedded sections, `${VAR}` |
| `Deliverable` | `output.py` and `validate`/`show` of `report.py` as operators; the built-in profiles as data |
| `Commands`, `MCCommands` | a session of commands over one config file and one output file, with exit codes |
| `Layers` | one mapping laid over another, for `ConfigLoad` and `Deliverable` |
| `CaptureProofs`, `RunLogProofs`, `LogsProofs`, `PreflightProofs`, `ConfigLoadProofs`, `CommandsProofs` | theorems about the module each is named after |
| `LeastElements` | induction over the natural numbers, as a fact about sets |

`Commands` composes `Deliverable` with an instance of `Preflight`: what `check` refuses is
`Preflight`'s `MissingRequired` and `Placeholders`, not a copy of them. `Capture` and `Commands`
describe the same function at two grains: `Capture` follows it step by step with
leftovers, crashes and consent, and keeps of a document only which machines it is about;
`Commands` takes one step per way a capture can end and keeps what is in the document.

A definition preceded by "Rejected variant" is not part of the model: it is what a
plausible bug would make of the definition after it, kept to show that the
properties notice.

### Capture

One action per step at which something visible changes or control can leave:
`Refuse`/`Accept` (`collector.py:322-355`), `OpenLog` (`runlog.py:134-173`), `DropStale`
(382-387), `BuildRequest` (389-397), `MlcMissing`/`EnterAutomation` (399-407), `Cleanup`
(408-420), `RejectCollection`/`AcceptCollection` (427-504), `TruncateDeliverable` and
`FillDeliverable` (the two halves of `write_text`, 506), `LiftKeepFile` (509-516),
`Finish` (518-536) and `Fail` (`RunLog.__exit__`). `Raise` is an exception at a step
with no handler of its own (Ctrl-C, a full disk); `Kill` is the process dying at any
step, after which the next run starts from whatever is on disk. Between runs only the
directories, the logs and the temp files persist.

The automation is nondeterministic: while it runs it may write the intermediate
about any subset of the machines it was asked for, readable or not, with or without
accelerators, any number of times, may write power files if Redfish was asked for,
and may return 0, return an error or raise. The one thing assumed is that it
reports no machine it was not asked for; `nodes_collected` is then the number of
machines in the file. `_locate_raw`'s path from the automation's environment is taken
to be the intermediate in the scratch directory. Targets are distinct. A request keeps
what its answer depends on: the targets, the node asked for its serving config, whether
Redfish is asked for, and whether a node config file goes with it.

### RunLog

The kernel's descriptor table is explicit, with the lowest free number handed out,
because the pump thread keeps a *number* (`echo_fd`) across the main thread's
`os.close`. A chunk of output is a piece with its place and whether a newline ends it,
so that lines cut across reads are told apart. `kids` are processes the automation
started that may outlive it with the pipe open; they are the only reason for
`pump.join(timeout=10)` to time out in the model: ten seconds are taken to be enough to
drain a pipe nobody writes to any more. `OpenFile`/`CloseFile` stand for the files a
capture opens afterwards, which take descriptor numbers from the same table. An echo to
a number that is free, or names the read end of a pipe, fails and ends the echo
(`runlog.py:302-306`).

### Logs

A record is its level, whether it is `STYLED`, and which capture it was made in. It
goes to the buffer always, to the terminal handler if it passes its level and filter,
and to the run log's handler while attached. While stderr is redirected, what is
written to it comes back to the file through the pump.

### Preflight

A field holds nothing, an answer, an answer the benchmark's rules refuse, or starter
text (short, or longer than twenty characters). `Evaluate` is lines 282-379; `Take`,
`Answer`, `Collect`, `Abandon`, `Leave` are `ThreadPoolExecutor.map` inside its `with`:
workers take targets in order, the calling thread collects results in order, an
exception cancels what has not started and waits for what has.

### ConfigLoad

`Read` is `_read_yaml` with `drop_empty_sections` and `_unwrap` (`config.py:595-622`); `TooDeep`,
`Follow`, `Top` and `Merge` are `_resolve_extends` (625-639), which reads the whole chain
going down and merges coming back, with `docs` as its stack; `Interpolate` and `Validate`
are the rest of `load_config` (642-665). A document is a function from sections to `Null` (written
without entries) or to the keys written in it, so `deep_merge` is a union of functions
and an absent key is one outside the domain. Four keys stand for the kinds the code tells
apart. Every value carries the file it was written in, which the properties compare with
`Line`, the chain computed from the disk alone. The `report_dir` of a host document is
lent when it has a value and the embedded section has no `output`, as `_unwrap` tests it: an
`output:` emptied of its entries is one. `NearestWins` describes this; `config_emptied` is
the run that holds it against what the docs say of such a section.

`model_validate` may accept or refuse any merged config. Two cases are left out: an
embedding key that is not a mapping, and files that exist and cannot be read (their
`OSError` is not caught by the loader).

### Deliverable and Commands

A cell of a document is where its text came from and what the checks make of it: an
answer, starter text or nothing from the config, `found` or `undetected` from a probe,
`default` for the text the automation writes where it knows nothing ("Insert ...
here"). Of the probed fields two stand for all: one whose probe can fail, and the
processor's name, which `validate` asks for. Fields a config answers are all kept.
The overlays (`output.py:295-370`, `511-531`) and the tables (`582-625`) are functions from
field to config path, so a disagreement between them is a difference of two functions.

The automation is external. Its documents follow `collector.py`, `output.py` and the
fixtures of the tests: the nested field set for `endpoints`, the flat one otherwise, the
nested one for everybody from releases without the variations (`output.py:543-549`);
defaults where the config owns the field; the fields sent to it handed back
(`collector.py:238-283`), but for a `node_config` left unset, which it makes from the
`nodes.groups` it is sent (`Described`, `docs/configuration/endpoints.md:129`); counts of
differing node types joined by commas when flat (`docs/outputs.md:274-276`). A count is a number,
a detection failure, or other text (`Unparsed`), which `_as_int` makes a default. An answer is one cell
value however it is spelled: `normalize_training_status` maps aliases to the status they
stand for, and the training division is put in lower case.

The state of `Commands` is the two files, what the output file was made from (history), and
the command that ended last with its exit code (`cli.py:499-523`). `InitConfig`, `RunCheck`,
`Show` and `Validate` are the commands of those names; `CaptureRefused`, `CaptureFails`,
`CaptureTorn` and `CaptureAnswered` are the ways a capture ends, the last with the code of its
verdict or cut short after its file was written (`Endings`, `collector.py:509-536`); `EditConfig` and `EditFile` are
what a submitter does in between: write another config, fill in the starter, fill in
what came out blank. `profiles` prints and changes nothing.

## Runs

| Run | Shows |
|---|---|
| `capture` | one capture under every admissible config, and two in a row under five of them: `CompleteMeansWhole`, `PartialByConsent`, `DeclaredAcceleratorSeen`, `NothingLeftBehind`, `FreshHardware`, `AnswerIsTrue`, `LogMatchesAnswer`, `ReplacedOnlyByVerified`, `LiftedBesideDeliverable`, the refinement `Implements`, and `RunEnds` |
| `runlog` | two captures of one process, the second with `--verbose`: `OutputWhole`, `LogShape`, `DescriptorsReturned`, `CaptureReturns`, `PipeDrains` |
| `logs` | `FileInOrder`, `TerminalTold`, `NothingForgotten` |
| `config_load` | every way four files can extend each other, and everything a chain of three can say: `NearestWins`, `UnresolvedExact`, `RefusedForCause`, `LoadEnds` |
| `preflight` | `NeverOverstated`, `OkMeansReady`, `StatusesMatch`, `KeptAnswered`, `NoProbeOutlives`, `CheckEnds` |
| `commands` | sessions under the built-in profiles and three of a working group's own: `CheckedMeansValid` (`check` and `validate` agree about one file), `ValidMeansHardware`, `SizeHonest`, `SplitHonest` (`show` attributes to the config what it said), `CodesTell` |

`CheckedMeansValid` and `SplitHonest` are about files captured under a profile that asks for
the field set it publishes (`Coherent`) and whose stamped name still finds that profile;
`ValidMeansHardware` and `SizeHonest` are about every file. The two make one exception, for
a `node_config` that the automation made from the config's `nodes.groups`. `PartialByConsent`
has a second half, about what is asked: a node that the check dropped is asked about neither
over SSH nor as the serving node, because the automation ends a run in which it cannot reach
one (`collector.py:247-256`). `NothingLeftBehind` asks as well that the node config is there while
the automation works. `CodesTell` excuses a code other than 0 beside a complete file only for
a run cut short after it had written it.

Runs that end in a counterexample, each about a sentence of the source the code does
not keep:

| Run | Property | The trace |
|---|---|---|
| `capture_stale_power` | `LiftsOnlyItsOwn` | a run fails after the automation wrote power files; the next one, which may not even ask for Redfish, finds them in the scratch directory and publishes them (`collector.py:510` against 382) |
| `capture_logs_kept` | `LogsKept` | two runs start in the same second; the second opens the first's log with `"wb"` (`runlog.py:69,157` against 20) |
| `runlog_echo` | `EchoOnlyToTerminal` | `join` times out in a verbose capture; `saved_out` is closed; the next capture's pipe gets its number; the first pump echoes into the second log (`runlog.py:291,304` against 256) |
| `config_emptied` | `EmptiedIsAbsent` | what has every entry commented out counts as there: `nodes.ssh` in a config that extends one with targets becomes an empty list instead of the inherited one (`config.py:535` against `docs/configuration/index.md:219`), and `output:` in an embedded section keeps the host's `report_dir` from being lent (`config.py:616` against 551). TLC shows the first it meets; either by itself violates the property |
| `mixed_counts` | `MissedMeansNone` | two node types with 8 and 4 accelerators, a flat profile: the joined count is read as zero and the capture is refused for having no accelerator (`output.py:224` against `collector.py:487`) |
| `failed_probes` | `FailedProbesListed` | a training capture whose memory probe failed everywhere: the field is blanked, and `validate` is silent about it (`report.py:161` against `docs/outputs.md:338`) |

The timeout behind `runlog_echo` has a second effect that no run is spent on: the pump can
still write between the footer and the close (`runlog.py:186-203`), although the log
"closes with the outcome" (13-16).

The trace of `runlog_echo` needs two captures in one process, which the command line
does not make and `capture()` as a library allows.

More observations that have no run of their own:

* The buffer of `logs.py` goes on taking records while a log is attached and replays them
  into the next capture's log (`logs.py:176,256`).
* Starter text as a training availability is never counted as satisfied but is subtracted
  (`preflight.py:320-322`), so `satisfied_count` can be too low; `NeverOverstated` is the
  direction that matters.
* A file captured under a profile from a path is stamped with the profile's name, so
  `validate` without `--profile` ends with "unknown profile" unless the two are equal, although
  `report.py:3-5` says the original config is not needed.
* An `OSError` while the file is written is not caught by `main` and ends in Python's exit
  code 1, which `cli.py:500-504` keeps for problems that the run found (`CaptureTorn`). After the
  write, an `OSError` ends in 1 and an interrupt in 130 with a complete new file on disk
  (`Endings`): the code alone does not tell a script that there is none.
* A count of accelerators that is text without a number adds nothing to `system_size` and
  is not reported as undetected either (`output.py:91-96,230`), so a node type can read as one
  without accelerators, which `_count_is_undetected` (235-250) means to prevent.
  `SizeHonest` says what is added; it says nothing of such text.
* A config that leaves `run.node_config` to its default "from `nodes.groups`" gets a summary
  written by the automation, which `show` prints under "from your config"
  (`docs/commands.md:228` says that split is between what was found and what a person asserted).
  And a profile that requires `run.node_config` is not satisfied by `nodes.groups`: `check` reads
  the config alone.

### Bounds

* Nodes: two SSH nodes and the local machine: one to be dropped by the check, one to
  fall silent afterwards, one that is always there. Every config over them for one
  capture; for two in a row, five, one per kind of system (`InRow`).
* `MaxRuns` 2 where what one run leaves to the next matters: a leftover either exists
  at the start of a run or does not, and every way of leaving one is in the first run.
  The proofs have no such bound.
* `MaxSecond` 1: two runs may share a second or not.
* `RunLog`: a pipe of one piece (full after each write), two pieces per automation
  (a cut line and its end), one late process per capture, one file read or written after
  a call, in all; `MaxFd` 10 is enough for two captures and never reached.
* `Logs`: three records and a buffer of two, so that it overflows.
* `Preflight`: two workers for up to four targets, so that targets wait; three fields
  cover a rule of either benchmark and a field under none.

* `ConfigLoad`: `MaxDepth` is 2 for the code's 8, so that four files suffice for a chain that
  is just short enough, one that is too long and every cycle up to length four; all of
  these are tried with every file of the chain missing or invalid. What documents say is
  tried in chains of three, the shortest with a document between two others; each
  section by itself, because sections are merged apart.

* `Commands`: two expected nodes and nine kinds of hardware (`SmallWorlds`): none, one node of
  two, two alike, two that differ in their counts, in having an accelerator, or in whether
  the count is known, and two with three models each, one of them counted in text. A config
  answers everything, or only what its profile requires, with at most one path empty, starter
  text or refused; or it sets `nodes.groups`, of as many nodes as are expected or one too many. Three
  profiles of files of their own: one coherent, whose name is its path, so that `validate`
  finds it again; one that publishes a shape its benchmark does not have; one the other
  way round. `SessionBound`: once there is a file, the config changes only in sessions that began from
  a plain answer of one built-in profile (`Revised`), only in those is a capture cut short after
  its file is written, and a file is edited once. The graph is closed under these bounds: sessions are as long as TLC likes.

`CHECK_DEADLOCK FALSE` is set where a behaviour ends at a bound (the last capture, the
last record) or with the program (the end of a check).

### Fairness

`Capture`: weak fairness of the code's own steps (`Code`), which includes
`AutomationEnds`: nothing bounds `mlc.access` (`collector.py:407` has no timeout), so
`RunEnds` is relative to its returning. `RunLog`: weak fairness of the main thread and
of each pump; none of the automation's writes or of late processes' exits.
`Preflight`: weak fairness of the calling thread, of the workers, and of each probe's
end: the SSH and HTTP probes all carry timeouts. `ConfigLoad`: weak fairness of `Next`,
as it is one thread that waits for nobody. `Commands`: none; nothing makes a submitter run
another command.

## Proofs

Every safety invariant and action property that a passing run checks is also a theorem,
proved for every value of the constants their assumptions allow; so is the refinement
of `Publication`. `Always` or `Inductive` in each module is `Spec => []IInv`; the theorems
follow from it.

| Module | Theorem | Property | What makes it need an invariant |
|---|---|---|---|
| `CaptureProofs` | `TypeCorrect`, `Fresh`, `Whole`, `Consented`, `AcceleratorSeen`, `TrueAnswer`, `LoggedAnswer`, `Tidied` | the state invariants of the `capture` run | what is stamped at the end was decided steps before |
| | `Replaced`, `LiftedBeside` | `ReplacedOnlyByVerified`, `LiftedBesideDeliverable` | |
| | `KeepsPromise` | `Implements` | |
| `PreflightProofs` | `TypeCorrect`, `CountHonest`, `PassVouches`, `StatusesInPlace`, `KeptWasReached`, `ProbesEnded` | `TypeOK`, `NeverOverstated`, `OkMeansReady`, `StatusesMatch`, `KeptAnswered`, `NoProbeOutlives` | probes end in any order, results are collected in one |
| `LogsProofs` | `TypeCorrect`, `FilesInOrder`, `TerminalKeepsTelling`, `NothingLost` | `TypeOK`, `FileInOrder`, `TerminalTold`, `NothingForgotten` | two handlers and the pump write one file |
| `RunLogProofs` | `TypeCorrect`, `LogsShaped`, `NothingLeaked`, `LogsWhole`, `LogsWholeUntil` | `TypeOK`, `LogShape`, `DescriptorsReturned`, `OutputWhole` | numbers of closed descriptors are handed out again |
| `ConfigLoadProofs` | `TypeCorrect`, `NearestDocumentWins`, `UnsetReported`, `RefusalsJustified` | `TypeOK`, `NearestWins`, `UnresolvedExact`, `RefusedForCause` | the chain is read downwards and merged upwards |
| `CommandsProofs` | `TypeCorrect`, `CheckAndValidateAgree`, `AcceptedDescribesHardware`, `SizesAreHonest`, `SplitIsHonest`, `CodesAreTold` | `TypeOK`, `CheckedMeansValid`, `ValidMeansHardware`, `SizeHonest`, `SplitHonest`, `CodesTell` | config and file are edited between the commands |

### Capture

For every finite set of nodes, every set of admissible configs, every set of power files
and every bound on runs and seconds. Assumptions: nodes are finitely many and distinct
from the local machine, configs are admissible (`model_post_init` refuses the rest), and
the constants standing for no file and a torn file are not files.

None of the properties of a deliverable is inductive: what is stamped in
`FillDeliverable` was decided in `AcceptCollection`, from a file written while the
automation ran, about targets narrowed in `Accept`. `IInv` carries each fact to where
it is used: `PartialIsDropped` (the `partial` flag still says whether the check dropped a
node), `AskedTheReachable` (the request is the targets that answered), `RawIsOurs` (after
`DropStale` any intermediate is this run's, about machines asked for), `JudgedFit` (what
the judgement established, until the file is filled), `DocIsFit` (a deliverable keeps
these facts for ever) and `LiftBesideOurs`. The code compares *numbers* of nodes;
`ShortMeansMissing` shows that this decides whether a machine is missing, because the
machines collected are a subset of the finite set wanted. `PInv` adds what the end of a
run needs: whose log is at a name, and that directory and node config are put back.
The refinement maps `writing` to the promise's torn file and every other step to an
abstract step or a stutter.

### Preflight

For any finite set of fields, any targets (repeated ones included), any number of
workers and any profile that does not both require and recommend a field. `FindingsKept`
says that nothing after `Evaluate` alters what the config alone decided;
`CollectedStand` that statuses already collected are final, although the probes behind
them are not started or ended in that order; `OfflineReachesNobody` that an offline
check has none. `NeverOverstated` is then a fact about cardinalities: `CountIsHonest`
counts the fields that the two corrections take back, once each.

### Logs

For any number of records and captures and any size of the buffer. `FileInOrder` is in
`IInv` itself; it holds because the routes into a file never overlap. `PipeUnfed`: while
the descriptors are redirected, no handler writes to them, so no record comes back
through the pump. `UnopenedEmpty`: the replayed buffer comes first. `BufferInOrder` bounds the
buffer by what was logged, which decides when it has overflowed. The sequences are
handled by `Rising` and its lemmas (`RisingAppend`: a rising sequence stays one under
appending a greater number).

### RunLog

For any number of captures, pieces, processes left behind and any size of pipe. The one
assumption about numbers is `MaxFd >= MaxCaptures + 8`: the table has room for all that can be
open at once. That is what the proof has to count: `Accounted` says who keeps each descriptor in
use, from which `RoomToOpen` bounds how many there are, hence the numbers handed out next
(`HandedOut`), hence that 0, 1 and 2 are never among those closed (`StandardFds`,
`HeldHigh`). `Stages` relates the main thread to each pump: only `join` lets it go on, and
it saw the pump end or gave up on it. `FooterOnce` follows the footer through a pump that
still writes.

`LogsWholeUntil` adds `Streams`: what was sent is in the log, in the pump or in the pipe, in this
order. It says of every run, whatever its captures were asked for, that `OutputWhole`
holds as long as no capture has been made since one with `--verbose` whose pump was given
up on (`NoEchoBehind`, which once broken stays broken, so that its truth now is its truth so
far). The exception is needed: `runlog_echo` shows such a pump writing into the pipe of the
next capture. `LogsWhole` is the case in which it cannot arise, no capture after a
verbose one (`Echo \subseteq {MaxCaptures}`): the command line makes one capture per process, and the
`runlog` run has a plain capture and then a verbose one.

`RunLog` is proved under `Spec`, without fairness; the run checks the same safety
properties and, under `FairSpec`, liveness.

### ConfigLoad

For any files with any contents and any limit on the depth. The chain is a recursive
function (`Line`), unfolded once by `LineUnfolds` after showing that a function of that
kind exists; from then on the argument is in `Waiting` (the documents on the stack are the nearest
of the line), `Reached` (how far the line is known to be readable) and `Merged` (what has
been merged is what the line says behind the waiting documents). `Loaded` is what
remains of it once the variables are expanded. `HasValue` follows a host's `report_dir` through
all of it: one written without a value is neither lent nor cuts off what is inherited. Assumptions: every disk tried has every
file, and `Null` is not one of them.

### Commands

For any profiles in files of their own, whether or not they are coherent, any configs
and edits, any number of expected nodes, and any hardware: any sequence of node types
of at least one node each, with any accelerators. Assumptions (`CommandsAssumption`): two
profiles are never found under one reference, and configs say of each path nothing, an
answer, a refused one or starter text. A file is judged by tables that are not those it was
written by, after a config may have changed; `MadeFromOrigin` keeps what relates them: an
unedited file is still the shape of what was collected, under a config that passed the
check *then*. `FoundValid` remembers what the last `validate` found, until another command.

`CheckAndValidateAgree` and `SplitIsHonest` rest on one lemma per shape, `FlatReads`,
`TrainingReads` and `NestedReads`: a field that the profile names is empty in the document
exactly when its path is empty in the config, no text of the automation's own is left, and
what is shown as the config's is the config's. Each compares the overlay that writes
with the table that reads (`FlatKeysAgree`, `TrainingKeysAgree`, `NestedKeysAgree`); the
training case needs the check to have refused an availability that
`normalize_training_status` would blank, the nested one that a profile probes the
endpoint it asks for and that there is a node type to carry the node-scoped fields. In the
nested case `NestedTop` sets `node_config` apart, the one cell that may be the automation's
answer to what the config says elsewhere. `SizesAreHonest` is an equality: what the code
adds up and what the property adds up are the same function of the node type.
`CodesAreTold` rests on `CollectedNodes` (the document counts the nodes of the hardware it was
made from, in either field set) and `EndingsFields`. `AcceptedDescribesHardware`
rests on `SumOfNaturals`: a sum is no less than any of its terms.

### What stays model-checked

* Liveness: `RunEnds`, `CaptureReturns`, `PipeDrains`, `CheckEnds`, `LoadEnds`. Fairness is
  beyond the prover.
* The properties of the runs that end in a counterexample, which do not hold.

Induction is used as a fact about sets (`AllNaturals` and `LeastElement` in
`LeastElements`, from the library's well-foundedness of finite subsets): the library's
induction theorems take an operator, which no installed backend can instantiate. Where a
recursive function is summed or followed, the lemma first shows by that induction that
there is a function as its definition says (`PartialSums`, `LineUnfolds`).

## Not modelled

* Two concurrent captures of different processes over one directory.
* Parsing of SSH targets, resolution of paths, validators of single config fields other
  than the one for a blank name; parsing of profile files.
* What `show` prints beyond the rows it attributes to the config; wording, colours and
  suggestions; the options of the command line and its parser's messages.
* The fields a probe fills, beyond the two that stand for them, and the order of fields
  in the file.
* The other values of the stamp: times, versions, counts of nodes.

## Plan

1. *Done:* `Capture` and `Publication`, `RunLog`, `Logs`, `Preflight`, `ConfigLoad`, `Deliverable`,
   `Commands`, each with the safety properties of its run proved.
2. Proofs: which log a piece that the exception of `LogsWholeUntil` lets through can end in;
   the relation between `Commands` and `Capture`, two grains of one function, as a theorem.
3. Two concurrent captures sharing the disk part of `Capture`.
