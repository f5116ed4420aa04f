------------------------------- MODULE Capture -------------------------------
(***************************************************************************)
(* Captures made one after another into the same output directory.         *)
(*                                                                         *)
(* collector.capture() checks the config and reaches its nodes, opens the  *)
(* run log, drops the previous run's raw intermediate, hands the           *)
(* reachable nodes to the automation, judges what came back, writes the    *)
(* deliverable and lifts the power files out of the scratch directory.     *)
(* What one run leaves behind (the raw file, power files, a node config in *)
(* the temp directory, a half-written deliverable, a log without a footer) *)
(* is what the next run starts from, so the model keeps the directory      *)
(* across runs and lets a run be refused, fail, be interrupted or be       *)
(* killed at every step.                                                   *)
(*                                                                         *)
(* The automation (mlc.access) is outside the repository: it may write the *)
(* raw file and the power files in any order, about any subset of the      *)
(* machines it was asked for, and then return success, an error or raise.  *)
(***************************************************************************)
EXTENDS Integers, FiniteSets

CONSTANTS
    Nodes,       \* the SSH targets a config may name
    Local,       \* the machine the capture runs on
    NoNode,      \* serving.node is not set
    Configs,     \* the invocations considered: a config, its profile's flags, the command line
    KeepFiles,   \* _KEEP_FILES: automation output lifted out as a deliverable
    NoFile,      \* a file that does not exist
    Torn,        \* a file truncated by a write that has not finished
    MaxRuns,     \* bound: captures started in one behaviour
    MaxSecond    \* bound: seconds of wall clock that log names tell apart

(***************************************************************************)
(* A config as capture() sees it. targets is all_targets, serving.node     *)
(* included; serving is the node whose serving config is fetched; accel is *)
(* system.accelerator # "none"; redfish needs the profile's flag and       *)
(* power.redfish; groups is nodes.groups; allow is --allow-partial.        *)
(***************************************************************************)
ConfigSpace ==
    [targets : SUBSET Nodes, local : BOOLEAN, serving : Nodes \cup {NoNode},
     accel : BOOLEAN, redfish : BOOLEAN, groups : BOOLEAN, allow : BOOLEAN]

\* model_post_init refuses a config with nothing to collect from, and
\* all_targets contains serving.node.
Admissible(c) ==
    /\ c.local \/ c.targets # {}
    /\ c.serving \in c.targets \cup {NoNode}

Runs == 1..MaxRuns
Seconds == 0..MaxSecond
Machines == Nodes \cup {Local}

\* What the automation's raw intermediate says: which run wrote it, which
\* machines are in it, whether any accelerator is, and whether it parses.
Raws == [by : Runs, nodes : SUBSET Machines, accel : BOOLEAN, readable : BOOLEAN]

\* A shaped deliverable with its provenance stamp.
Docs == [by : Runs, config : Configs, hardware : Raws, complete : BOOLEAN]

LogOutcomes == {"open", "failed", "partial", "complete"}
Logs == [by : Runs, outcome : LogOutcomes]

ASSUME NodesAssumption ==
    /\ IsFiniteSet(Nodes)
    /\ Local \notin Nodes
    /\ NoNode \notin Nodes
ASSUME ConfigsAssumption ==
    /\ Configs \subseteq ConfigSpace
    /\ \A c \in Configs : Admissible(c)
    /\ Configs # {}
ASSUME FilesAssumption ==
    /\ NoFile # Torn
    /\ NoFile \notin Raws \cup Docs \cup Logs
    /\ Torn \notin Docs
ASSUME BoundsAssumption ==
    /\ MaxRuns \in Nat
    /\ MaxSecond \in Nat

VARIABLES
    pc,           \* where the current run is; "idle" between runs
    run,          \* number of the current run: whose data is whose
    cfg,          \* its config
    unreachable,  \* the targets its pre-flight check could not reach
    request,      \* what it asks of the automation
    result,       \* how mlc.access ended: "none" until it has
    partial,      \* capture()'s local variable of that name
    told,         \* how the run ended for its caller
    \* the process
    cwd,
    \* the output directory and its scratch directory
    deliverable, raw, scratch, lifted, logs, clock,
    \* the temp directory: the runs whose node config is still there
    tmp

runVars  == <<pc, run, cfg, unreachable, request, result, partial, told>>
diskVars == <<deliverable, raw, scratch, lifted, logs, clock, tmp>>
vars == <<pc, run, cfg, unreachable, request, result, partial, told, cwd,
          deliverable, raw, scratch, lifted, logs, clock, tmp>>

-----------------------------------------------------------------------------
\* The machines a config describes, and those a request is about.
Wanted(c) == c.targets \cup (IF c.local THEN {Local} ELSE {})
Asked == request.ssh \cup (IF cfg.local THEN {Local} ELSE {})

NoRequest == [ssh |-> {}, serving |-> NoNode, redfish |-> FALSE, nodeConfig |-> FALSE]

\* nodes_expected counts every configured node, the dropped ones included.
NodesExpected == Cardinality(cfg.targets) + (IF cfg.local THEN 1 ELSE 0)
NodesCollected == Cardinality(raw.nodes)

Init ==
    /\ pc = "idle"
    /\ run = 0
    /\ cfg \in Configs
    /\ unreachable = {}
    /\ request = NoRequest
    /\ result = "none"
    /\ partial = FALSE
    /\ told = "nothing"
    /\ cwd = "home"
    /\ deliverable = NoFile
    /\ raw = NoFile
    /\ scratch = [f \in KeepFiles |-> 0]
    /\ lifted = [f \in KeepFiles |-> 0]
    /\ logs = [t \in Seconds |-> NoFile]
    /\ clock = 0
    /\ tmp = {}

-----------------------------------------------------------------------------
StartRun(c) ==
    /\ pc = "idle"
    /\ run < MaxRuns
    /\ pc' = "check"
    /\ run' = run + 1
    /\ cfg' = c
    /\ unreachable' = {}
    /\ request' = NoRequest
    /\ result' = "none"
    /\ partial' = FALSE
    /\ told' = "nothing"
    /\ UNCHANGED <<cwd, diskVars>>

\* The three reasons to raise CheckFailed: config problems, which nothing
\* forgives; an unreachable node without --allow-partial; nothing left to ask.
Refuses(problems, down) ==
    \/ problems
    \/ down # {} /\ ~cfg.allow
    \/ cfg.targets \ down = {} /\ ~cfg.local

Refuse(problems, down) ==
    /\ pc = "check"
    /\ Refuses(problems, down)
    /\ pc' = "idle"
    /\ unreachable' = down
    /\ told' = "refused"
    /\ UNCHANGED <<run, cfg, request, result, partial, cwd, diskVars>>

Accept(problems, down) ==
    /\ pc = "check"
    /\ ~Refuses(problems, down)
    /\ pc' = "open"
    /\ unreachable' = down
    /\ partial' = (down # {})
    /\ UNCHANGED <<run, cfg, request, result, told, cwd, diskVars>>

\* RunLog.open: the name carries the start second, and "wb" truncates a
\* file that already has it.
OpenLog(t) ==
    /\ pc = "open"
    /\ t >= clock
    /\ clock' = t
    /\ logs' = [logs EXCEPT ![t] = [by |-> run, outcome |-> "open"]]
    /\ pc' = "stale"
    /\ UNCHANGED <<run, cfg, unreachable, request, result, partial, told, cwd,
                   deliverable, raw, scratch, lifted, tmp>>

\* Rejected variant: a leftover intermediate survives into the next run.
KeepStale ==
    /\ pc = "stale"
    /\ pc' = "request"
    /\ UNCHANGED <<run, cfg, unreachable, request, result, partial, told, cwd, diskVars>>

\* Only the raw intermediate is dropped, not what else a run left in scratch.
DropStale ==
    /\ pc = "stale"
    /\ raw' = NoFile
    /\ pc' = "request"
    /\ UNCHANGED <<run, cfg, unreachable, request, result, partial, told, cwd,
                   deliverable, scratch, lifted, logs, clock, tmp>>

\* Rejected variant: the serving config is fetched from wherever it is said to be.
RequestServingAnyway ==
    [ssh |-> cfg.targets \ unreachable, serving |-> cfg.serving,
     redfish |-> cfg.redfish, nodeConfig |-> cfg.groups]

\* build_mlc_kwargs: the targets that answered, and serving.node only when it
\* is one of them.
Request ==
    LET ssh == cfg.targets \ unreachable IN
    [ssh |-> ssh,
     serving |-> IF cfg.serving \in ssh THEN cfg.serving ELSE NoNode,
     redfish |-> cfg.redfish,
     nodeConfig |-> cfg.groups]

\* _write_node_config, then the request that names the file it wrote.
BuildRequest ==
    /\ pc = "request"
    /\ request' = Request
    /\ tmp' = tmp \cup (IF cfg.groups THEN {run} ELSE {})
    /\ pc' = "mlc"
    /\ UNCHANGED <<run, cfg, unreachable, result, partial, told, cwd,
                   deliverable, raw, scratch, lifted, logs, clock>>

\* _require_mlc raises outside the try that removes the node config.
MlcMissing ==
    /\ pc = "mlc"
    /\ pc' = "fail"
    /\ UNCHANGED <<run, cfg, unreachable, request, result, partial, told, cwd, diskVars>>

EnterAutomation ==
    /\ pc = "mlc"
    /\ pc' = "collect"
    /\ cwd' = "work"
    /\ UNCHANGED <<run, cfg, unreachable, request, result, partial, told, diskVars>>

-----------------------------------------------------------------------------
(***************************************************************************)
(* The automation.                                                         *)
(***************************************************************************)
WriteRaw(nodes, accel, readable) ==
    /\ pc = "collect"
    /\ nodes \subseteq Asked
    /\ readable \/ (nodes = {} /\ ~accel)
    /\ raw' = [by |-> run, nodes |-> nodes, accel |-> accel, readable |-> readable]
    /\ UNCHANGED <<pc, run, cfg, unreachable, request, result, partial, told, cwd,
                   deliverable, scratch, lifted, logs, clock, tmp>>

WriteKeepFile(f) ==
    /\ pc = "collect"
    /\ request.redfish
    /\ scratch' = [scratch EXCEPT ![f] = run]
    /\ UNCHANGED <<pc, run, cfg, unreachable, request, result, partial, told, cwd,
                   deliverable, raw, lifted, logs, clock, tmp>>

\* "ok" is return 0; "error" is any other return; "raised" is an exception or
\* an interrupt out of mlc.access.
AutomationEnds(how) ==
    /\ pc = "collect"
    /\ result' = how
    /\ pc' = "cleanup"
    /\ UNCHANGED <<run, cfg, unreachable, request, partial, told, cwd, diskVars>>

-----------------------------------------------------------------------------
\* Rejected variant: the cleanup follows the call instead of being its finally.
CleanupOnReturn ==
    /\ pc = "cleanup"
    /\ cwd' = IF result = "raised" THEN cwd ELSE "home"
    /\ tmp' = IF result = "raised" THEN tmp ELSE tmp \ {run}
    /\ pc' = IF result = "ok" THEN "judge" ELSE "fail"
    /\ UNCHANGED <<run, cfg, unreachable, request, result, partial, told,
                   deliverable, raw, scratch, lifted, logs, clock>>

\* The finally clause, then the test of the return code.
Cleanup ==
    /\ pc = "cleanup"
    /\ cwd' = "home"
    /\ tmp' = tmp \ {run}
    /\ pc' = IF result = "ok" THEN "judge" ELSE "fail"
    /\ UNCHANGED <<run, cfg, unreachable, request, result, partial, told,
                   deliverable, raw, scratch, lifted, logs, clock>>

\* Rejected variant: the local machine is not counted among the expected.
ShortOfTargets == NodesCollected < Cardinality(cfg.targets)

Short == NodesCollected < NodesExpected

\* Rejected variant: zero accelerators is taken for a CPU-only system.
AcceleratorNeverMissed == FALSE

\* Undetected is only fatal when the capture claims to be whole.
AcceleratorMissed == cfg.accel /\ ~raw.accel

\* Rejected variant: a short collection is written without --allow-partial.
RejectedButShort ==
    raw # NoFile =>
        \/ ~raw.readable
        \/ raw.nodes = {}
        \/ AcceleratorMissed /\ ~(partial \/ Short)

\* Every CaptureError between the automation's return and the write:
\* _locate_raw, the JSON read, no hardware, too little, no accelerator.
Rejected ==
    raw # NoFile =>
        \/ ~raw.readable
        \/ raw.nodes = {}
        \/ Short /\ ~cfg.allow
        \/ AcceleratorMissed /\ ~(partial \/ Short)

\* Rejected variant: an unsatisfying collection is asked for again.
RetryCollection ==
    /\ pc = "judge"
    /\ Rejected
    /\ pc' = "collect"
    /\ UNCHANGED <<run, cfg, unreachable, request, result, partial, told, cwd, diskVars>>

RejectCollection ==
    /\ pc = "judge"
    /\ Rejected
    /\ pc' = "fail"
    /\ UNCHANGED <<run, cfg, unreachable, request, result, partial, told, cwd, diskVars>>

AcceptCollection ==
    /\ pc = "judge"
    /\ ~Rejected
    /\ partial' = (partial \/ Short)
    /\ pc' = "write"
    /\ UNCHANGED <<run, cfg, unreachable, request, result, told, cwd, diskVars>>

\* Rejected variant: the deliverable is opened before the collection is judged.
TruncateUnjudged ==
    /\ pc \in {"judge", "write"}
    /\ deliverable' = Torn
    /\ pc' = IF pc = "judge" THEN "judge" ELSE "writing"
    /\ UNCHANGED <<run, cfg, unreachable, request, result, partial, told, cwd,
                   raw, scratch, lifted, logs, clock, tmp>>

\* write_text truncates the deliverable in place and then fills it.
TruncateDeliverable ==
    /\ pc = "write"
    /\ deliverable' = Torn
    /\ pc' = "writing"
    /\ UNCHANGED <<run, cfg, unreachable, request, result, partial, told, cwd,
                   raw, scratch, lifted, logs, clock, tmp>>

FillDeliverable ==
    /\ pc = "writing"
    /\ deliverable' = [by |-> run, config |-> cfg, hardware |-> raw, complete |-> ~partial]
    /\ pc' = "lift"
    /\ UNCHANGED <<run, cfg, unreachable, request, result, partial, told, cwd,
                   raw, scratch, lifted, logs, clock, tmp>>

\* Rejected variant: the power files are lifted as soon as they are judged.
LiftUnwritten(f) ==
    /\ pc \in {"write", "lift"}
    /\ scratch[f] # 0
    /\ lifted' = [lifted EXCEPT ![f] = scratch[f]]
    /\ scratch' = [scratch EXCEPT ![f] = 0]
    /\ UNCHANGED <<pc, run, cfg, unreachable, request, result, partial, told, cwd,
                   deliverable, raw, logs, clock, tmp>>

\* The loop over _KEEP_FILES moves each one that exists; the order is
\* immaterial. Whether this run asked for them is not looked at.
LiftKeepFile(f) ==
    /\ pc = "lift"
    /\ scratch[f] # 0
    /\ lifted' = [lifted EXCEPT ![f] = scratch[f]]
    /\ scratch' = [scratch EXCEPT ![f] = 0]
    /\ UNCHANGED <<pc, run, cfg, unreachable, request, result, partial, told, cwd,
                   deliverable, raw, logs, clock, tmp>>

CloseLog(outcome) == logs' = [logs EXCEPT ![clock] = [by |-> run, outcome |-> outcome]]

\* Rejected variant: only an unreachable node makes the verdict partial.
VerdictOfCheck == IF unreachable # {} THEN "partial" ELSE "complete"

\* Rejected variant: the outcome stays what the log opened with.
VerdictUnset == "open"

Verdict == IF partial THEN "partial" ELSE "complete"

\* runlog.outcome, the CaptureResult, and the footer on the way out.
Finish ==
    /\ pc = "lift"
    /\ \A f \in KeepFiles : scratch[f] = 0
    /\ pc' = "idle"
    /\ told' = Verdict
    /\ CloseLog(Verdict)
    /\ UNCHANGED <<run, cfg, unreachable, request, result, partial, cwd,
                   deliverable, raw, scratch, lifted, clock, tmp>>

\* Rejected variant: the footer is only written for a run that succeeded.
FailWithoutFooter ==
    /\ pc = "fail"
    /\ pc' = "idle"
    /\ told' = "failed"
    /\ UNCHANGED <<run, cfg, unreachable, request, result, partial, cwd, diskVars>>

\* RunLog.__exit__ with an exception in flight.
Fail ==
    /\ pc = "fail"
    /\ pc' = "idle"
    /\ told' = "failed"
    /\ CloseLog("failed")
    /\ UNCHANGED <<run, cfg, unreachable, request, result, partial, cwd,
                   deliverable, raw, scratch, lifted, clock, tmp>>

\* Ctrl-C, or an OSError the code does not expect (a full disk in write_text),
\* at a step inside the run log's with and outside the automation's try.
InsideLog == {"stale", "request", "mlc", "judge", "write", "writing", "lift"}
Raise ==
    /\ pc \in InsideLog
    /\ pc' = "fail"
    /\ UNCHANGED <<run, cfg, unreachable, request, result, partial, told, cwd, diskVars>>

\* The process dies: nothing unwinds. The next run is a new process.
Kill ==
    /\ pc # "idle"
    /\ pc' = "idle"
    /\ told' = "killed"
    /\ cwd' = "home"
    /\ UNCHANGED <<run, cfg, unreachable, request, result, partial, diskVars>>

-----------------------------------------------------------------------------
Automation ==
    \/ \E nodes \in SUBSET Machines, accel, readable \in BOOLEAN :
           WriteRaw(nodes, accel, readable)
    \/ \E f \in KeepFiles : WriteKeepFile(f)

Code ==
    \/ \E problems \in BOOLEAN, down \in SUBSET cfg.targets :
           Refuse(problems, down) \/ Accept(problems, down)
    \/ \E t \in Seconds : OpenLog(t)
    \/ DropStale
    \/ BuildRequest
    \/ MlcMissing
    \/ EnterAutomation
    \/ \E how \in {"ok", "error", "raised"} : AutomationEnds(how)
    \/ Cleanup
    \/ RejectCollection
    \/ AcceptCollection
    \/ TruncateDeliverable
    \/ FillDeliverable
    \/ \E f \in KeepFiles : LiftKeepFile(f)
    \/ Finish
    \/ Fail

Next ==
    \/ \E c \in Configs : StartRun(c)
    \/ Code
    \/ Automation
    \/ Raise
    \/ Kill

Spec == Init /\ [][Next]_vars

\* The process is scheduled, and mlc.access returns in the end: nothing in
\* capture() bounds it, so that is an assumption about the automation.
FairSpec == Spec /\ WF_vars(Code)

-----------------------------------------------------------------------------
Stages ==
    {"idle", "check", "open", "stale", "request", "mlc", "collect", "cleanup",
     "judge", "write", "writing", "lift", "fail"}
RequestSpace ==
    [ssh : SUBSET Nodes, serving : Nodes \cup {NoNode},
     redfish : BOOLEAN, nodeConfig : BOOLEAN]

\* Every variable keeps its type.
TypeOK ==
    /\ pc \in Stages
    /\ run \in 0..MaxRuns
    /\ pc # "idle" => run \in Runs
    /\ cfg \in Configs
    /\ unreachable \subseteq cfg.targets
    /\ request \in RequestSpace
    /\ result \in {"none", "ok", "error", "raised"}
    /\ partial \in BOOLEAN
    /\ told \in {"nothing", "refused", "failed", "killed", "partial", "complete"}
    /\ cwd \in {"home", "work"}
    /\ deliverable \in Docs \cup {NoFile, Torn}
    /\ raw \in Raws \cup {NoFile}
    /\ scratch \in [KeepFiles -> 0..MaxRuns]
    /\ lifted \in [KeepFiles -> 0..MaxRuns]
    /\ logs \in [Seconds -> Logs \cup {NoFile}]
    /\ clock \in Seconds
    /\ tmp \subseteq Runs

Written == deliverable \notin {NoFile, Torn}

\* The hardware in a deliverable was collected by the run that wrote it, even
\* when an earlier run left its intermediate behind and the automation then
\* reported success without writing one.
FreshHardware == Written => deliverable.hardware.by = deliverable.by

\* A deliverable is stamped complete exactly when every machine its config
\* names is in it: unreachable ones, ones that fell silent after the check,
\* and the local one all count.
CompleteMeansWhole ==
    Written =>
        (deliverable.complete <=> deliverable.hardware.nodes = Wanted(deliverable.config))

\* Less than the whole system is only ever published with --allow-partial. And
\* the flag delivers: a node that the check dropped is asked about by neither
\* route, its hardware nor its serving config, since the automation ends a run
\* in which it cannot reach one (collector.py:247-256).
PartialByConsent ==
    /\ Written => deliverable.complete \/ deliverable.config.allow
    /\ pc \in {"mlc", "collect"} =>
           unreachable \cap (request.ssh \cup {request.serving}) = {}

\* A complete deliverable never shows zero accelerators about a system whose
\* config declares a backend, and no deliverable is about no machine at all.
DeclaredAcceleratorSeen ==
    Written =>
        /\ deliverable.hardware.nodes # {}
        /\ deliverable.complete /\ deliverable.config.accel => deliverable.hardware.accel

\* What the caller is told of a successful run is what the file says: the
\* deliverable is there, whole, written by this run, and stamped the same way.
AnswerIsTrue ==
    pc = "idle" /\ told \in {"partial", "complete"} =>
        /\ Written
        /\ deliverable.by = run
        /\ deliverable.complete <=> told = "complete"

\* Every run that got as far as collecting and was not killed has a log with
\* a footer that says what its caller was told; a refused run leaves no log.
LogMatchesAnswer ==
    pc = "idle" =>
        /\ told \in {"failed", "partial", "complete"} =>
               logs[clock] = [by |-> run, outcome |-> told]
        /\ told = "refused" =>
               \A t \in Seconds : logs[t] # NoFile => logs[t].by # run

\* The node config that a request names is there as long as the automation
\* works; however that ended, the caller gets its working directory back and
\* the node config is gone from the temp directory.
NothingLeftBehind ==
    /\ pc = "collect" /\ request.nodeConfig => run \in tmp
    /\ pc = "idle" /\ told # "killed" =>
           /\ cwd = "home"
           /\ result # "none" => run \notin tmp

\* The previous deliverable is given up only by a run whose own collection
\* has passed every test: fresh, readable, about enough machines, and not
\* silent about a declared accelerator.
ReplacedOnlyByVerified ==
    [][deliverable' # deliverable =>
           /\ raw # NoFile
           /\ raw.by = run
           /\ raw.readable
           /\ raw.nodes # {}
           /\ raw.nodes = Wanted(cfg) \/ cfg.allow
           /\ cfg.accel /\ raw.nodes = Wanted(cfg) => raw.accel]_vars

\* Power files become deliverables only beside the deliverable of the run
\* that lifts them.
LiftedBesideDeliverable ==
    [][lifted' # lifted => Written /\ deliverable.by = run]_vars

\* Every run comes to an end, whatever fails.
RunEnds == pc # "idle" ~> pc = "idle"

-----------------------------------------------------------------------------
(* What a capture promises, in terms of Publication. *)
OrderOf(c) == [wants |-> Wanted(c), accel |-> c.accel, allow |-> c.allow]
View(d) ==
    IF d \in {NoFile, Torn} THEN d
    ELSE [machines |-> d.hardware.nodes, accel |-> d.hardware.accel, complete |-> d.complete]

PhaseOf ==
    CASE pc = "idle" -> "idle"
      [] pc = "writing" -> "replacing"
      [] pc = "lift" -> "replaced"
      [] pc = "fail" -> "unwinding"
      [] OTHER -> "asked"

\* What may be asked of it.
Orders == {OrderOf(c) : c \in Configs}

Promise == INSTANCE Publication WITH
    Orders <- Orders,
    phase <- PhaseOf,
    order <- OrderOf(cfg),
    file <- View(deliverable),
    answer <- told

\* Whatever happens inside, the output directory is served as promised.
Implements == Promise!PubSpec

-----------------------------------------------------------------------------
\* What the code does not keep.

\* collector.py:382: a leftover of an earlier run is never mistaken for this
\* run's result. The raw file is dropped at the start; power files are not.
LiftsOnlyItsOwn ==
    pc = "lift" => \A f \in KeepFiles : scratch[f] \in {0, run}

\* runlog.py:20: a retry never overwrites the log of the failure that
\* prompted it. Names carry seconds, and the file is opened with "wb".
LogsKept ==
    [][\A t \in Seconds : logs[t] # NoFile => logs'[t].by = logs[t].by]_vars
=============================================================================
