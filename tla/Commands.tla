------------------------------ MODULE Commands ------------------------------
(***************************************************************************)
(* A session of mlperf-sysinfo commands over one config file and one       *)
(* output file: init, check, capture, show and validate, the exit code of  *)
(* each, and the edits a submitter makes to both files in between.         *)
(*                                                                         *)
(* Composes Preflight (what check refuses) with Deliverable (what a        *)
(* capture writes and validate reads). The steps inside a capture are      *)
(* those of Capture; here it is one step per way it can end.               *)
(***************************************************************************)
EXTENDS Deliverable

CONSTANTS
    Custom,      \* profiles in files of their own
    Configs,     \* configs the session may start from
    Edits,       \* configs the submitter may write in their place
    Worlds,      \* the hardware that may answer
    Expected     \* nodes the config names

\* A file that is not there, and one that is not valid: YAML or an option, or
\* truncated JSON.
NoFile == [content |-> "none"]
Unreadable == [content |-> "unreadable"]

Profiles == BuiltIn \cup Custom
IsProfile(p) ==
    /\ p.shape \in {"nested", "flat"}
    /\ p.probe \in BOOLEAN
    /\ p.requires \subseteq Paths
    /\ p.recommends \subseteq Paths
IsConfig(c) ==
    /\ DOMAIN c = {"profile", "accelerator", "groups", "value"}
    /\ c.accelerator \in BOOLEAN
    /\ c.groups \in Nat    \* nodes that nodes.groups declares; 0 when it is not set
    /\ c.value \in [Paths -> Said]
Accelerators == [model : {"found", "undetected"}, count : Nat \cup {NotDetected, Unparsed}]
NodeTypes ==
    [nodes : Nat \ {0}, accelerators : Seq(Accelerators), memory : {"found", "undetected"}]

ASSUME CommandsAssumption ==
    /\ \A p \in Custom : IsProfile(p)
    /\ \A p \in Custom : \A q \in Profiles : p # q => p.ref # q.ref
    /\ Expected \in Nat \ {0}
    /\ \A c \in (Configs \cup Edits) \ {NoFile, Unreadable} : IsConfig(c)
    /\ Worlds \subseteq Seq(NodeTypes)

VARIABLES
    config,   \* the config file's content
    out,      \* the output file's content
    origin,   \* history: what the output file was made from
    last      \* the command that ended last, its exit code, the reason, and
              \* (history) whether a probe had named an accelerator

vars == <<config, out, origin, last>>

-----------------------------------------------------------------------------
\* profiles.load: a built-in name, or a path.
Known(ref) == \E p \in Profiles : p.ref = ref
Load(ref) == CHOOSE p \in Profiles : p.ref = ref

\* The command ends: SysinfoError is 2, what the command found 1, and an
\* exception nobody catches is Python's own 1.
Ended(command, code, why, seen) ==
    [command |-> command, code |-> code, why |-> why, seen |-> seen]
Ends(command, code, why) == last' = Ended(command, code, why, FALSE)

\* The file is there and valid, which a blank system.name is not, and its
\* profile is found.
ConfigLoads ==
    /\ config \notin {NoFile, Unreadable}
    /\ ~Blank(config.value["system.name"])
    /\ Known(config.profile)
Readable(file) == file \notin {NoFile, Unreadable}

\* The config judged by the pre-flight check, as far as its fields go.
Case ==
    LET p == Load(config.profile)
    IN [value |-> config.value, requires |-> p.requires, recommends |-> p.recommends,
        benchmark |-> p.benchmark, env |-> FALSE, declared |-> config.groups, bmc |-> FALSE,
        targets |-> [i \in 1..Expected - 1 |-> "node"], local |-> TRUE, endpoint |-> FALSE, servingLog |-> FALSE,
        offline |-> FALSE]
Check == INSTANCE Preflight WITH
    c <- Case, pc <- "evaluate", report <- <<>>, future <- <<>>, got <- 0,
    Nodes <- {}, Fields <- Paths, Status <- "system.availability",
    ShortName <- "system.shortened_name", Cases <- {}, MaxWorkers <- 1

HasProblems == Check!MissingRequired # {} \/ Check!Placeholders(Paths) # {}

-----------------------------------------------------------------------------
\* templates/*.yaml: what a starter config leaves to fill in, and what it sets.
ToFill(ref) ==
    CASE ref = "endpoints" -> {"system.name", "system.shortened_name"}
      [] ref = "inference" -> {"system.name", "submission.submitter", "submission.contact"}
      [] ref = "training" -> {"system.name", "system.networking_topology",
                              "training.framework", "submission.submitter"}

Preset(ref) ==
    {"system.availability", "system.accelerator", "system.cooling", "submission.division"}
    \cup CASE ref = "endpoints" -> {"serving.url", "serving.node"}
           [] ref = "inference" -> {"system.category"}
           [] ref = "training" -> {}

Template(ref) ==
    [profile |-> ref, accelerator |-> TRUE, groups |-> 0,
     value |-> [p \in Paths |-> CASE p \in ToFill(ref) -> "starter"
                                  [] p \in Preset(ref) -> "answer"
                                  [] OTHER -> "empty"]]

\* The submitter replaces every CHANGEME by an answer.
Filled(c) ==
    [c EXCEPT !.value = [p \in Paths |-> IF @[p] = "starter" THEN "answer" ELSE @[p]]]

Init ==
    /\ config \in Configs
    /\ out = NoFile
    /\ origin = NoFile
    /\ last = Ended("none", 0, "none", FALSE)

\* init: only a profile with a template, and only over nothing unless forced.
InitConfig(ref, force) ==
    /\ IF \E p \in BuiltIn : p.ref = ref /\ (config = NoFile \/ force)
         THEN /\ config' = Template(ref)
              /\ Ends("init", 0, "none")
         ELSE /\ Ends("init", 2, "not written")
              /\ UNCHANGED config
    /\ UNCHANGED <<out, origin>>

\* Which of the machines the config names answer the check, the local one being
\* one that always does.
Reaches == {"all", "some", "none"}

\* check: the config does not load, it has problems, a node does not answer.
RunCheck(reached) ==
    /\ CASE ~ConfigLoads -> Ends("check", 2, "config")
         [] ConfigLoads /\ HasProblems -> Ends("check", 1, "problems")
         [] ConfigLoads /\ ~HasProblems /\ reached # "all" ->
                Ends("check", 1, "unreachable")
         [] OTHER -> Ends("check", 0, "none")
    /\ UNCHANGED <<config, out, origin>>

-----------------------------------------------------------------------------
(***************************************************************************)
(* capture, one action per way it ends.                                    *)
(***************************************************************************)
CaptureRefused(allow, reached) ==
    /\ CASE ~ConfigLoads -> Ends("capture", 2, "config")
         [] ConfigLoads /\ HasProblems -> Ends("capture", 1, "problems")
         [] ConfigLoads /\ ~HasProblems ->
                /\ reached = "none" \/ (reached = "some" /\ ~allow)
                /\ Ends("capture", 1, "unreachable")
    /\ UNCHANGED <<config, out, origin>>

\* The automation fails, or the run is interrupted before it writes the file.
CaptureFails ==
    /\ ConfigLoads /\ ~HasProblems
    /\ \/ Ends("capture", 2, "collection")
       \/ Ends("capture", 130, "interrupted")
    /\ UNCHANGED <<config, out, origin>>

\* The file cannot be opened or written to the end, or the run is interrupted
\* meanwhile: OSError is not caught by main.
CaptureTorn ==
    /\ ConfigLoads /\ ~HasProblems
    /\ \/ Ends("capture", 1, "exception")
       \/ Ends("capture", 130, "interrupted")
    /\ out' \in {out, Unreadable}
    /\ origin' = IF out' = out THEN origin ELSE NoFile
    /\ UNCHANGED config

\* What capture() makes of the hardware that answered.
Result(world, release, reached, allow) ==
    LET p == Load(config.profile)
        collected == Returned(p, Sent(config.value, p), config.groups, world, release)
        n == CountCollectedNodes(collected)
        partial == reached # "all" \/ n < Expected
        doc == Shape(collected, config.value, p, partial)
        refused == CASE n = 0 -> "no hardware"
                     [] n > 0 /\ n < Expected /\ ~allow -> "fewer nodes"
                     [] n > 0 /\ (n >= Expected \/ allow) /\ ShapeRefuses(collected, p) ->
                            "wrong field set"
                     [] OTHER -> IF config.accelerator /\ ~partial /\ AcceleratorCount(doc) = 0
                                   THEN "no accelerator" ELSE "none"
    IN [refused |-> refused, partial |-> partial, doc |-> doc]

\* Some node reported an accelerator, its model and how many.
Seen(world) ==
    \E i \in DOMAIN world : \E j \in DOMAIN world[i].accelerators :
        world[i].accelerators[j].model = "found" /\ world[i].accelerators[j].count > 0

\* A capture whose file is written ends with the code of its verdict, or an
\* OSError or an interrupt cuts it short while it lifts the power files and
\* reports; the file stays.
Endings(code, seen) ==
    {Ended("capture", code, "none", seen), Ended("capture", 1, "exception", seen),
     Ended("capture", 130, "interrupted", seen)}

\* Rejected variant: a file was written, so all is well.
AnswersZero(world, release, reached, allow) ==
    LET r == Result(world, release, reached, allow)
    IN IF r.refused # "none"
         THEN /\ last' = Ended("capture", 2, r.refused, Seen(world))
              /\ UNCHANGED <<out, origin>>
         ELSE /\ last' \in Endings(0, Seen(world))
              /\ out' = r.doc
              /\ origin' = [config |-> config, world |-> world, release |-> release,
                           edited |-> FALSE]

\* What a capture that got a document ends in.
Answers(world, release, reached, allow) ==
    LET r == Result(world, release, reached, allow)
    IN IF r.refused # "none"
         THEN /\ last' = Ended("capture", 2, r.refused, Seen(world))
              /\ UNCHANGED <<out, origin>>
         ELSE /\ last' \in Endings(IF r.partial THEN 1 ELSE 0, Seen(world))
              /\ out' = r.doc
              /\ origin' = [config |-> config, world |-> world, release |-> release,
                           edited |-> FALSE]

\* A document came back. A node that the check did not reach is not asked.
CaptureAnswered ==
    /\ ConfigLoads /\ ~HasProblems
    /\ \E world \in Worlds, release \in {"current", "old"},
             reached \in Reaches \ {"none"}, allow \in BOOLEAN :
          /\ reached = "some" => allow /\ CountNodes(world) < Expected
          /\ Answers(world, release, reached, allow)
    /\ UNCHANGED config

-----------------------------------------------------------------------------
Show ==
    /\ Ends("show", IF Readable(out) THEN 0 ELSE 2, "none")
    /\ UNCHANGED <<config, out, origin>>

\* validate: against the profile given, or the one whose name is in the file.
Validate(override) ==
    /\ LET ref == IF override # "none" THEN override ELSE out.stamp.profile
       IN CASE ~Readable(out) -> Ends("validate", 2, "file")
            [] Readable(out) /\ ~Known(ref) -> Ends("validate", 2, "profile")
            [] OTHER -> IF Problems(out, Load(ref)) # {} THEN Ends("validate", 1, "problems")
                                                        ELSE Ends("validate", 0, ref)
    /\ UNCHANGED <<config, out, origin>>

\* The submitter writes another config, or fills in the starter.
EditConfig ==
    /\ config' \in Edits \cup {Filled(c) : c \in {config} \ {NoFile, Unreadable}}
    /\ config' # config
    /\ Ends("edit", 0, "none")
    /\ UNCHANGED <<out, origin>>

\* The submitter fills in what came out blank in the file.
EditFile ==
    /\ Readable(out) /\ ~origin.edited
    /\ out' = [out EXCEPT !.cells = [k \in DOMAIN @ |->
                  IF @[k] \in {"empty", "undetected", "default"} THEN "answer" ELSE @[k]]]
    /\ origin' = [origin EXCEPT !.edited = TRUE]
    /\ Ends("edit", 0, "none")
    /\ UNCHANGED config

Overrides == {"none"} \cup {p.ref : p \in Profiles}

Next ==
    \/ \E ref \in {p.ref : p \in Profiles}, force \in BOOLEAN : InitConfig(ref, force)
    \/ \E reached \in Reaches : RunCheck(reached)
    \/ \E allow \in BOOLEAN, reached \in Reaches : CaptureRefused(allow, reached)
    \/ CaptureFails
    \/ CaptureTorn
    \/ CaptureAnswered
    \/ Show
    \/ \E override \in Overrides : Validate(override)
    \/ EditConfig
    \/ EditFile

Spec == Init /\ [][Next]_vars

-----------------------------------------------------------------------------
(***************************************************************************)
(* What a session promises.                                                *)
(***************************************************************************)
\* Every variable has its type; the history follows the file.
TypeOK ==
    /\ config \in {NoFile, Unreadable} \/ DOMAIN config = {"profile", "accelerator", "groups", "value"}
    /\ Readable(out) => /\ DOMAIN out = {"cells", "types", "nodes", "perNode", "sizes", "stamp"}
                        /\ DOMAIN out.stamp = {"profile", "shape", "benchmark", "complete"}
    /\ Readable(out) <=> origin # NoFile
    /\ last.code \in {0, 1, 2, 130}

Untouched == Readable(out) /\ ~origin.edited
Origin == Load(origin.config.profile)

\* The file names a profile that is still the one it was captured under, and
\* that profile asks the automation for the field set it publishes.
Stamped == /\ Known(out.stamp.profile)
           /\ Load(out.stamp.profile) = Origin
           /\ Coherent(Origin)
           /\ origin.release = "current"

\* check and validate agree about one file, "the two commands would disagree
\* about the same file" otherwise (output.py:573-576). All that validate has
\* against a file from a config that passed the check is that it is partial:
\* no required field empty, no text of the automation's own ("Insert ... here")
\* left in; and a recommended field is reported empty exactly when it was empty
\* in the config (overlays of output.py:320-531, tables of output.py:582-625),
\* but for node_config when the config has nodes.groups to summarise.
CheckedMeansValid ==
    Untouched /\ Stamped =>
        /\ Problems(out, Origin) = IF out.stamp.complete THEN {} ELSE {<<"partial", "none">>}
        /\ EmptyKeys(out, Origin.recommends, Origin) =
              {k \in OutputKeys(Origin.recommends, Origin) :
                  /\ Blank(origin.config.value[KeysOf(Origin)[k]])
                  /\ ~(k = "node_config" /\ origin.config.groups > 0)}

\* Whatever the profile, the release of the automation or the edits, a file
\* that validate accepts, under its own profile or another one, is complete and
\* describes at least one node in the shape that profile publishes.
ValidMeansHardware ==
    last.command = "validate" /\ last.code = 0 =>
        /\ out.stamp.complete
        /\ IF Load(last.why).shape = "nested"
             THEN CountCollectedNodes([nested |-> TRUE, types |-> out.types]) > 0
             ELSE out.nodes > 0

\* A derived system_size has a part for every node type, and each is the exact
\* number of the accelerators its nodes reported, over all models, or "not
\* detected" when some accelerator was found without its count
\* (output.py:218-272). A count that came as text without a number adds nothing.
SizeHonest ==
    Untouched =>
        /\ DOMAIN out.sizes \in {{}, DOMAIN origin.world}
        /\ \A i \in DOMAIN out.sizes :
            LET type == origin.world[i]
                at == DOMAIN type.accelerators
                lost == {j \in at : /\ type.accelerators[j].model = "found"
                                    /\ type.accelerators[j].count \in {NotDetected, 0}}
                numbers == [j \in at |-> IF type.accelerators[j].count \in Nat
                                           THEN type.accelerators[j].count ELSE 0]
            IN out.sizes[i] = IF lost # {} THEN NotDetected ELSE type.nodes * Sum(numbers)

\* What show prints as "from your config" is what the config said when the file
\* was captured, not what a probe or the automation said (report.py:217-243).
\* Only node_config may be the automation's text, a summary of the nodes.groups
\* in that config, and only when the config does not describe the nodes itself.
SplitHonest ==
    Untouched /\ Stamped =>
        \A k \in Supplied(out) :
            \/ out.cells[k] \in {origin.config.value[p] : p \in SourcePaths(k)}
            \/ /\ k = "node_config" /\ out.cells[k] = "summary"
               /\ origin.config.groups > 0
               /\ Blank(origin.config.value["run.node_config"])

\* The exit code tells what became of the files (cli.py:499-523). With 2 none of
\* them changed. When capture answers 0 the file is this run's: complete, from
\* the config as it is, of as many nodes as the config names, and with an
\* accelerator if it names one. With any other code there is no new complete
\* file, unless the run was cut short after it had written it.
CodesTell ==
    [][ /\ last'.code = 2 => UNCHANGED <<config, out>>
        /\ last'.command = "capture" =>
              /\ last'.code = 0 =>
                    /\ Readable(out') /\ out'.stamp.complete
                    /\ origin'.config = config /\ ~origin'.edited
                    /\ CountNodes(origin'.world) >= Expected
                    /\ config.accelerator => AcceleratorCount(out') # 0
              /\ last'.code # 0 /\ last'.why \notin {"exception", "interrupted"} =>
                    out' = out \/ ~out'.stamp.complete
      ]_vars

\* collector.py:487 says of the refusal "The config named a backend and not one
\* node reported an accelerator".
MissedMeansNone == last.why = "no accelerator" => ~last.seen

\* docs/outputs.md:338 says of a failed probe, which training blanks, that
\* "validate still lists it as a field to fill in before submitting".
FailedProbesListed ==
    Untouched /\ out.stamp.benchmark = "training"
        /\ (\A i \in DOMAIN origin.world : origin.world[i].memory = "undetected")
    => \E w \in Warnings(out, Origin) \cup Problems(out, Origin) :
           w[2] = "host_memory_configuration"

=============================================================================
