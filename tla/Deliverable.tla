----------------------------- MODULE Deliverable -----------------------------
(***************************************************************************)
(* The system description: what output.py makes of the automation's        *)
(* document, the config and the profile, and what report.py reads back     *)
(* from the file. Neither keeps state, so everything here is an operator.  *)
(*                                                                         *)
(* A cell of a document holds what the config said (a value of the         *)
(* pre-flight check), what a probe said ("found", or "undetected" for      *)
(* "N/A" and "Not detected: ..."), or "default", the placeholder that the  *)
(* automation puts where it has nothing ("Insert ... here"), or "summary", *)
(* the text it makes of nodes.groups. An answer is one cell value whatever *)
(* its spelling: a training file has the status as the rules spell it and  *)
(* the division in lower case (output.py:430-434, 522). Of the probed      *)
(* fields the cells keep one that every shape has and whose probe may fail,*)
(* host_memory_configuration, and the processor's name.                    *)
(***************************************************************************)
EXTENDS Integers, Sequences, FiniteSets, Layers

\* accelerators_per_node, where it is not a number.
NotDetected == -1     \* "Not detected: ..."
Joined == -2          \* "8, 4": the node types of a flat document differ
Unparsed == -3        \* any other text that is not a number

\* What a config may say: nothing, an answer, one that the benchmark refuses, or
\* starter text.
Said == {"empty", "answer", "refused", "starter", "long starter"}

Blank(v) == v = "empty"
StarterText == {"starter", "long starter", "default"}

-----------------------------------------------------------------------------
(***************************************************************************)
(* Profiles. "probe" is collect.endpoint_probe; "extras" the fields that   *)
(* extra_field_groups adds; the benchmark is "none" where a file leaves it *)
(* out.                                                                    *)
(***************************************************************************)
EndpointsProfile ==
    [ref |-> "endpoints", name |-> "endpoints", shape |-> "nested", benchmark |-> "endpoints",
     probe |-> TRUE, extras |-> {},
     requires |-> {"system.name", "system.shortened_name", "system.availability",
                   "submission.division", "serving.url"},
     recommends |-> {"system.accelerator", "system.cooling", "serving.node",
                     "submission.notes.hardware", "submission.notes.software",
                     "run.link_config"}]

InferenceProfile ==
    [ref |-> "inference", name |-> "inference", shape |-> "flat", benchmark |-> "inference",
     probe |-> FALSE, extras |-> {},
     requires |-> {"system.name", "system.category", "system.availability",
                   "submission.submitter", "submission.contact", "submission.division"},
     recommends |-> {"system.accelerator", "submission.notes.hardware",
                     "submission.notes.software"}]

TrainingProfile ==
    [ref |-> "training", name |-> "training", shape |-> "flat", benchmark |-> "training",
     probe |-> FALSE, extras |-> {},
     requires |-> {"system.name", "system.availability", "system.cooling",
                   "system.networking_topology", "submission.submitter",
                   "submission.division", "training.framework"},
     recommends |-> {"system.accelerator", "submission.notes.hardware",
                     "submission.notes.software", "training.framework_name"}]

BuiltIn == {EndpointsProfile, InferenceProfile, TrainingProfile}

\* A profile asks for the field set that its shape publishes, and probes the
\* endpoint when it names the URL; the built-in ones do, a file may not.
Coherent(profile) ==
    /\ profile.shape = "nested" <=> profile.benchmark \in {"endpoints", "none"}
    /\ "serving.url" \in profile.requires \cup profile.recommends => profile.probe

-----------------------------------------------------------------------------
(***************************************************************************)
(* Which config path each published field is taken from.                   *)
(***************************************************************************)
EndpointsOverlay ==
    [division |-> "submission.division",
     system_name |-> "system.name",
     shortened_system_name |-> "system.shortened_name",
     system_availability_status |-> "system.availability",
     system_size |-> "system.size"]

\* Copied onto every node type.
NodeMeta ==
    [other_hardware |-> "submission.notes.other_hardware",
     hw_notes |-> "submission.notes.hardware",
     sw_notes |-> "submission.notes.software",
     cooling |-> "system.cooling",
     container_link |-> "submission.container_link"]

FlatOverlay ==
    [submitter |-> "submission.submitter",
     submitter_contact |-> "submission.contact",
     system_name |-> "system.name",
     status |-> "system.availability",
     system_type |-> "system.category",
     division |-> "submission.division",
     hw_notes |-> "submission.notes.hardware",
     sw_notes |-> "submission.notes.software",
     other_hardware |-> "submission.notes.other_hardware",
     cooling |-> "system.cooling",
     system_type_detail |-> "system.type_detail",
     system_size |-> "system.size"]

TrainingOverlay ==
    [submitter |-> "submission.submitter",
     division |-> "submission.division",
     status |-> "system.availability",
     system_name |-> "system.name",
     host_networking_topology |-> "system.networking_topology",
     cooling |-> "system.cooling",
     hw_notes |-> "submission.notes.hardware",
     sw_notes |-> "submission.notes.software",
     framework |-> "training.framework",
     framework_name |-> "training.framework_name"]

\* Sent to the automation, which hands them back.
Echoed ==
    [endpoint_url |-> "serving.url",
     node_config |-> "run.node_config",
     config_summary_notes |-> "run.config_summary_notes",
     link_config |-> "run.link_config"]

Overlays == {EndpointsOverlay, NodeMeta, FlatOverlay, TrainingOverlay, Echoed}
SourcePaths(field) == {o[field] : o \in {x \in Overlays : field \in DOMAIN x}}
Paths ==
    {"system.accelerator", "serving.node"} \cup UNION {{o[k] : k \in DOMAIN o} : o \in Overlays}

\* Rejected variant: the URL is left to the overlay, which has none.
SentNoUrl(value, profile) ==
    [k \in DOMAIN Echoed |-> IF k = "endpoint_url" THEN "empty" ELSE value[Echoed[k]]]

\* What build_mlc_kwargs sends of them: the URL only for a profile that probes it.
Sent(value, profile) ==
    [k \in DOMAIN Echoed |->
        IF k = "endpoint_url" /\ ~profile.probe THEN "empty" ELSE value[Echoed[k]]]

-----------------------------------------------------------------------------
(***************************************************************************)
(* The automation (external): the document it assembles from the hardware  *)
(* that answered. A world is a sequence of node types, each with its       *)
(* number of nodes, its accelerators and the cell of its memory probe. A   *)
(* release older than the variations returns the nested field set to all.  *)
(***************************************************************************)
Hosts == {"other_hardware", "cooling", "hw_notes", "sw_notes", "container_link"}

\* The sum of a sequence of numbers.
Sum(numbers) ==
    LET upTo[n \in 0..Len(numbers)] == IF n = 0 THEN 0 ELSE upTo[n - 1] + numbers[n]
    IN upTo[Len(numbers)]
CountNodes(types) == Sum([i \in DOMAIN types |-> types[i].nodes])

\* The node_config of the document: what was sent, else a summary of the groups
\* in node_config_file, as docs/configuration/endpoints.md:129 has it.
Described(sent, groups) ==
    [k \in DOMAIN sent |->
        IF k = "node_config" /\ Blank(sent[k]) /\ groups > 0 THEN "summary" ELSE sent[k]]

Nested(sent, groups, world) ==
    [nested |-> TRUE, nodes |-> 0, perNode |-> 0,
     types |-> [i \in DOMAIN world |->
         [nodes |-> world[i].nodes, accelerators |-> world[i].accelerators,
          cells |-> Over([k \in Hosts |-> "empty"],
                         [host_memory_configuration |-> world[i].memory,
                          host_processor_model_name |-> "found"])]],
     cells |-> Over(Described(sent, groups),
                          [division |-> "default", shortened_system_name |-> "default",
                           system_availability_status |-> "default",
                           system_category |-> "default", system_name |-> "default",
                           system_size |-> "found"])]

\* Node types are merged: equal values collapse, others are comma-joined.
Flat(world) ==
    LET counts == {a.count : a \in UNION {{world[i].accelerators[j] :
                          j \in DOMAIN world[i].accelerators} : i \in DOMAIN world}}
    IN [nested |-> FALSE, types |-> <<>>,
        nodes |-> CountNodes(world),
        perNode |-> CASE counts = {} -> 0
                      [] Cardinality(counts) = 1 -> CHOOSE n \in counts : TRUE
                      [] OTHER -> Joined,
        cells |->
            Over([k \in {"submitter", "submitter_contact", "system_name", "status",
                         "system_type", "division"} |-> "default"],
            Over([k \in Hosts \cup {"system_type_detail", "host_networking_topology"} |-> "empty"],
                 [host_memory_configuration |->
                      IF \A i \in DOMAIN world : world[i].memory = "undetected"
                        THEN "undetected" ELSE "found",
                  host_processor_model_name |-> "found", system_size |-> "found"]))]

Returned(profile, sent, groups, world, release) ==
    IF release = "old" \/ profile.benchmark \in {"endpoints", "none"}
      THEN Nested(sent, groups, world) ELSE Flat(world)

CountCollectedNodes(collected) ==
    IF collected.nested THEN CountNodes(collected.types) ELSE collected.nodes

-----------------------------------------------------------------------------
(***************************************************************************)
(* output.py: the shapes. A document keeps its top-level cells, its node   *)
(* types and, where it is flat, the merged counts; "sizes" is the derived  *)
(* system_size, one count or NotDetected per node type.                    *)
(***************************************************************************)
Usable(count) == IF count < 0 THEN 0 ELSE count

\* Rejected variant: the accelerators of one node stand for the node type.
AcceleratorsOfOneNode(t) ==
    Sum([i \in DOMAIN t.accelerators |-> Usable(t.accelerators[i].count)])

NodeTypeAccelerators(t) ==
    t.nodes * Sum([i \in DOMAIN t.accelerators |-> Usable(t.accelerators[i].count)])

\* Rejected variant: one count that is known answers for the node type.
NoCountDetected(t) ==
    \A i \in DOMAIN t.accelerators :
        t.accelerators[i].model = "found" /\ t.accelerators[i].count \in {NotDetected, 0}

\* An accelerator was found in this node type and its count was not.
CountIsUndetected(t) ==
    \E i \in DOMAIN t.accelerators :
        t.accelerators[i].model = "found" /\ t.accelerators[i].count \in {NotDetected, 0}

SystemSize(types) ==
    [i \in DOMAIN types |->
        IF CountIsUndetected(types[i]) THEN NotDetected ELSE NodeTypeAccelerators(types[i])]

AcceleratorCount(doc) ==
    IF doc.types # <<>> THEN Sum([i \in DOMAIN doc.types |-> NodeTypeAccelerators(doc.types[i])])
    ELSE doc.nodes * Usable(doc.perNode)

EndpointsTopFields == DOMAIN EndpointsOverlay \cup DOMAIN Echoed
EndpointsNodeFields == Hosts \cup {"host_memory_configuration", "host_processor_model_name"}

TrainingFields ==
    DOMAIN TrainingOverlay \cup {"host_memory_configuration", "host_processor_model_name"}
TrainingOptional == {"framework_name"}

From(overlay, value) == [k \in DOMAIN overlay |-> value[overlay[k]]]

\* Rejected variant: what the automation returned is kept, known field or not.
OrderedOpen(cells, fields) ==
    [k \in fields \cup DOMAIN cells |-> IF k \in DOMAIN cells THEN cells[k] ELSE "empty"]

Ordered(cells, fields) ==
    [k \in fields |-> IF k \in DOMAIN cells THEN cells[k] ELSE "empty"]

BuildEndpoints(collected, value) ==
    LET types == [i \in DOMAIN collected.types |->
                     [collected.types[i] EXCEPT
                         !.cells = Over(From(NodeMeta, value), Ordered(@, EndpointsNodeFields))]]
    IN [cells |-> Over(From(EndpointsOverlay, value), Ordered(collected.cells, EndpointsTopFields)),
        types |-> types, nodes |-> 0, perNode |-> 0,
        sizes |-> IF Blank(value["system.size"]) THEN SystemSize(types) ELSE <<>>]

\* Rejected variant: the merge the other way round, the automation's value first.
BuildFlatUnder(collected, value, profile) ==
    [cells |-> Over(collected.cells, From(FlatOverlay, value)),
     types |-> collected.types, nodes |-> collected.nodes, perNode |-> collected.perNode,
     sizes |-> <<>>]

\* An overlay entry is written over a field that is there, or when it has a
\* value; system_size only when the config has one.
BuildFlat(collected, value, profile) ==
    LET overlay == From(FlatOverlay, value)
        written == {k \in DOMAIN overlay : \/ ~Blank(overlay[k])
                                           \/ k \in DOMAIN collected.cells \ {"system_size"}}
    IN [cells |-> Over([k \in written |-> overlay[k]],
                       Over(collected.cells, [k \in profile.extras |-> "empty"])),
        types |-> collected.types, nodes |-> collected.nodes, perNode |-> collected.perNode,
        sizes |-> <<>>]

\* A status that is neither one of the four nor an alias becomes empty; an alias
\* becomes the status it stands for, which is the same answer.
NormalizeTrainingStatus(v) == IF v = "answer" THEN v ELSE "empty"

\* A failed probe becomes empty, not prose.
TrainingValue(v) == IF v = "undetected" THEN "empty" ELSE v

BuildTraining(collected, value) ==
    LET overlay == [From(TrainingOverlay, value) EXCEPT !.status = NormalizeTrainingStatus(@)]
        probed == Ordered(collected.cells, TrainingFields \ DOMAIN overlay)
        cells == Over(overlay, [k \in DOMAIN probed |-> TrainingValue(probed[k])])
    IN [cells |-> [k \in DOMAIN cells \ {f \in TrainingOptional : Blank(cells[f])} |-> cells[k]],
        types |-> <<>>, nodes |-> collected.nodes,
        perNode |-> IF collected.perNode = NotDetected THEN 0 ELSE collected.perNode,
        sizes |-> <<>>]

\* build_training raises on the nested field set.
ShapeRefuses(collected, profile) == profile.benchmark = "training" /\ collected.nested

\* What the builders of the three shapes make of it.
Built(collected, value, profile) ==
    CASE profile.benchmark = "training" -> BuildTraining(collected, value)
      [] profile.benchmark # "training" /\ profile.shape = "nested" ->
             BuildEndpoints(collected, value)
      [] OTHER -> BuildFlat(collected, value, profile)

\* Rejected variant: the stamp of the files before training had one.
ShapeUnstamped(collected, value, profile, partial) ==
    Over([stamp |-> [profile |-> profile.name, shape |-> profile.shape,
                     complete |-> ~partial]],
         Built(collected, value, profile))

Shape(collected, value, profile, partial) ==
    Over([stamp |-> [profile |-> profile.name, shape |-> profile.shape,
                     benchmark |-> profile.benchmark, complete |-> ~partial]],
         Built(collected, value, profile))

-----------------------------------------------------------------------------
(***************************************************************************)
(* report.py: validate and show.                                           *)
(***************************************************************************)
\* _NESTED_KEYS, _FLAT_KEYS and _TRAINING_KEYS, from the field to its path.
NestedKeys ==
    [system_name |-> "system.name",
     shortened_system_name |-> "system.shortened_name",
     system_availability_status |-> "system.availability",
     division |-> "submission.division",
     endpoint_url |-> "serving.url",
     cooling |-> "system.cooling",
     hw_notes |-> "submission.notes.hardware",
     sw_notes |-> "submission.notes.software",
     container_link |-> "submission.container_link",
     node_config |-> "run.node_config",
     config_summary_notes |-> "run.config_summary_notes",
     link_config |-> "run.link_config"]
NodeScope == {"cooling", "hw_notes", "sw_notes", "container_link"}

FlatKeys ==
    [system_name |-> "system.name",
     system_type |-> "system.category",
     status |-> "system.availability",
     system_type_detail |-> "system.type_detail",
     submitter |-> "submission.submitter",
     submitter_contact |-> "submission.contact",
     division |-> "submission.division",
     hw_notes |-> "submission.notes.hardware",
     sw_notes |-> "submission.notes.software"]

TrainingKeys ==
    [system_name |-> "system.name",
     status |-> "system.availability",
     cooling |-> "system.cooling",
     host_networking_topology |-> "system.networking_topology",
     submitter |-> "submission.submitter",
     division |-> "submission.division",
     hw_notes |-> "submission.notes.hardware",
     sw_notes |-> "submission.notes.software",
     framework |-> "training.framework",
     framework_name |-> "training.framework_name"]

KeysOf(profile) ==
    CASE profile.benchmark = "training" -> TrainingKeys
      [] profile.benchmark # "training" /\ profile.shape = "nested" -> NestedKeys
      [] OTHER -> FlatKeys

\* The fields the config paths land in, those that land nowhere left out.
OutputKeys(paths, profile) ==
    LET keys == KeysOf(profile) IN {k \in DOMAIN keys : keys[k] \in paths}

\* Rejected variant: every field is looked for at the top of the file.
IsEmptyAtTop(doc, key, profile) == key \notin DOMAIN doc.cells \/ Blank(doc.cells[key])

\* A node-scoped field is empty when every node type leaves it blank.
IsEmpty(doc, key, profile) ==
    IF KeysOf(profile) = NestedKeys /\ key \in NodeScope
      THEN \A i \in DOMAIN doc.types :
               key \notin DOMAIN doc.types[i].cells \/ Blank(doc.types[i].cells[key])
      ELSE key \notin DOMAIN doc.cells \/ Blank(doc.cells[key])

EmptyKeys(doc, paths, profile) ==
    {k \in OutputKeys(paths, profile) : IsEmpty(doc, k, profile)}

CellsWith(doc, values) ==
    {k \in DOMAIN doc.cells : doc.cells[k] \in values}
    \cup UNION {{k \in DOMAIN t.cells : t.cells[k] \in values} :
                   t \in {doc.types[i] : i \in DOMAIN doc.types}}

\* Rejected variant: how much hardware there is, is left to the capture.
ProblemsUncounted(doc, profile) ==
    {<<"partial", "none">> : x \in {y \in {doc.stamp} : ~y.complete}}
    \cup {<<"empty", k>> : k \in EmptyKeys(doc, profile.requires, profile)}
    \cup {<<"placeholder", k>> : k \in CellsWith(doc, StarterText)}

Problems(doc, profile) ==
    {<<"partial", "none">> : x \in {y \in {doc.stamp} : ~y.complete}}
    \cup {<<"empty", k>> : k \in EmptyKeys(doc, profile.requires, profile)}
    \cup {<<"placeholder", k>> : k \in CellsWith(doc, StarterText)}
    \cup {<<"no hardware", "none">> :
             x \in {y \in {doc} : IF profile.shape = "nested" THEN y.types = <<>>
                                                            ELSE y.nodes = 0}}

\* What a probe said it could not answer: the top of a file without node
\* types, and else the node types and their accelerators.
DetectionFailures(doc) ==
    LET failed(cells) == {k \in DOMAIN cells : cells[k] = "undetected"}
        types == {doc.types[i] : i \in DOMAIN doc.types}
    IN IF types = {}
         THEN failed(doc.cells) \cup
              {k \in {"accelerators_per_node"} : doc.perNode = NotDetected}
         ELSE {k \in {"accelerator_info"} :
                  \E t \in types : \E i \in DOMAIN t.accelerators :
                      \/ t.accelerators[i].model = "undetected"
                      \/ t.accelerators[i].count = NotDetected}
              \cup UNION {failed(t.cells) : t \in types}

Warnings(doc, profile) ==
    {<<"empty", k>> : k \in EmptyKeys(doc, profile.recommends, profile)}
    \cup {<<"undetected", k>> : k \in DetectionFailures(doc)}
    \cup {<<"empty", k>> : k \in {x \in {"host_processor_model_name"} :
             profile.shape = "flat" /\ (x \notin DOMAIN doc.cells \/ Blank(doc.cells[x]))}}

\* The rows that show() prints as "from your config".
Supplied(doc) ==
    LET rows == CASE doc.stamp.benchmark = "training" ->
                       {"submitter", "division", "status", "framework",
                        "host_networking_topology"}
                  [] doc.stamp.benchmark # "training" /\ doc.stamp.shape = "nested" ->
                       {"division", "shortened_system_name", "system_availability_status",
                        "endpoint_url", "node_config", "link_config"}
                  [] OTHER -> {"submitter", "submitter_contact", "division", "system_type",
                               "status"}
    IN {k \in rows \cap DOMAIN doc.cells : ~Blank(doc.cells[k])}
=============================================================================
