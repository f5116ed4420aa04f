----------------------------- MODULE ConfigLoad -----------------------------
(***************************************************************************)
(* load_config: a config file may extend another, and that a third; each   *)
(* may be a document of its own or a section embedded in a                 *)
(* benchmark config. Every document is normalised as it is read, the whole *)
(* chain is read before anything is merged, the merge goes from the        *)
(* farthest document to the one that was asked for, and only what the      *)
(* merge left is searched for ${VAR}.                                      *)
(*                                                                         *)
(* A key stands for every key of its kind: link_config and                 *)
(* config_summary_notes for values that may stay unset (a scalar, or an    *)
(* optional section such as power.redfish), ssh for lists, dir for the     *)
(* output directory a host document may lend. A value remembers which file *)
(* it was written in.                                                      *)
(***************************************************************************)
EXTENDS Naturals, SequencesExt, Layers

CONSTANTS
    Files,     \* the files on disk
    Root,      \* the one load_config is asked for
    MaxDepth,  \* _MAX_EXTENDS_DEPTH
    Cases,     \* the contents of the disk to consider
    Null       \* a key written without a value, or no value

Keys == {"link_config", "config_summary_notes", "ssh", "dir"}
Sections == {"run", "nodes", "output"}
SectionOf(key) ==
    CASE key = "ssh" -> "nodes"
      [] key = "dir" -> "output"
      [] OTHER -> "run"
Lists == {"ssh"}
Kinds == {"null", "empty", "plain", "set", "unset"}  \* set, unset: a ${VAR}

\* A file: what reading it gives, the file it extends, and what it says, with
\* every key in the section it belongs to.
IsDocument(file) ==
    /\ file.status \in {"ok", "missing", "invalid"}
    /\ file.extends \in Files \cup {Null}
    /\ file.embedded \in BOOLEAN
    /\ file.report_dir \in Kinds \cup {Null}
    /\ DOMAIN file.sections \subseteq Sections
    /\ \A s \in DOMAIN file.sections :
           file.sections[s] # Null =>
               \A k \in DOMAIN file.sections[s] :
                   k \in Keys /\ SectionOf(k) = s /\ file.sections[s][k] \in Kinds

ASSUME RootIsAFile == Root \in Files
ASSUME DepthIsNat == MaxDepth \in Nat
ASSUME NullIsApart == Null \notin Files \cup Kinds
ASSUME CasesAreDisks ==
    \A d \in Cases : DOMAIN d = Files /\ \A f \in Files : IsDocument(d[f])

VARIABLES
    disk,        \* per file: status, extends, embedded, report_dir, sections
    at,          \* the file to read next
    docs,        \* the documents read, nearest first, waiting to be merged
    data,        \* the merged config: per section its keys and their values
    unresolved,  \* config.unresolved_env
    failure,     \* what the ConfigError is about
    phase

vars == <<disk, at, docs, data, unresolved, failure, phase>>

Init ==
    /\ disk \in Cases
    /\ at = Root
    /\ docs = <<>>
    /\ data = << >>
    /\ unresolved = {}
    /\ failure = Null
    /\ phase = "read"

-----------------------------------------------------------------------------
Value(kind, file) == [is |-> kind, by |-> file]

\* _container_default, for a key of a section.
Defaulted(key, kind) == IF key \in Lists /\ kind = "null" THEN "empty" ELSE kind

\* drop_empty_sections: a section written without entries has none, and so
\* has a list.
DropEmptySections(sections, file) ==
    [s \in DOMAIN sections |->
        IF sections[s] = Null THEN << >>
        ELSE [k \in DOMAIN sections[s] |-> Value(Defaulted(k, sections[s][k]), file)]]

\* Rejected variant: the host's report_dir wins over the section's output.
LendsAnyway(file) ==
    disk[file].embedded /\ disk[file].report_dir \notin {Null, "null", "empty"}

\* Rejected variant: a report_dir written without a value is lent as well.
LendsNothing(file) ==
    disk[file].embedded /\ disk[file].report_dir # Null
    /\ "output" \notin DOMAIN disk[file].sections

\* _unwrap takes report_dir or output_dir only when Python holds it for true.
\* report_dir stands for the first of the two that has a value.
HasValue(kind) == kind \notin {Null, "null", "empty"}

\* The host document's report_dir serves a section that has no output. One
\* whose output was emptied has it: drop_empty_sections made it {}.
Lends(file) ==
    /\ disk[file].embedded
    /\ HasValue(disk[file].report_dir)
    /\ "output" \notin DOMAIN disk[file].sections

\* _unwrap. An extends key of the host document itself is not looked at.
Unwrap(file) ==
    LET section == DropEmptySections(disk[file].sections, file)
    IN IF Lends(file)
       THEN Over([s \in {"output"} |->
                      [k \in {"dir"} |-> Value(disk[file].report_dir, file)]], section)
       ELSE section

\* Rejected variant: only the top level is merged.
ReplaceSection(base, override) == override

\* deep_merge for one section: the child's keys, then the base's.
MergeSection(base, override) == Over(override, base)

\* deep_merge.
DeepMerge(base, override) ==
    [s \in DOMAIN base \cup DOMAIN override |->
        IF s \in DOMAIN base /\ s \in DOMAIN override
        THEN MergeSection(base[s], override[s])
        ELSE IF s \in DOMAIN override THEN override[s] ELSE base[s]]

\* Rejected variant: lists are not searched.
UnsetScalars(config) ==
    {k \in Keys \ Lists : /\ SectionOf(k) \in DOMAIN config
                          /\ k \in DOMAIN config[SectionOf(k)]
                          /\ config[SectionOf(k)][k].is = "unset"}

\* interpolate_env: what it records as missing.
Unset(config) ==
    {k \in Keys : /\ SectionOf(k) \in DOMAIN config
                  /\ k \in DOMAIN config[SectionOf(k)]
                  /\ config[SectionOf(k)][k].is = "unset"}

\* interpolate_env: what becomes of a value. An unset variable stays as it is.
Expand(value) == IF value.is = "set" THEN [value EXCEPT !.is = "plain"] ELSE value

-----------------------------------------------------------------------------
Parent == disk[at].extends

\* Rejected variant: one document more than the limit is followed.
PastLimit == Len(docs) > MaxDepth + 1

\* depth >= _MAX_EXTENDS_DEPTH, where depth counts the documents above this.
AtLimit == Len(docs) > MaxDepth

Error(what) ==
    /\ failure' = [is |-> what, file |-> at]
    /\ phase' = "error"
    /\ UNCHANGED <<disk, at, docs, data, unresolved>>

\* Rejected variant: a YAML error is not turned into a ConfigError.
ReadMissing ==
    /\ phase = "read"
    /\ disk[at].status = "missing"
    /\ Error("missing")

\* _read_yaml: no such file, not YAML, or not a mapping.
ReadFails ==
    /\ phase = "read"
    /\ disk[at].status # "ok"
    /\ Error(disk[at].status)

\* _read_yaml and _unwrap.
Read ==
    /\ phase = "read"
    /\ disk[at].status = "ok"
    /\ docs' = Append(docs, Unwrap(at))
    /\ phase' = "resolve"
    /\ UNCHANGED <<disk, at, data, unresolved, failure>>

\* _resolve_extends: the document has a parent, and the limit is reached.
TooDeep ==
    /\ phase = "resolve"
    /\ Parent # Null
    /\ AtLimit
    /\ Error("deep")

\* _resolve_extends: the parent is read before this document is merged.
Follow ==
    /\ phase = "resolve"
    /\ Parent # Null
    /\ ~AtLimit
    /\ at' = Parent
    /\ phase' = "read"
    /\ UNCHANGED <<disk, docs, data, unresolved, failure>>

\* The farthest document: what the others are merged onto.
Top ==
    /\ phase = "resolve"
    /\ Parent = Null
    /\ data' = Last(docs)
    /\ docs' = Front(docs)
    /\ phase' = "merge"
    /\ UNCHANGED <<disk, at, unresolved, failure>>

\* One return from _resolve_extends.
Merge ==
    /\ phase = "merge"
    /\ docs # <<>>
    /\ data' = DeepMerge(data, Last(docs))
    /\ docs' = Front(docs)
    /\ UNCHANGED <<disk, at, unresolved, failure, phase>>

\* load_config once the documents are one.
Interpolate ==
    /\ phase = "merge"
    /\ docs = <<>>
    /\ unresolved' = Unset(data)
    /\ data' = [s \in DOMAIN data |-> [k \in DOMAIN data[s] |-> Expand(data[s][k])]]
    /\ phase' = "validate"
    /\ UNCHANGED <<disk, at, docs, failure>>

\* SysinfoConfig.model_validate, which may refuse what it is given.
Validate ==
    /\ phase = "validate"
    /\ phase' \in {"done", "refused"}
    /\ UNCHANGED <<disk, at, docs, data, unresolved, failure>>

Next ==
    \/ ReadFails
    \/ Read
    \/ TooDeep
    \/ Follow
    \/ Top
    \/ Merge
    \/ Interpolate
    \/ Validate

Spec == Init /\ [][Next]_vars
FairSpec == Spec /\ WF_vars(Next)

-----------------------------------------------------------------------------
\* Every variable keeps its type.
TypeOK ==
    /\ DOMAIN disk = Files
    /\ at \in Files
    /\ Len(docs) <= MaxDepth + 1
    /\ DOMAIN data \subseteq Sections
    /\ \A s \in DOMAIN data : \A k \in DOMAIN data[s] :
           SectionOf(k) = s /\ data[s][k] \in [is : Kinds, by : Files]
    /\ unresolved \subseteq Keys
    /\ failure = Null \/ failure \in [is : {"missing", "invalid", "deep"}, file : Files]
    /\ phase \in {"read", "resolve", "merge", "validate", "done", "refused", "error"}

\* The config that was asked for, what it extends, and so on; Null behind the
\* end.
Line[i \in 0..MaxDepth + 1] ==
    IF i = 0 THEN Root
    ELSE IF Line[i - 1] = Null THEN Null ELSE disk[Line[i - 1]].extends

\* What a host document says of the directory: nothing, unless it has a value.
Lent(file) ==
    IF disk[file].embedded /\ disk[file].report_dir \notin {"null", "empty"}
    THEN disk[file].report_dir ELSE Null

\* What is written about a key in a file: Null when nothing is. The section
\* itself comes before what its host says, and does so even when its output:
\* has no entries (the docs say otherwise: EmptiedIsAbsent).
Written(file, key) ==
    LET sections == disk[file].sections
        s == SectionOf(key)
    IN IF s \in DOMAIN sections
       THEN IF sections[s] # Null /\ key \in DOMAIN sections[s]
            THEN sections[s][key] ELSE Null
       ELSE IF key = "dir" THEN Lent(file) ELSE Null

\* Where in the line a key is written at all.
Speakers(key) == {i \in 0..MaxDepth : Line[i] # Null /\ Written(Line[i], key) # Null}

Has(key) == SectionOf(key) \in DOMAIN data /\ key \in DOMAIN data[SectionOf(key)]

\* The config's value for a key is the one written at place i of the line. A
\* list written without entries is an empty one.
IsWrittenAt(key, i) ==
    /\ Has(key)
    /\ LET value == data[SectionOf(key)][key]
           kind == Written(Line[i], key)
       IN /\ value.by = Line[i]
          /\ value.is = CASE kind = "set" -> "plain"
                          [] kind = "null" /\ key \in Lists -> "empty"
                          [] OTHER -> kind

\* A loaded config has each key from the nearest document that mentions it:
\* a child that leaves a section empty, or sets only another of its keys,
\* inherits; one that writes a key without a value cuts its parents off. The
\* directory a host document names counts as written in the section, but only
\* when it has a value and the section has no output of its own, be it empty.
NearestWins ==
    phase = "done" =>
        \A key \in Keys :
            IF Speakers(key) = {} THEN ~Has(key) ELSE IsWrittenAt(key, Min(Speakers(key)))

\* The variables reported as unset are those of values that count: one that
\* a nearer document overrides raises no alarm, and none that is inherited,
\* or is in a list, goes unreported.
UnresolvedExact ==
    phase \in {"validate", "done", "refused"} =>
        unresolved = {key \in Keys :
            Speakers(key) # {} /\ Written(Line[Min(Speakers(key))], key) = "unset"}

ReadableTo(i) == \A j \in 0..i : Line[j] # Null /\ disk[Line[j]].status = "ok"

\* A chain is loaded only if all of it is readable and it ends within the
\* limit, so never when it loops; and an error names the first file of the
\* chain that cannot be read, or a chain that really is too long.
RefusedForCause ==
    /\ phase \in {"validate", "done", "refused"} =>
           \E i \in 0..MaxDepth : ReadableTo(i) /\ Line[i + 1] = Null
    /\ phase = "error" =>
           IF failure.is = "deep"
           THEN ReadableTo(MaxDepth) /\ Line[MaxDepth + 1] # Null
           ELSE \E i \in 0..MaxDepth :
                    /\ i > 0 => ReadableTo(i - 1)
                    /\ failure = [is |-> disk[Line[i]].status, file |-> Line[i]]

\* Whatever the files extend, themselves included, loading ends in a config or
\* a ConfigError.
LoadEnds == <>(phase \in {"done", "refused", "error"})

-----------------------------------------------------------------------------
\* What the code does not keep.

\* What a document says of a key once what was emptied in it is left out: a
\* list, and the output section of a host document's section.
Meant(file, key) ==
    LET sections == disk[file].sections
        emptied == /\ SectionOf(key) \in DOMAIN sections
                   /\ sections[SectionOf(key)] = Null
    IN CASE key \in Lists /\ Written(file, key) = "null" -> Null
         [] key = "dir" /\ emptied -> Lent(file)
         [] OTHER -> Written(file, key)

\* docs/configuration/index.md:219: what has every entry commented out is
\* "Absent. Treated as if the key were not there", and drop_empty_sections
\* (config.py:551) says it of sections. The code keeps it twice: an emptied
\* `ssh:` is an empty list, which replaces the inherited one, and an emptied
\* `output:` is {}, so that the host's report_dir is not lent.
EmptiedIsAbsent ==
    phase = "done" =>
        \A key \in Keys :
            LET meant == {i \in 0..MaxDepth : Line[i] # Null /\ Meant(Line[i], key) # Null}
            IN meant # {} => Has(key) /\ data[SectionOf(key)][key].by = Line[Min(meant)]
=============================================================================
