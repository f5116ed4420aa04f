----------------------------- MODULE MCCommands -----------------------------
\* Small instances of Commands.
EXTENDS Commands

\* Profiles of the kind README.md:224 describes: a working group's own, which
\* publishes the nested field set; one that keeps the default shape although
\* its benchmark is flat; one that asks for the flat shape and the nested set.
GroupProfile ==
    [EndpointsProfile EXCEPT !.ref = "./group.yaml", !.name = "./group.yaml",
                             !.requires = {"system.name", "serving.url"},
                             !.recommends = {"submission.container_link", "run.node_config"}]
NestedTraining ==
    [TrainingProfile EXCEPT !.ref = "./mixed.yaml", !.name = "training", !.shape = "nested"]
FlatEndpoints ==
    [InferenceProfile EXCEPT !.ref = "./flat.yaml", !.name = "flat", !.benchmark = "none",
                             !.requires = {"system.name"}, !.extras = {"system_power_only"}]
SmallCustom == {GroupProfile, NestedTraining, FlatEndpoints}

\* A config that answers everything, and what may be different in it.
Answered(ref, accelerator) ==
    [profile |-> ref, accelerator |-> accelerator, groups |-> 0,
     value |-> [p \in Paths |-> "answer"]]
With(c, p, v) == [c EXCEPT !.value[p] = v]
Oddities(p) ==
    CASE p = "system.shortened_name" -> {"empty", "starter", "long starter", "refused"}
      [] p = "system.availability" -> {"empty", "starter", "refused"}
      [] OTHER -> {"empty", "starter"}
Odd(c) ==
    {c} \cup UNION {{With(c, p, v) : v \in Oddities(p)} : p \in Paths \ {"system.accelerator"}}

\* One path at odds with the rest; and only what the profile names answered.
Sparse(p) ==
    [Answered(p.ref, FALSE) EXCEPT
        !.value = [x \in Paths |-> IF x \in p.requires \cup {"system.accelerator"}
                                     THEN "answer" ELSE "empty"]]
SmallConfigs ==
    UNION {Odd(Answered(p.ref, TRUE)) \cup {Sparse(p)} : p \in BuiltIn \cup SmallCustom}
    \cup UNION {Odd(Sparse(p)) : p \in BuiltIn}
    \cup {[Sparse(p) EXCEPT !.groups = n] :
              p \in {EndpointsProfile, GroupProfile}, n \in {Expected, Expected + 1}}
    \cup {[Answered(p.ref, TRUE) EXCEPT !.groups = Expected] :
              p \in {EndpointsProfile, InferenceProfile}}
    \cup {NoFile, Unreadable}
SmallEdits == {[Answered("endpoints", TRUE) EXCEPT !.profile = "unknown"],
               Answered("endpoints", FALSE)}

Gpu(count) == [model |-> "found", count |-> count]
Type(n, accelerators, memory) == [nodes |-> n, accelerators |-> accelerators, memory |-> memory]

\* Bound: once there is a file, only the configs of few sessions are replaced;
\* and only their captures are cut short after they wrote it.
Revised == {NoFile} \cup {Answered(p.ref, TRUE) : p \in BuiltIn}
SessionBound ==
    /\ config' # config => out = NoFile \/ (out # Unreadable /\ origin.config \in Revised)
    /\ last'.why \in {"exception", "interrupted"} /\ out' # out =>
           out' = Unreadable \/ config \in Revised
MCSpec == Init /\ [][Next /\ SessionBound]_vars

\* Up to two nodes: none; one; two alike; two that differ in their counts, in
\* having an accelerator at all, or in the count being known; and two of three
\* models each, with one count that is text.
SmallWorlds ==
    {<<>>,
     <<Type(1, <<Gpu(8)>>, "found")>>,
     <<Type(2, <<Gpu(8)>>, "undetected")>>,
     <<Type(2, <<>>, "found")>>,
     <<Type(2, <<Gpu(4), Gpu(8), Gpu(Unparsed)>>, "found")>>,
     <<Type(2, <<Gpu(NotDetected)>>, "found")>>,
     <<Type(2, <<Gpu(4), Gpu(NotDetected)>>, "undetected")>>,
     <<Type(1, <<Gpu(8)>>, "found"), Type(1, <<Gpu(4)>>, "undetected")>>,
     <<Type(1, <<Gpu(8)>>, "found"), Type(1, <<>>, "found")>>}
=============================================================================
