--------------------------- MODULE CommandsProofs ---------------------------
(***************************************************************************)
(* Theorems about Commands, for any profiles of files of their own, any    *)
(* configs and edits, any hardware that may answer and any number of       *)
(* expected nodes.                                                         *)
(***************************************************************************)
EXTENDS Commands, LeastElements

-----------------------------------------------------------------------------
(***************************************************************************)
(* The inductive invariant.                                                *)
(***************************************************************************)
DocFields == {"cells", "types", "nodes", "perNode", "sizes", "stamp"}
StampFields == {"profile", "shape", "benchmark", "complete"}
OriginFields == {"config", "world", "release", "edited"}

\* The node types of a document are a sequence, each of at least one node.
TypesTyped(types) ==
    /\ Len(types) \in Nat
    /\ DOMAIN types = 1..Len(types)
    /\ \A i \in DOMAIN types : /\ {"nodes", "accelerators"} \subseteq DOMAIN types[i]
                               /\ types[i].nodes \in Nat \ {0}

\* A config is one of the space, or there is none to read.
ConfigTyped == config \in {NoFile, Unreadable} \/ IsConfig(config)

\* A file that can be read is a document with a stamp, each of its node types
\* stands for at least one node, and its history is kept; no other file has one.
FileTyped ==
    /\ Readable(out) => /\ DOMAIN out = DocFields
                        /\ DOMAIN out.stamp = StampFields
                        /\ TypesTyped(out.types)
                        /\ out.nodes \in Nat
    /\ Readable(out) <=> origin # NoFile
    /\ origin # NoFile => DOMAIN origin = OriginFields /\ origin.edited \in BOOLEAN

CodeTyped == last.code \in {0, 1, 2, 130}

\* What the check establishes about a config that it lets through.
Passed(c) ==
    /\ IsConfig(c)
    /\ Known(c.profile)
    /\ \A path \in Paths : c.value[path] \notin {"starter", "long starter"}
    /\ \A path \in Load(c.profile).requires : ~Blank(c.value[path])
    /\ Load(c.profile).benchmark = "training" =>
           c.value["system.availability"] \in {"empty", "answer"}

\* The document that the automation returned.
Collected ==
    Returned(Origin, Sent(origin.config.value, Origin), origin.config.groups,
             origin.world, origin.release)

\* Nobody having edited it, the file is still the shape of what was collected,
\* under a config that passed the check and however it has been edited since.
MadeFromOrigin ==
    Untouched =>
        /\ Passed(origin.config)
        /\ origin.world \in Seq(NodeTypes)
        /\ CountCollectedNodes(Collected) > 0
        /\ ~ShapeRefuses(Collected, Origin)
        /\ out.stamp.complete \in BOOLEAN
        /\ out = Shape(Collected, origin.config.value, Origin, ~out.stamp.complete)

\* A file found valid has no problem, until another command follows.
FoundValid ==
    last.command = "validate" /\ last.code = 0 =>
        /\ Readable(out)
        /\ Known(last.why)
        /\ Problems(out, Load(last.why)) = {}

IInv == ConfigTyped /\ FileTyped /\ CodeTyped /\ MadeFromOrigin /\ FoundValid

-----------------------------------------------------------------------------
(***************************************************************************)
(* Sums.                                                                   *)
(***************************************************************************)
\* The recursive definition of a sum has the meaning it is read with: there are
\* partial sums, each the one before it and one number more.
LEMMA PartialSums ==
    ASSUME NEW m \in Nat, NEW s, Len(s) = m
    PROVE  \E u : /\ u = [n \in 0..m |-> IF n = 0 THEN 0 ELSE u[n - 1] + s[n]]
                  /\ Sum(s) = u[m]
<1> DEFINE To(g, k) == g = [n \in 0..k |-> IF n = 0 THEN 0 ELSE g[n - 1] + s[n]]
           S == {k \in Nat : \E g : To(g, k)}
           upTo == CHOOSE g : To(g, m)
<1>1. 0 \in S
  <2> DEFINE g == [n \in 0..0 |-> 0]
  <2>1. g = [n \in 0..0 |-> IF n = 0 THEN 0 ELSE g[n - 1] + s[n]]
    <3>1. \A n \in 0..0 : n = 0
      OBVIOUS
    <3> QED
      BY <3>1
  <2> HIDE DEF g
  <2> QED
    BY <2>1
<1>2. ASSUME NEW k \in Nat, k \in S
      PROVE  k + 1 \in S
  <2>1. PICK g : To(g, k)
    BY <1>2
  <2> DEFINE h == [n \in 0..(k + 1) |-> IF n <= k THEN g[n] ELSE g[k] + s[k + 1]]
  <2>2. ASSUME NEW n \in 0..(k + 1)
        PROVE  h[n] = IF n = 0 THEN 0 ELSE h[n - 1] + s[n]
    <3>1. CASE n = 0
      <4>1. 0 \in 0..k /\ 0 <= k
        OBVIOUS
      <4>2. g[0] = 0
        BY <2>1, <4>1
      <4> QED
        BY <3>1, <4>1, <4>2
    <3>2. CASE n # 0 /\ n <= k
      <4>1. n \in 0..k /\ n - 1 \in 0..(k + 1) /\ n - 1 <= k
        BY <3>2
      <4>2. g[n] = g[n - 1] + s[n]
        BY <2>1, <3>2, <4>1
      <4>3. h[n] = g[n] /\ h[n - 1] = g[n - 1]
        BY <3>2, <4>1
      <4> QED
        BY <3>2, <4>2, <4>3
    <3>3. CASE n = k + 1
      <4>1. ~(k + 1 <= k) /\ k \in 0..(k + 1) /\ k <= k /\ (k + 1) - 1 = k /\ k + 1 # 0
            /\ k + 1 \in 0..(k + 1)
        OBVIOUS
      <4>2. h[k + 1] = g[k] + s[k + 1] /\ h[k] = g[k]
        BY <4>1
      <4> QED
        BY <3>3, <4>1, <4>2
    <3> QED
      BY <3>1, <3>2, <3>3
  <2>3. h = [n \in 0..(k + 1) |-> h[n]]
    OBVIOUS
  <2> HIDE DEF h
  <2>4. To(h, k + 1)
    BY <2>2, <2>3
  <2> QED
    BY <2>4
<1>3. m \in S
  <2> HIDE DEF S
  <2>1. Nat \subseteq S
    BY <1>1, <1>2, AllNaturals
  <2> QED
    BY <2>1
<1>4. Sum(s) = upTo[m]
  BY DEF Sum
<1>5. To(upTo, m)
  <2>1. \E g : To(g, m)
    BY <1>3
  <2> HIDE DEF To
  <2> QED
    BY <2>1
<1> HIDE DEF upTo
<1> QED
  BY <1>4, <1>5

\* A sum of natural numbers is one, no less than any of them; that of none is 0.
LEMMA SumOfNaturals ==
    ASSUME NEW m \in Nat, NEW s \in [1..m -> Nat]
    PROVE  /\ Sum(s) \in Nat
           /\ \A i \in 1..m : s[i] <= Sum(s)
           /\ m = 0 => Sum(s) = 0
<1>1. s \in Seq(Nat) /\ Len(s) = m
  OBVIOUS
<1>2. PICK u : /\ u = [n \in 0..m |-> IF n = 0 THEN 0 ELSE u[n - 1] + s[n]]
               /\ Sum(s) = u[m]
  BY <1>1, PartialSums
<1> DEFINE S == {k \in Nat : k <= m => /\ u[k] \in Nat
                                       /\ \A i \in 1..k : s[i] <= u[k]}
<1>3. u[0] = 0
  BY <1>2
<1>4. 0 \in S
  BY <1>3
<1>5. ASSUME NEW k \in Nat, k \in S
      PROVE  k + 1 \in S
  <2> SUFFICES ASSUME k + 1 <= m
               PROVE  /\ u[k + 1] \in Nat
                      /\ \A i \in 1..(k + 1) : s[i] <= u[k + 1]
    OBVIOUS
  <2>1. k <= m /\ k + 1 \in 0..m /\ k + 1 # 0 /\ (k + 1) - 1 = k /\ k + 1 \in 1..m
    OBVIOUS
  <2>2. u[k + 1] = u[k] + s[k + 1]
    BY <1>2, <2>1
  <2>3. u[k] \in Nat /\ s[k + 1] \in Nat /\ \A i \in 1..k : s[i] <= u[k]
    BY <1>5, <2>1
  <2>4. ASSUME NEW i \in 1..(k + 1)
        PROVE  s[i] <= u[k + 1]
    <3>1. CASE i \in 1..k
      <4>1. s[i] \in Nat /\ s[i] <= u[k]
        BY <2>1, <2>3, <3>1
      <4> QED
        BY <2>2, <2>3, <4>1
    <3>2. CASE i = k + 1
      BY <2>2, <2>3, <3>2
    <3> QED
      BY <3>1, <3>2
  <2> QED
    BY <2>2, <2>3, <2>4
<1> HIDE DEF S
<1>6. m \in S
  BY <1>4, <1>5, AllNaturals
<1> QED
  BY <1>2, <1>3, <1>6 DEF S

-----------------------------------------------------------------------------
(***************************************************************************)
(* Profiles, configs and the check.                                        *)
(***************************************************************************)
\* Every overlay takes its fields from paths of the config.
LEMMA OverlayPaths ==
    \A o \in Overlays : \A k \in DOMAIN o : o[k] \in Paths
<1> SUFFICES ASSUME NEW o \in Overlays, NEW k \in DOMAIN o
             PROVE  o[k] \in Paths
  OBVIOUS
<1>1. o[k] \in {o[j] : j \in DOMAIN o}
  OBVIOUS
<1>2. {o[j] : j \in DOMAIN o} \in {{x[j] : j \in DOMAIN x} : x \in Overlays}
  OBVIOUS
<1>3. o[k] \in UNION {{x[j] : j \in DOMAIN x} : x \in Overlays}
  BY <1>1, <1>2
<1> QED
  BY <1>3 DEF Paths

\* The paths that are named outside the overlays.
LEMMA NamedPaths ==
    {"system.name", "system.shortened_name", "system.availability", "system.size",
     "system.category", "system.cooling", "system.accelerator", "system.networking_topology",
     "submission.division", "submission.submitter", "submission.contact",
     "submission.notes.hardware", "submission.notes.software", "submission.container_link",
     "serving.url", "serving.node", "run.link_config", "training.framework",
     "training.framework_name"} \subseteq Paths
<1> USE OverlayPaths
<1>1. {EndpointsOverlay, NodeMeta, FlatOverlay, TrainingOverlay, Echoed} = Overlays
  BY DEF Overlays
<1>2. "system.name" \in Paths /\ "system.shortened_name" \in Paths
      /\ "system.availability" \in Paths /\ "system.size" \in Paths
      /\ "submission.division" \in Paths
  <2>1. \A k \in DOMAIN EndpointsOverlay : EndpointsOverlay[k] \in Paths
    BY <1>1
  <2> QED
    BY <2>1 DEF EndpointsOverlay
<1>3. "submission.container_link" \in Paths
  <2>1. \A k \in DOMAIN NodeMeta : NodeMeta[k] \in Paths
    BY <1>1
  <2> QED
    BY <2>1 DEF NodeMeta
<1>4. "system.category" \in Paths /\ "submission.contact" \in Paths
      /\ "submission.submitter" \in Paths /\ "system.cooling" \in Paths
      /\ "submission.notes.hardware" \in Paths /\ "submission.notes.software" \in Paths
  <2>1. \A k \in DOMAIN FlatOverlay : FlatOverlay[k] \in Paths
    BY <1>1
  <2> QED
    BY <2>1 DEF FlatOverlay
<1>5. "system.networking_topology" \in Paths /\ "training.framework" \in Paths
      /\ "training.framework_name" \in Paths
  <2>1. \A k \in DOMAIN TrainingOverlay : TrainingOverlay[k] \in Paths
    BY <1>1
  <2> QED
    BY <2>1 DEF TrainingOverlay
<1>6. "serving.url" \in Paths /\ "run.link_config" \in Paths
  <2>1. \A k \in DOMAIN Echoed : Echoed[k] \in Paths
    BY <1>1
  <2> QED
    BY <2>1 DEF Echoed
<1>7. "system.accelerator" \in Paths /\ "serving.node" \in Paths
  <2>1. ASSUME NEW x \in {"system.accelerator", "serving.node"}
        PROVE  x \in Paths
    BY <2>1 DEF Paths
  <2> QED
    BY <2>1
<1> QED
  BY <1>2, <1>3, <1>4, <1>5, <1>6, <1>7

\* The built-in profiles are profiles.
LEMMA BuiltInTyped == \A p \in Profiles : IsProfile(p)
<1>1. IsProfile(EndpointsProfile)
  <2>1. EndpointsProfile.requires \subseteq Paths
    BY NamedPaths DEF EndpointsProfile
  <2>2. EndpointsProfile.recommends \subseteq Paths
    BY NamedPaths DEF EndpointsProfile
  <2>3. EndpointsProfile.shape \in {"nested", "flat"} /\ EndpointsProfile.probe \in BOOLEAN
    BY DEF EndpointsProfile
  <2> QED
    BY <2>1, <2>2, <2>3 DEF IsProfile
<1>2. IsProfile(InferenceProfile)
  <2>1. InferenceProfile.requires \subseteq Paths
    BY NamedPaths DEF InferenceProfile
  <2>2. InferenceProfile.recommends \subseteq Paths
    BY NamedPaths DEF InferenceProfile
  <2>3. InferenceProfile.shape \in {"nested", "flat"} /\ InferenceProfile.probe \in BOOLEAN
    BY DEF InferenceProfile
  <2> QED
    BY <2>1, <2>2, <2>3 DEF IsProfile
<1>3. IsProfile(TrainingProfile)
  <2>1. TrainingProfile.requires \subseteq Paths
    BY NamedPaths DEF TrainingProfile
  <2>2. TrainingProfile.recommends \subseteq Paths
    BY NamedPaths DEF TrainingProfile
  <2>3. TrainingProfile.shape \in {"nested", "flat"} /\ TrainingProfile.probe \in BOOLEAN
    BY DEF TrainingProfile
  <2> QED
    BY <2>1, <2>2, <2>3 DEF IsProfile
<1> QED
  BY <1>1, <1>2, <1>3, CommandsAssumption DEF Profiles, BuiltIn

\* A profile that is known is found.
LEMMA KnownIsLoaded ==
    ASSUME NEW ref, Known(ref)
    PROVE  IsProfile(Load(ref)) /\ Load(ref) \in Profiles /\ Load(ref).ref = ref
<1>1. Load(ref) \in Profiles /\ Load(ref).ref = ref
  BY DEF Known, Load
<1> QED
  BY <1>1, BuiltInTyped

\* What is not a file has no field of a document or of a history ...
LEMMA NoFileHasNoFields ==
    /\ DOMAIN NoFile = {"content"} /\ DOMAIN Unreadable = {"content"}
    /\ NoFile # Unreadable
    /\ "content" \notin DocFields
    /\ "content" \notin OriginFields
<1>1. DOMAIN NoFile = {"content"} /\ DOMAIN Unreadable = {"content"} /\ NoFile # Unreadable
  BY DEF NoFile, Unreadable
<1> QED
  BY <1>1 DEF DocFields, OriginFields

\* ... and none of a config.
LEMMA ConfigIsAFile ==
    ASSUME NEW c, IsConfig(c)
    PROVE  c # NoFile /\ c # Unreadable
<1>1. "profile" \in DOMAIN c
  BY DEF IsConfig
<1>2. "profile" \notin {"content"}
  OBVIOUS
<1> QED
  BY <1>1, <1>2, NoFileHasNoFields

\* A config that loads and has no problems is one that the check lets through.
LEMMA NoProblemsIsPassed ==
    ASSUME ConfigTyped, ConfigLoads, ~HasProblems
    PROVE  Passed(config) /\ IsProfile(Load(config.profile))
<1> DEFINE p == Load(config.profile)
<1>1. IsConfig(config) /\ Known(config.profile)
  BY DEF ConfigTyped, ConfigLoads
<1>2. IsProfile(p)
  BY <1>1, KnownIsLoaded
<1>3. Check!MissingRequired = {} /\ Check!Placeholders(Paths) = {}
  BY DEF HasProblems
<1>4. Case.value = config.value /\ Case.requires = p.requires /\ Case.benchmark = p.benchmark
  BY DEF Case
<1>5. ASSUME NEW path \in Paths
      PROVE  config.value[path] \notin {"starter", "long starter"}
  BY <1>3, <1>4 DEF Check!Placeholders, Check!IsPlaceholder
<1>6. ASSUME NEW path \in p.requires
      PROVE  ~Blank(config.value[path])
  <2>1. Check!Empty(Case.requires) = {}
    BY <1>3 DEF Check!MissingRequired
  <2> QED
    BY <1>4, <2>1 DEF Check!Empty, Blank
<1>7. ASSUME p.benchmark = "training"
      PROVE  config.value["system.availability"] \in {"empty", "answer"}
  <2>1. ~Check!BadStatus
    BY <1>3 DEF Check!MissingRequired
  <2> QED
    BY <1>4, <1>7, <2>1 DEF Check!BadStatus
<1> QED
  BY <1>1, <1>2, <1>5, <1>6, <1>7 DEF Passed

-----------------------------------------------------------------------------
(***************************************************************************)
(* Documents.                                                              *)
(***************************************************************************)
\* A function on 1..m is a sequence of that length.
LEMMA FunctionLength ==
    ASSUME NEW m \in Nat, NEW f, f = [i \in 1..m |-> f[i]]
    PROVE  Len(f) = m
<1> DEFINE R == {f[i] : i \in 1..m}
<1>1. \A i \in 1..m : f[i] \in R
  OBVIOUS
<1> HIDE DEF R
<1>2. f \in [1..m -> R]
  BY <1>1
<1>3. f \in Seq(R) /\ DOMAIN f = 1..m
  BY <1>2
<1> QED
  BY <1>3

\* Node types of at least one node each have a node when there is any type.
LEMMA CountedNodes ==
    ASSUME NEW m \in Nat, NEW types, DOMAIN types = 1..m,
           \A i \in 1..m : types[i].nodes \in Nat \ {0}
    PROVE  /\ CountNodes(types) \in Nat
           /\ CountNodes(types) > 0 <=> m > 0
<1> DEFINE s == [i \in 1..m |-> types[i].nodes]
<1>1. s \in [1..m -> Nat]
  OBVIOUS
<1>2. CountNodes(types) = Sum(s)
  BY DEF CountNodes
<1>3. m > 0 => 1 \in 1..m /\ s[1] \in Nat \ {0}
  OBVIOUS
<1> HIDE DEF s
<1>4. Sum(s) \in Nat /\ (\A i \in 1..m : s[i] <= Sum(s)) /\ (m = 0 => Sum(s) = 0)
  BY <1>1, SumOfNaturals
<1>5. CASE m > 0
  <2>1. s[1] \in Nat /\ s[1] # 0 /\ s[1] <= Sum(s)
    BY <1>3, <1>4, <1>5
  <2>2. Sum(s) > 0
    BY <1>4, <2>1
  <2> QED
    BY <1>2, <1>4, <1>5, <2>2
<1>6. CASE m = 0
  BY <1>2, <1>4, <1>6
<1> QED
  BY <1>5, <1>6

\* What comes back from the automation is typed: the node types, where there
\* are any, are those of the hardware.
LEMMA ReturnedTyped ==
    ASSUME NEW p, NEW sent, NEW groups, NEW world \in Seq(NodeTypes), NEW release
    PROVE  LET d == Returned(p, sent, groups, world, release)
           IN /\ TypesTyped(d.types)
              /\ d.nodes \in Nat
              /\ d.nested \in BOOLEAN
              /\ d.nested =>
                     /\ DOMAIN d.types = DOMAIN world
                     /\ \A i \in DOMAIN world :
                            /\ d.types[i].accelerators = world[i].accelerators
                            /\ d.types[i].nodes = world[i].nodes
<1>1. /\ Len(world) \in Nat
      /\ DOMAIN world = 1..Len(world)
      /\ \A i \in DOMAIN world : world[i].nodes \in Nat \ {0}
  <2>1. Len(world) \in Nat /\ DOMAIN world = 1..Len(world)
    OBVIOUS
  <2>2. ASSUME NEW i \in 1..Len(world) PROVE world[i] \in NodeTypes
    OBVIOUS
  <2> QED
    BY <2>1, <2>2 DEF NodeTypes
<1>2. CASE release = "old" \/ p.benchmark \in {"endpoints", "none"}
  <2> DEFINE ts == Nested(sent, groups, world).types
  <2>1. Returned(p, sent, groups, world, release) = Nested(sent, groups, world)
    BY <1>2 DEF Returned
  <2>2. Nested(sent, groups, world).nested = TRUE /\ Nested(sent, groups, world).nodes = 0
    BY DEF Nested
  <2>3. DOMAIN ts = DOMAIN world /\ ts = [i \in 1..Len(world) |-> ts[i]]
    BY <1>1 DEF Nested
  <2>4. \A i \in DOMAIN world : /\ ts[i].nodes = world[i].nodes
                                /\ ts[i].accelerators = world[i].accelerators
                                /\ DOMAIN ts[i] = {"nodes", "accelerators", "cells"}
    BY DEF Nested
  <2> HIDE DEF ts
  <2>5. Len(ts) = Len(world)
    BY <1>1, <2>3, FunctionLength
  <2>6. TypesTyped(ts)
    BY <1>1, <2>3, <2>4, <2>5 DEF TypesTyped
  <2>7. Nested(sent, groups, world).types = ts
    BY DEF ts
  <2> DEFINE d == Returned(p, sent, groups, world, release)
  <2>8. d.types = ts
    BY <2>1, <2>7
  <2>10. d.nodes \in Nat
    BY <2>1, <2>2
  <2>13. d.nested \in BOOLEAN
    BY <2>1, <2>2
  <2> HIDE DEF d
  <2>9. TypesTyped(d.types)
    BY <2>6, <2>8
  <2>11. DOMAIN d.types = DOMAIN world
    BY <2>3, <2>8
  <2>12. \A i \in DOMAIN world : /\ d.types[i].accelerators = world[i].accelerators
                                 /\ d.types[i].nodes = world[i].nodes
    BY <2>4, <2>8
  <2> QED
    BY <2>9, <2>10, <2>11, <2>12, <2>13 DEF d
<1>3. CASE ~(release = "old" \/ p.benchmark \in {"endpoints", "none"})
  <2>1. Returned(p, sent, groups, world, release) = Flat(world)
    BY <1>3 DEF Returned
  <2>2. Flat(world).nested = FALSE /\ Flat(world).types = <<>>
        /\ Flat(world).nodes = CountNodes(world)
    BY DEF Flat
  <2>3. CountNodes(world) \in Nat
    BY <1>1, CountedNodes
  <2>4. TypesTyped(<<>>)
    BY DEF TypesTyped
  <2> DEFINE d == Returned(p, sent, groups, world, release)
  <2>5. TypesTyped(d.types) /\ d.nodes \in Nat
    BY <2>1, <2>2, <2>3, <2>4
  <2>6. d.nested \in BOOLEAN /\ d.nested = FALSE
    BY <2>1, <2>2
  <2> HIDE DEF d
  <2>7. /\ TypesTyped(d.types) /\ d.nodes \in Nat /\ d.nested \in BOOLEAN
        /\ d.nested => /\ DOMAIN d.types = DOMAIN world
                       /\ \A i \in DOMAIN world :
                              /\ d.types[i].accelerators = world[i].accelerators
                              /\ d.types[i].nodes = world[i].nodes
    BY <2>5, <2>6
  <2> QED
    BY <2>7 DEF d
<1> QED
  BY <1>2, <1>3

\* The nodes counted in what came back are those of the hardware.
LEMMA CollectedNodes ==
    ASSUME NEW p, NEW sent, NEW groups, NEW world \in Seq(NodeTypes), NEW release
    PROVE  CountCollectedNodes(Returned(p, sent, groups, world, release)) = CountNodes(world)
<1>1. CASE release = "old" \/ p.benchmark \in {"endpoints", "none"}
  <2> DEFINE ts == Nested(sent, groups, world).types
  <2>1. /\ Returned(p, sent, groups, world, release) = Nested(sent, groups, world)
        /\ Nested(sent, groups, world).nested = TRUE
    BY <1>1 DEF Returned, Nested
  <2>2. CountCollectedNodes(Returned(p, sent, groups, world, release)) = CountNodes(ts)
    BY <2>1 DEF CountCollectedNodes
  <2>3. DOMAIN ts = DOMAIN world /\ \A i \in DOMAIN world : ts[i].nodes = world[i].nodes
    BY DEF Nested
  <2> HIDE DEF ts
  <2>4. CountNodes(ts) = CountNodes(world)
    BY <2>3 DEF CountNodes
  <2> QED
    BY <2>2, <2>4
<1>2. CASE ~(release = "old" \/ p.benchmark \in {"endpoints", "none"})
  <2>1. Returned(p, sent, groups, world, release) = Flat(world)
    BY <1>2 DEF Returned
  <2>2. Flat(world).nested = FALSE /\ Flat(world).nodes = CountNodes(world)
    BY DEF Flat
  <2> QED
    BY <2>1, <2>2 DEF CountCollectedNodes
<1> QED
  BY <1>1, <1>2

\* A shaped document is the stamp and what the builder of its shape made.
LEMMA ShapeFields ==
    ASSUME NEW collected, NEW value, NEW p, NEW partial
    PROVE  LET doc == Shape(collected, value, p, partial)
               b == Built(collected, value, p)
           IN /\ DOMAIN doc = DocFields
              /\ doc.cells = b.cells /\ doc.types = b.types /\ doc.nodes = b.nodes
              /\ doc.sizes = b.sizes
<1> DEFINE b == Built(collected, value, p)
           stamp == [profile |-> p.name, shape |-> p.shape,
                     benchmark |-> p.benchmark, complete |-> ~partial]
           doc == Shape(collected, value, p, partial)
<1>1. DOMAIN BuildTraining(collected, value) = DocFields \ {"stamp"}
  BY DEF BuildTraining, DocFields
<1>2. DOMAIN BuildEndpoints(collected, value) = DocFields \ {"stamp"}
  BY DEF BuildEndpoints, DocFields
<1>3. DOMAIN BuildFlat(collected, value, p) = DocFields \ {"stamp"}
  BY DEF BuildFlat, DocFields
<1>4. DOMAIN b = DocFields \ {"stamp"}
  BY <1>1, <1>2, <1>3 DEF Built
<1>5. doc = Over([stamp |-> stamp], b)
  BY DEF Shape
<1> HIDE DEF b, stamp, doc
<1>6. /\ DOMAIN doc = DocFields
      /\ doc.cells = b.cells /\ doc.types = b.types /\ doc.nodes = b.nodes
      /\ doc.sizes = b.sizes
  BY <1>4, <1>5 DEF Over, DocFields
<1> QED
  BY <1>6 DEF b, doc

\* The stamp says the profile, its shape and benchmark, and whether it is complete.
LEMMA ShapeStamp ==
    ASSUME NEW collected, NEW value, NEW p, NEW partial
    PROVE  Shape(collected, value, p, partial).stamp =
               [profile |-> p.name, shape |-> p.shape,
                benchmark |-> p.benchmark, complete |-> ~partial]
<1> DEFINE stamp == [profile |-> p.name, shape |-> p.shape,
                     benchmark |-> p.benchmark, complete |-> ~partial]
           b == Built(collected, value, p)
           doc == Shape(collected, value, p, partial)
<1>1. doc = Over([stamp |-> stamp], b)
  BY DEF Shape
<1> HIDE DEF b, stamp, doc
<1>2. doc.stamp = stamp
  BY <1>1 DEF Over
<1> QED
  BY <1>2 DEF stamp, doc

\* The builders keep the node types and the number of nodes typed.
LEMMA BuiltTyped ==
    ASSUME NEW collected, TypesTyped(collected.types), collected.nodes \in Nat,
           NEW value, NEW p
    PROVE  /\ TypesTyped(Built(collected, value, p).types)
           /\ Built(collected, value, p).nodes \in Nat
<1>1. TypesTyped(BuildTraining(collected, value).types)
  <2>1. BuildTraining(collected, value).types = <<>>
    BY DEF BuildTraining
  <2> QED
    BY <2>1 DEF TypesTyped
<1>2. BuildTraining(collected, value).nodes = collected.nodes
  BY DEF BuildTraining
<1>3. TypesTyped(BuildEndpoints(collected, value).types)
  <2> DEFINE ts == BuildEndpoints(collected, value).types
             m == Len(collected.types)
  <2>1. m \in Nat /\ DOMAIN collected.types = 1..m
    BY DEF TypesTyped
  <2>2. ts = [i \in 1..m |->
                 [collected.types[i] EXCEPT
                     !.cells = Over(From(NodeMeta, value), Ordered(@, EndpointsNodeFields))]]
    BY <2>1 DEF BuildEndpoints
  <2> HIDE DEF ts
  <2>3. DOMAIN ts = 1..m /\ ts = [i \in 1..m |-> ts[i]]
    BY <2>2
  <2> HIDE DEF m
  <2>4. Len(ts) = m
    BY <2>1, <2>3, FunctionLength
  <2>5. ASSUME NEW i \in 1..m
        PROVE  /\ {"nodes", "accelerators"} \subseteq DOMAIN ts[i]
               /\ ts[i].nodes \in Nat \ {0}
    <3>1. /\ {"nodes", "accelerators"} \subseteq DOMAIN collected.types[i]
          /\ collected.types[i].nodes \in Nat \ {0}
      BY <2>1 DEF TypesTyped
    <3>2. DOMAIN ts[i] = DOMAIN collected.types[i]
      BY <2>2
    <3>3. ts[i].nodes = collected.types[i].nodes
      BY <2>2, <3>1
    <3> QED
      BY <3>1, <3>2, <3>3
  <2>6. TypesTyped(ts)
    BY <2>1, <2>3, <2>4, <2>5 DEF TypesTyped
  <2> QED
    BY <2>6 DEF ts
<1>4. BuildEndpoints(collected, value).nodes = 0
  BY DEF BuildEndpoints
<1>5. /\ BuildFlat(collected, value, p).types = collected.types
      /\ BuildFlat(collected, value, p).nodes = collected.nodes
  BY DEF BuildFlat
<1>6. CASE p.benchmark = "training"
  <2>1. Built(collected, value, p) = BuildTraining(collected, value)
    BY <1>6 DEF Built
  <2> QED
    BY <1>1, <1>2, <2>1
<1>7. CASE p.benchmark # "training" /\ p.shape = "nested"
  <2>1. Built(collected, value, p) = BuildEndpoints(collected, value)
    BY <1>7 DEF Built
  <2> QED
    BY <1>3, <1>4, <2>1
<1>8. CASE p.benchmark # "training" /\ p.shape # "nested"
  <2>1. Built(collected, value, p) = BuildFlat(collected, value, p)
    BY <1>8 DEF Built
  <2> QED
    BY <1>5, <2>1
<1> QED
  BY <1>6, <1>7, <1>8

\* So is the document that is written.
LEMMA ShapeTyped ==
    ASSUME NEW p, NEW sent, NEW groups, NEW world \in Seq(NodeTypes), NEW release,
           NEW value, NEW partial
    PROVE  LET doc == Shape(Returned(p, sent, groups, world, release), value, p, partial)
           IN /\ DOMAIN doc = DocFields
              /\ DOMAIN doc.stamp = StampFields
              /\ doc.stamp.complete = ~partial
              /\ TypesTyped(doc.types)
              /\ doc.nodes \in Nat
<1> DEFINE d == Returned(p, sent, groups, world, release)
           doc == Shape(d, value, p, partial)
           b == Built(d, value, p)
<1>1. TypesTyped(d.types) /\ d.nodes \in Nat
  BY ReturnedTyped
<1> HIDE DEF d
<1>2. TypesTyped(b.types) /\ b.nodes \in Nat
  BY <1>1, BuiltTyped
<1>3. /\ DOMAIN doc = DocFields
      /\ doc.types = b.types /\ doc.nodes = b.nodes
  BY ShapeFields
<1>6. doc.stamp = [profile |-> p.name, shape |-> p.shape,
                   benchmark |-> p.benchmark, complete |-> ~partial]
  BY ShapeStamp
<1> HIDE DEF doc, b
<1>4. DOMAIN doc.stamp = StampFields /\ doc.stamp.complete = ~partial
  BY <1>6 DEF StampFields
<1>5. TypesTyped(doc.types) /\ doc.nodes \in Nat
  BY <1>2, <1>3
<1> QED
  BY <1>3, <1>4, <1>5 DEF doc, d

-----------------------------------------------------------------------------
(***************************************************************************)
(* The invariant is inductive.                                             *)
(***************************************************************************)
\* What a command writes in last, when it knows of no accelerator.
LEMMA EndsFields ==
    ASSUME NEW command, NEW code, NEW why, Ends(command, code, why)
    PROVE  last'.command = command /\ last'.code = code /\ last'.why = why
BY DEF Ends, Ended

\* What a capture that wrote its file writes there: the code of its verdict,
\* unless something cut it short.
LEMMA EndingsFields ==
    ASSUME NEW code, NEW seen, last' \in Endings(code, seen)
    PROVE  /\ last'.command = "capture"
           /\ \/ last'.code = code /\ last'.why = "none"
              \/ last'.code = 1 /\ last'.why = "exception"
              \/ last'.code = 130 /\ last'.why = "interrupted"
BY DEF Endings, Ended

\* A session starts with a config, or none, and no output file.
LEMMA InitHolds == Init => IInv
<1> SUFFICES ASSUME Init PROVE IInv
  OBVIOUS
<1>1. ConfigTyped
  BY CommandsAssumption DEF Init, ConfigTyped
<1>2. ~Readable(out) /\ origin = NoFile
  BY DEF Init, Readable
<1>3. FileTyped
  BY <1>2 DEF FileTyped
<1>4. last.command = "none" /\ last.code = 0
  BY DEF Init, Ended
<1>5. CodeTyped /\ FoundValid
  BY <1>4 DEF CodeTyped, FoundValid
<1>6. MadeFromOrigin
  BY <1>2 DEF MadeFromOrigin, Untouched
<1> QED
  BY <1>1, <1>3, <1>5, <1>6 DEF IInv

\* What is known of the output file stays known while nobody writes it.
LEMMA FileKept ==
    ASSUME FileTyped, MadeFromOrigin, UNCHANGED <<out, origin>>
    PROVE  FileTyped' /\ MadeFromOrigin'
<1>1. FileTyped'
  BY DEF FileTyped, Readable
<1>2. MadeFromOrigin'
  BY DEF MadeFromOrigin, Untouched, Origin, Collected, Readable
<1> QED
  BY <1>1, <1>2

LEMMA ConfigKept ==
    ASSUME ConfigTyped, UNCHANGED config
    PROVE  ConfigTyped'
BY DEF ConfigTyped

\* A starter config is a config.
LEMMA TemplateTyped ==
    ASSUME NEW ref
    PROVE  IsConfig(Template(ref))
<1>1. ASSUME NEW path \in Paths
      PROVE  (CASE path \in ToFill(ref) -> "starter"
                [] path \in Preset(ref) -> "answer"
                [] OTHER -> "empty") \in Said
  BY DEF Said
<1>2. Template(ref).value \in [Paths -> Said]
  BY <1>1 DEF Template
<1>3. DOMAIN Template(ref) = {"profile", "accelerator", "groups", "value"}
      /\ Template(ref).accelerator \in BOOLEAN /\ Template(ref).groups \in Nat
  BY DEF Template
<1> QED
  BY <1>2, <1>3 DEF IsConfig

\* So is one that was filled in.
LEMMA FilledTyped ==
    ASSUME NEW c, IsConfig(c)
    PROVE  IsConfig(Filled(c))
<1>1. DOMAIN Filled(c) = DOMAIN c /\ Filled(c).accelerator = c.accelerator
      /\ Filled(c).groups = c.groups
  BY DEF Filled, IsConfig
<1>2. Filled(c).value =
          [p \in Paths |-> IF c.value[p] = "starter" THEN "answer" ELSE c.value[p]]
  BY DEF Filled, IsConfig
<1>3. Filled(c).value \in [Paths -> Said]
  BY <1>2 DEF IsConfig, Said
<1> QED
  BY <1>1, <1>3 DEF IsConfig

\* init writes a template, which is a config, or nothing.
LEMMA InitConfigKeeps ==
    ASSUME IInv, NEW ref, NEW force, InitConfig(ref, force)
    PROVE  IInv'
<1> USE DEF IInv
<1>1. UNCHANGED <<out, origin>>
  BY DEF InitConfig
<1>2. FileTyped' /\ MadeFromOrigin'
  BY <1>1, FileKept
<1>3. last'.command = "init" /\ last'.code \in {0, 2}
  BY EndsFields DEF InitConfig
<1>4. CodeTyped' /\ FoundValid'
  BY <1>3 DEF CodeTyped, FoundValid
<1>5. ConfigTyped'
  <2>1. CASE config' = Template(ref)
    BY <2>1, TemplateTyped DEF ConfigTyped
  <2>2. CASE UNCHANGED config
    BY <2>2, ConfigKept
  <2> QED
    BY <2>1, <2>2 DEF InitConfig
<1> QED
  BY <1>2, <1>4, <1>5

\* A submitter writes one of the configs, or fills in the one there is.
LEMMA EditConfigKeeps ==
    ASSUME IInv, EditConfig
    PROVE  IInv'
<1> USE DEF IInv
<1>1. UNCHANGED <<out, origin>>
  BY DEF EditConfig
<1>2. FileTyped' /\ MadeFromOrigin'
  BY <1>1, FileKept
<1>3. last'.command = "edit" /\ last'.code = 0
  BY EndsFields DEF EditConfig
<1>4. CodeTyped' /\ FoundValid'
  BY <1>3 DEF CodeTyped, FoundValid
<1>5. ConfigTyped'
  <2>1. CASE config' \in Edits
    BY <2>1, CommandsAssumption DEF ConfigTyped
  <2>2. CASE config \notin {NoFile, Unreadable} /\ config' = Filled(config)
    BY <2>2, FilledTyped DEF ConfigTyped
  <2> QED
    BY <2>1, <2>2 DEF EditConfig
<1> QED
  BY <1>2, <1>4, <1>5

\* The commands that change neither file.
LEMMA CheckKeeps ==
    ASSUME IInv, NEW reached, RunCheck(reached)
    PROVE  IInv'
<1> USE DEF IInv
<1>1. UNCHANGED <<config, out, origin>>
  BY DEF RunCheck
<1>2. ConfigTyped' /\ FileTyped' /\ MadeFromOrigin'
  BY <1>1, FileKept, ConfigKept
<1>3. last'.command = "check" /\ last'.code \in {0, 1, 2}
  BY EndsFields DEF RunCheck
<1>4. CodeTyped' /\ FoundValid'
  BY <1>3 DEF CodeTyped, FoundValid
<1> QED
  BY <1>2, <1>4

\* A check, or a capture refused before it collects, touches neither file.
LEMMA RefusedKeeps ==
    ASSUME IInv, NEW allow, NEW reached, CaptureRefused(allow, reached)
    PROVE  IInv'
<1> USE DEF IInv
<1>1. UNCHANGED <<config, out, origin>>
  BY DEF CaptureRefused
<1>2. ConfigTyped' /\ FileTyped' /\ MadeFromOrigin'
  BY <1>1, FileKept, ConfigKept
<1>3. last'.command = "capture" /\ last'.code \in {1, 2}
  BY EndsFields DEF CaptureRefused
<1>4. CodeTyped' /\ FoundValid'
  BY <1>3 DEF CodeTyped, FoundValid
<1> QED
  BY <1>2, <1>4

\* So does a capture that fails before it writes.
LEMMA FailsKeeps ==
    ASSUME IInv, CaptureFails
    PROVE  IInv'
<1> USE DEF IInv
<1>1. UNCHANGED <<config, out, origin>>
  BY DEF CaptureFails
<1>2. ConfigTyped' /\ FileTyped' /\ MadeFromOrigin'
  BY <1>1, FileKept, ConfigKept
<1>3. last'.command = "capture" /\ last'.code \in {2, 130}
  BY EndsFields DEF CaptureFails
<1>4. CodeTyped' /\ FoundValid'
  BY <1>3 DEF CodeTyped, FoundValid
<1> QED
  BY <1>2, <1>4

\* show touches neither file.
LEMMA ShowKeeps ==
    ASSUME IInv, Show
    PROVE  IInv'
<1> USE DEF IInv
<1>1. UNCHANGED <<config, out, origin>>
  BY DEF Show
<1>2. ConfigTyped' /\ FileTyped' /\ MadeFromOrigin'
  BY <1>1, FileKept, ConfigKept
<1>3. last'.command = "show" /\ last'.code \in {0, 2}
  BY EndsFields DEF Show
<1>4. CodeTyped' /\ FoundValid'
  BY <1>3 DEF CodeTyped, FoundValid
<1> QED
  BY <1>2, <1>4

\* validate touches neither file, and answers 0 only when it found no problem.
LEMMA ValidateKeeps ==
    ASSUME IInv, NEW override, Validate(override)
    PROVE  IInv'
<1> USE DEF IInv
<1> DEFINE ref == IF override # "none" THEN override ELSE out.stamp.profile
<1>1. UNCHANGED <<config, out, origin>>
  BY DEF Validate
<1>2. ConfigTyped' /\ FileTyped' /\ MadeFromOrigin'
  BY <1>1, FileKept, ConfigKept
<1>3. \/ Ends("validate", 2, "file")
      \/ Ends("validate", 2, "profile")
      \/ Ends("validate", 1, "problems")
      \/ /\ Readable(out) /\ Known(ref) /\ Problems(out, Load(ref)) = {}
         /\ Ends("validate", 0, ref)
  BY DEF Validate
<1> HIDE DEF ref
<1>4. CASE last'.code # 0 /\ last'.code \in {1, 2}
  BY <1>2, <1>4 DEF CodeTyped, FoundValid
<1>5. CASE /\ Readable(out) /\ Known(ref) /\ Problems(out, Load(ref)) = {}
           /\ Ends("validate", 0, ref)
  <2>1. last'.code = 0 /\ last'.why = ref
    BY <1>5, EndsFields
  <2>2. Readable(out') /\ Known(last'.why) /\ Problems(out', Load(last'.why)) = {}
    BY <1>1, <1>5, <2>1
  <2>3. CodeTyped' /\ FoundValid'
    BY <2>1, <2>2 DEF CodeTyped, FoundValid
  <2> QED
    BY <1>2, <2>3
<1> QED
  BY <1>3, <1>4, <1>5, EndsFields

\* A torn write leaves the file as it was, or one that cannot be read.
LEMMA TornKeeps ==
    ASSUME IInv, CaptureTorn
    PROVE  IInv'
<1> USE DEF IInv
<1>1. ConfigTyped'
  BY ConfigKept DEF CaptureTorn
<1>2. last'.command = "capture" /\ last'.code \in {1, 130}
  BY EndsFields DEF CaptureTorn
<1>3. CodeTyped' /\ FoundValid'
  BY <1>2 DEF CodeTyped, FoundValid
<1>4. CASE out' = out
  <2>1. UNCHANGED <<out, origin>>
    BY <1>4 DEF CaptureTorn
  <2> QED
    BY <1>1, <1>3, <2>1, FileKept
<1>5. CASE out' # out
  <2>1. out' = Unreadable /\ origin' = NoFile
    BY <1>5 DEF CaptureTorn
  <2>2. ~Readable(out')
    BY <2>1 DEF Readable
  <2>3. FileTyped' /\ MadeFromOrigin'
    BY <2>1, <2>2 DEF FileTyped, MadeFromOrigin, Untouched
  <2> QED
    BY <1>1, <1>3, <2>3
<1> QED
  BY <1>4, <1>5

\* What the judgement of a collection leaves of it when nothing is refused.
LEMMA ResultFit ==
    ASSUME NEW world \in Seq(NodeTypes), NEW release, NEW reached, NEW allow \in BOOLEAN,
           Result(world, release, reached, allow).refused = "none"
    PROVE  LET p == Load(config.profile)
               collected == Returned(p, Sent(config.value, p), config.groups, world, release)
               r == Result(world, release, reached, allow)
           IN /\ CountCollectedNodes(collected) > 0
              /\ ~ShapeRefuses(collected, p)
              /\ r.partial \in BOOLEAN
              /\ r.doc = Shape(collected, config.value, p, r.partial)
              /\ ~r.partial => CountNodes(world) >= Expected
              /\ ~r.partial /\ config.accelerator => AcceleratorCount(r.doc) # 0
<1> DEFINE p == Load(config.profile)
           collected == Returned(p, Sent(config.value, p), config.groups, world, release)
           n == CountCollectedNodes(collected)
           r == Result(world, release, reached, allow)
<1>1. n \in Nat
  <2>1. TypesTyped(collected.types) /\ collected.nodes \in Nat
    BY ReturnedTyped
  <2> HIDE DEF collected
  <2>2. CountNodes(collected.types) \in Nat
    BY <2>1, CountedNodes DEF TypesTyped
  <2> QED
    BY <2>1, <2>2 DEF CountCollectedNodes
<1>2. Expected \in Nat
  BY CommandsAssumption
<1>3. r.partial = (reached # "all" \/ n < Expected)
  BY DEF Result
<1>4. r.doc = Shape(collected, config.value, p, r.partial)
  BY DEF Result
<1>5. r.refused =
        CASE n = 0 -> "no hardware"
          [] n > 0 /\ n < Expected /\ ~allow -> "fewer nodes"
          [] n > 0 /\ (n >= Expected \/ allow) /\ ShapeRefuses(collected, p) ->
                 "wrong field set"
          [] OTHER -> IF config.accelerator /\ ~r.partial /\ AcceleratorCount(r.doc) = 0
                        THEN "no accelerator" ELSE "none"
  BY DEF Result
<1>6. r.refused = "none"
  OBVIOUS
<1>11. n = CountNodes(world)
  BY CollectedNodes
<1> HIDE DEF p, collected, n, r
<1>7. n # 0
  BY <1>5, <1>6
<1>8. n > 0
  <2>1. \A k \in Nat : k # 0 => k > 0
    OBVIOUS
  <2> QED
    BY <1>1, <1>7, <2>1
<1>9. ~ShapeRefuses(collected, p)
  <2>1. n < Expected \/ n >= Expected
    <3>1. \A k, l \in Nat : k < l \/ k >= l
      OBVIOUS
    <3> QED
      BY <1>1, <1>2, <3>1
  <2>2. CASE n < Expected /\ ~allow
    BY <1>5, <1>6, <1>7, <1>8, <2>2
  <2>3. CASE (n >= Expected \/ allow) /\ ShapeRefuses(collected, p)
    BY <1>5, <1>6, <1>7, <1>8, <2>3
  <2> QED
    BY <2>1, <2>2, <2>3
<1>10. r.partial \in BOOLEAN
  BY <1>3
<1>12. ~r.partial => n >= Expected
  <2>1. \A k, l \in Nat : ~(k < l) => k >= l
    OBVIOUS
  <2> QED
    BY <1>1, <1>2, <1>3, <2>1
<1>13. ~r.partial /\ config.accelerator => AcceleratorCount(r.doc) # 0
  <2>1. ASSUME ~r.partial, config.accelerator, AcceleratorCount(r.doc) = 0
        PROVE  FALSE
    <3>1. ~(n < Expected)
      BY <1>3, <2>1
    <3> QED
      BY <1>5, <1>6, <1>7, <1>9, <2>1, <3>1
  <2> QED
    BY <2>1
<1>14. ~r.partial => CountNodes(world) >= Expected
  BY <1>11, <1>12
<1> QED
  BY <1>4, <1>8, <1>9, <1>10, <1>13, <1>14 DEF p, collected, n, r

\* What a capture that nothing refuses leaves in the output file.
LEMMA AnswerWrites ==
    ASSUME NEW world \in Worlds, NEW release, NEW reached, NEW allow \in BOOLEAN,
           Answers(world, release, reached, allow),
           Result(world, release, reached, allow).refused = "none"
    PROVE  LET r == Result(world, release, reached, allow)
               p == Load(config.profile)
               collected == Returned(p, Sent(config.value, p), config.groups, world, release)
           IN /\ r.partial \in BOOLEAN
              /\ CountCollectedNodes(collected) > 0
              /\ ~ShapeRefuses(collected, p)
              /\ out' = Shape(collected, config.value, p, r.partial)
              /\ origin' = [config |-> config, world |-> world, release |-> release,
                            edited |-> FALSE]
              /\ DOMAIN out' = DocFields /\ DOMAIN out'.stamp = StampFields
              /\ out'.stamp.complete = ~r.partial
              /\ TypesTyped(out'.types) /\ out'.nodes \in Nat
              /\ Readable(out')
              /\ ~r.partial => CountNodes(world) >= Expected
              /\ ~r.partial /\ config.accelerator => AcceleratorCount(out') # 0
<1> DEFINE r == Result(world, release, reached, allow)
           p == Load(config.profile)
           collected == Returned(p, Sent(config.value, p), config.groups, world, release)
<1>1. /\ out' = r.doc
      /\ origin' = [config |-> config, world |-> world, release |-> release,
                    edited |-> FALSE]
  BY DEF Answers
<1>2. world \in Seq(NodeTypes)
  BY CommandsAssumption
<1>3. /\ CountCollectedNodes(collected) > 0
      /\ ~ShapeRefuses(collected, p)
      /\ r.partial \in BOOLEAN
      /\ r.doc = Shape(collected, config.value, p, r.partial)
      /\ ~r.partial => CountNodes(world) >= Expected
      /\ ~r.partial /\ config.accelerator => AcceleratorCount(r.doc) # 0
  BY <1>2, ResultFit
<1> HIDE DEF r
<1>4. /\ DOMAIN out' = DocFields /\ DOMAIN out'.stamp = StampFields
      /\ out'.stamp.complete = ~r.partial
      /\ TypesTyped(out'.types) /\ out'.nodes \in Nat
  BY <1>1, <1>2, <1>3, ShapeTyped
<1>5. Readable(out')
  BY <1>4, NoFileHasNoFields DEF Readable
<1>6. out' = Shape(collected, config.value, p, r.partial)
  BY <1>1, <1>3
<1> HIDE DEF collected, p
<1>7. /\ r.partial \in BOOLEAN
      /\ CountCollectedNodes(collected) > 0
      /\ ~ShapeRefuses(collected, p)
      /\ out' = Shape(collected, config.value, p, r.partial)
      /\ origin' = [config |-> config, world |-> world, release |-> release,
                    edited |-> FALSE]
      /\ DOMAIN out' = DocFields /\ DOMAIN out'.stamp = StampFields
      /\ out'.stamp.complete = ~r.partial
      /\ TypesTyped(out'.types) /\ out'.nodes \in Nat
      /\ Readable(out')
      /\ ~r.partial => CountNodes(world) >= Expected
      /\ ~r.partial /\ config.accelerator => AcceleratorCount(out') # 0
  BY <1>1, <1>3, <1>4, <1>5, <1>6
<1> QED
  BY <1>7 DEF r, collected, p

\* A capture that answers writes the shape of what it collected, under the
\* config that passed the check, or leaves the file alone.
LEMMA AnsweredKeeps ==
    ASSUME IInv, CaptureAnswered
    PROVE  IInv'
<1> USE DEF IInv
<1>1. ConfigTyped' /\ UNCHANGED config
  BY ConfigKept DEF CaptureAnswered
<1>2. PICK world \in Worlds, release \in {"current", "old"},
           reached \in Reaches \ {"none"}, allow \in BOOLEAN :
          Answers(world, release, reached, allow)
  BY DEF CaptureAnswered
<1> DEFINE r == Result(world, release, reached, allow)
<1>3. last'.command = "capture" /\ last'.code \in {0, 1, 2, 130}
  <2>1. CASE r.refused # "none"
    BY <1>2, <2>1 DEF Answers, Ended
  <2>2. CASE r.refused = "none" /\ r.partial
    <3>1. last' \in Endings(1, Seen(world))
      BY <1>2, <2>2 DEF Answers
    <3> QED
      BY <3>1, EndingsFields
  <2>3. CASE r.refused = "none" /\ ~r.partial
    <3>1. last' \in Endings(0, Seen(world))
      BY <1>2, <2>3 DEF Answers
    <3> QED
      BY <3>1, EndingsFields
  <2> QED
    BY <2>1, <2>2, <2>3
<1>4. CodeTyped' /\ FoundValid'
  BY <1>3 DEF CodeTyped, FoundValid
<1>5. CASE r.refused # "none"
  <2>1. UNCHANGED <<out, origin>>
    BY <1>2, <1>5 DEF Answers
  <2> QED
    BY <1>1, <1>4, <2>1, FileKept
<1>6. CASE r.refused = "none"
  <2> DEFINE p == Load(config.profile)
             collected == Returned(p, Sent(config.value, p), config.groups, world, release)
  <2>1. /\ r.partial \in BOOLEAN
        /\ CountCollectedNodes(collected) > 0
        /\ ~ShapeRefuses(collected, p)
        /\ out' = Shape(collected, config.value, p, r.partial)
        /\ origin' = [config |-> config, world |-> world, release |-> release,
                      edited |-> FALSE]
    BY <1>2, <1>6, AnswerWrites
  <2>2. /\ DOMAIN out' = DocFields /\ DOMAIN out'.stamp = StampFields
        /\ out'.stamp.complete = ~r.partial
        /\ TypesTyped(out'.types) /\ out'.nodes \in Nat
        /\ Readable(out')
    BY <1>2, <1>6, AnswerWrites
  <2>3. world \in Seq(NodeTypes)
    BY CommandsAssumption
  <2> HIDE DEF r, collected, p
  <2>4. DOMAIN origin' = OriginFields /\ origin'.edited = FALSE
    BY <2>1 DEF OriginFields
  <2>5. origin' # NoFile
    BY <2>4, NoFileHasNoFields
  <2>6. FileTyped'
    BY <2>2, <2>4, <2>5 DEF FileTyped
  <2>7. ConfigLoads /\ ~HasProblems
    BY DEF CaptureAnswered
  <2>8. Passed(config)
    BY <2>7, NoProblemsIsPassed
  <2>9. out'.stamp.complete \in BOOLEAN /\ r.partial = ~out'.stamp.complete
    BY <2>1, <2>2
  <2>10. /\ origin'.config = config /\ origin'.world = world /\ origin'.release = release
         /\ p = Load(origin'.config.profile)
    BY <2>1 DEF p
  <2>11. collected = Returned(Load(origin'.config.profile),
                              Sent(origin'.config.value, Load(origin'.config.profile)),
                              origin'.config.groups, origin'.world, origin'.release)
    BY <2>10 DEF collected
  <2>12. out' = Shape(collected, config.value, p, ~out'.stamp.complete)
    BY <2>1, <2>9
  <2>13. MadeFromOrigin'
    BY <2>1, <2>3, <2>8, <2>9, <2>10, <2>11, <2>12
       DEF MadeFromOrigin, Collected, Origin
  <2> QED
    BY <1>1, <1>4, <2>6, <2>13
<1> QED
  BY <1>5, <1>6

\* A file that the submitter edits remains a typed document.
LEMMA EditFileKeeps ==
    ASSUME IInv, EditFile
    PROVE  IInv'
<1> USE DEF IInv
<1>1. ConfigTyped'
  BY ConfigKept DEF EditFile
<1>2. last'.command = "edit" /\ last'.code = 0
  BY EndsFields DEF EditFile
<1>3. CodeTyped' /\ FoundValid'
  BY <1>2 DEF CodeTyped, FoundValid
<1>4. /\ DOMAIN out = DocFields /\ DOMAIN out.stamp = StampFields
      /\ TypesTyped(out.types) /\ out.nodes \in Nat
      /\ DOMAIN origin = OriginFields
  BY DEF EditFile, FileTyped
<1>5. DOMAIN out' = DocFields /\ out'.stamp = out.stamp /\ out'.types = out.types
      /\ out'.nodes = out.nodes
  BY <1>4 DEF EditFile, DocFields
<1>6. DOMAIN origin' = OriginFields /\ origin'.edited = TRUE
  BY <1>4 DEF EditFile, OriginFields
<1>7. Readable(out') /\ origin' # NoFile
  BY <1>5, <1>6, NoFileHasNoFields DEF Readable
<1>8. origin'.edited \in BOOLEAN
  BY <1>6
<1>9. FileTyped'
  BY <1>4, <1>5, <1>6, <1>7, <1>8 DEF FileTyped
<1>10. MadeFromOrigin'
  BY <1>6 DEF MadeFromOrigin, Untouched
<1> QED
  BY <1>1, <1>3, <1>9, <1>10

\* Every step keeps the invariant.
LEMMA StepKeeps == IInv /\ [Next]_vars => IInv'
<1> SUFFICES ASSUME IInv, [Next]_vars
             PROVE  IInv'
  OBVIOUS
<1>1. ASSUME NEW ref, NEW force, InitConfig(ref, force)
      PROVE  IInv'
  BY <1>1, InitConfigKeeps
<1>2. ASSUME NEW reached, RunCheck(reached)
      PROVE  IInv'
  BY <1>2, CheckKeeps
<1>3. ASSUME NEW allow, NEW reached, CaptureRefused(allow, reached)
      PROVE  IInv'
  BY <1>3, RefusedKeeps
<1>4. CASE CaptureFails
  BY <1>4, FailsKeeps
<1>5. CASE CaptureTorn
  BY <1>5, TornKeeps
<1>6. CASE CaptureAnswered
  BY <1>6, AnsweredKeeps
<1>7. CASE Show
  BY <1>7, ShowKeeps
<1>8. ASSUME NEW override, Validate(override)
      PROVE  IInv'
  BY <1>8, ValidateKeeps
<1>9. CASE EditConfig
  BY <1>9, EditConfigKeeps
<1>10. CASE EditFile
  BY <1>10, EditFileKeeps
<1>11. CASE UNCHANGED vars
  <2>1. UNCHANGED <<config, out, origin>> /\ UNCHANGED last
    BY <1>11 DEF vars
  <2>2. ConfigTyped' /\ FileTyped' /\ MadeFromOrigin'
    BY <2>1, FileKept, ConfigKept DEF IInv
  <2>3. CodeTyped' /\ FoundValid'
    BY <2>1 DEF IInv, CodeTyped, FoundValid, Readable
  <2> QED
    BY <2>2, <2>3 DEF IInv
<1> QED
  BY <1>1, <1>2, <1>3, <1>4, <1>5, <1>6, <1>7, <1>8, <1>9, <1>10, <1>11 DEF Next

\* The invariant holds in every reachable state.
LEMMA Always == Spec => []IInv
BY InitHolds, StepKeeps, PTL DEF Spec

-----------------------------------------------------------------------------
(***************************************************************************)
(* The theorems.                                                           *)
(***************************************************************************)
\* Both files and the history are typed in every reachable state, and no
\* command ends in a code that main() does not know.
THEOREM TypeCorrect == Spec => []TypeOK
<1>1. ASSUME IInv PROVE TypeOK
  <2>1. config \in {NoFile, Unreadable} \/ DOMAIN config = {"profile", "accelerator", "groups", "value"}
    BY <1>1 DEF IInv, ConfigTyped, IsConfig
  <2>2. /\ Readable(out) => DOMAIN out = DocFields /\ DOMAIN out.stamp = StampFields
        /\ Readable(out) <=> origin # NoFile
    BY <1>1 DEF IInv, FileTyped
  <2>3. last.code \in {0, 1, 2, 130}
    BY <1>1 DEF IInv, CodeTyped
  <2> QED
    BY <2>1, <2>2, <2>3 DEF TypeOK, DocFields, StampFields
<1>2. IInv => TypeOK
  BY <1>1
<1> QED
  BY <1>2, Always, PTL

\* A file that validate accepts is complete and describes at least one node in
\* the shape of the profile it was judged by, whatever profile wrote it, however
\* old the automation was and whatever the submitter filled in.
THEOREM AcceptedDescribesHardware == Spec => []ValidMeansHardware
<1>1. ASSUME IInv, last.command = "validate" /\ last.code = 0
      PROVE  /\ out.stamp.complete
             /\ IF Load(last.why).shape = "nested"
                  THEN CountCollectedNodes([nested |-> TRUE, types |-> out.types]) > 0
                  ELSE out.nodes > 0
  <2> DEFINE p == Load(last.why)
  <2>1. Readable(out) /\ Problems(out, p) = {}
    BY <1>1 DEF IInv, FoundValid
  <2>2. TypesTyped(out.types) /\ out.nodes \in Nat
    BY <1>1, <2>1 DEF IInv, FileTyped
  <2> HIDE DEF p
  <2>3. {<<"partial", "none">> : x \in {y \in {out.stamp} : ~y.complete}} = {}
    BY <2>1 DEF Problems
  <2>4. {<<"no hardware", "none">> :
             x \in {y \in {out} : IF p.shape = "nested" THEN y.types = <<>>
                                                        ELSE y.nodes = 0}} = {}
    BY <2>1 DEF Problems
  <2>5. out.stamp.complete
    BY <2>3
  <2>6. ~ IF p.shape = "nested" THEN out.types = <<>> ELSE out.nodes = 0
    BY <2>4
  <2>7. CASE p.shape = "nested"
    <3>1. Len(out.types) \in Nat /\ DOMAIN out.types = 1..Len(out.types)
          /\ \A i \in 1..Len(out.types) : out.types[i].nodes \in Nat \ {0}
      BY <2>2 DEF TypesTyped
    <3>2. CountNodes(out.types) > 0 <=> Len(out.types) > 0
      BY <3>1, CountedNodes
    <3>3. Len(out.types) # 0
      BY <2>6, <2>7, <3>1
    <3>4. CountCollectedNodes([nested |-> TRUE, types |-> out.types]) = CountNodes(out.types)
      BY DEF CountCollectedNodes
    <3>5. CountNodes(out.types) > 0
      BY <3>1, <3>2, <3>3
    <3> QED
      BY <2>5, <2>7, <3>4, <3>5 DEF p
  <2>8. CASE p.shape # "nested"
    <3>1. out.nodes # 0
      BY <2>6, <2>8
    <3>2. out.nodes > 0
      BY <2>2, <3>1
    <3> QED
      BY <2>5, <2>8, <3>2 DEF p
  <2> QED
    BY <2>7, <2>8
<1>2. IInv => ValidMeansHardware
  BY <1>1 DEF ValidMeansHardware
<1> QED
  BY <1>2, Always, PTL

\* What CodesTell says of one step.
CodeTells ==
    /\ last'.code = 2 => UNCHANGED <<config, out>>
    /\ last'.command = "capture" =>
          /\ last'.code = 0 =>
                /\ Readable(out') /\ out'.stamp.complete
                /\ origin'.config = config /\ ~origin'.edited
                /\ CountNodes(origin'.world) >= Expected
                /\ config.accelerator => AcceleratorCount(out') # 0
          /\ last'.code # 0 /\ last'.why \notin {"exception", "interrupted"} =>
                out' = out \/ ~out'.stamp.complete

\* A capture that got a document writes a complete file and ends in 0, an
\* incomplete one and 1, or none and 2; or it is cut short after it wrote.
LEMMA AnswersTell ==
    ASSUME NEW world \in Worlds, NEW release, NEW reached, NEW allow \in BOOLEAN,
           Answers(world, release, reached, allow), UNCHANGED config
    PROVE  CodeTells
<1> DEFINE r == Result(world, release, reached, allow)
<1>1. CASE r.refused # "none"
  <2>1. last'.code = 2 /\ UNCHANGED out
    BY <1>1 DEF Answers, Ended
  <2> QED
    BY <2>1 DEF CodeTells
<1>2. CASE r.refused = "none"
  <2>1. /\ r.partial \in BOOLEAN
        /\ out'.stamp.complete = ~r.partial
        /\ Readable(out')
        /\ origin' = [config |-> config, world |-> world, release |-> release,
                      edited |-> FALSE]
        /\ ~r.partial => CountNodes(world) >= Expected
        /\ ~r.partial /\ config.accelerator => AcceleratorCount(out') # 0
    BY <1>2, AnswerWrites
  <2>2. CASE r.partial
    <3>1. last' \in Endings(1, Seen(world))
      BY <1>2, <2>2 DEF Answers
    <3>2. last'.code \in {1, 130}
      BY <3>1, EndingsFields
    <3>3. ~out'.stamp.complete
      BY <2>1, <2>2
    <3> QED
      BY <3>2, <3>3 DEF CodeTells
  <2>3. CASE ~r.partial
    <3>1. last' \in Endings(0, Seen(world))
      BY <1>2, <2>3 DEF Answers
    <3>2. \/ last'.code = 0
          \/ last'.code \in {1, 130} /\ last'.why \in {"exception", "interrupted"}
      BY <3>1, EndingsFields
    <3>3. out'.stamp.complete /\ Readable(out')
      BY <2>1, <2>3
    <3>4. origin'.config = config /\ origin'.world = world /\ ~origin'.edited
      BY <2>1
    <3>5. CountNodes(origin'.world) >= Expected
          /\ (config.accelerator => AcceleratorCount(out') # 0)
      BY <2>1, <2>3, <3>4
    <3> HIDE DEF r
    <3> QED
      BY <3>2, <3>3, <3>4, <3>5 DEF CodeTells
  <2> QED
    BY <2>2, <2>3
<1> QED
  BY <1>1, <1>2

\* The exit code tells what became of the two files, for any profile, config and
\* hardware: 2 means that neither changed; a capture's 0 that it left a complete
\* file of this config, with as many nodes as it names and an accelerator if it
\* names one; its own 1 that it left none. What cuts it short may come later.
THEOREM CodesAreTold == Spec => CodesTell
<1>1. ASSUME Next PROVE CodeTells
  <2> USE DEF CodeTells
  <2>1. ASSUME NEW ref, NEW force, InitConfig(ref, force)
        PROVE  CodeTells
    <3>1. CASE Ends("init", 0, "none")
      <4>1. last'.command = "init" /\ last'.code = 0
        BY <3>1, EndsFields
      <4> QED
        BY <4>1
    <3>2. CASE Ends("init", 2, "not written") /\ UNCHANGED config
      <4>1. last'.command = "init" /\ UNCHANGED <<config, out>>
        BY <2>1, <3>2, EndsFields DEF InitConfig
      <4> QED
        BY <4>1
    <3> QED
      BY <2>1, <3>1, <3>2 DEF InitConfig
  <2>2. ASSUME NEW reached, RunCheck(reached)
        PROVE  CodeTells
    <3>1. last'.command = "check" /\ UNCHANGED <<config, out>>
      BY <2>2, EndsFields DEF RunCheck
    <3> QED
      BY <3>1
  <2>3. ASSUME NEW allow, NEW reached, CaptureRefused(allow, reached)
        PROVE  CodeTells
    <3>1. last'.code \in {1, 2}
      BY <2>3, EndsFields DEF CaptureRefused
    <3>2. UNCHANGED <<config, out>>
      BY <2>3 DEF CaptureRefused
    <3> QED
      BY <3>1, <3>2
  <2>4. CASE CaptureFails
    <3>1. last'.code # 0 /\ UNCHANGED <<config, out>>
      BY <2>4, EndsFields DEF CaptureFails
    <3> QED
      BY <3>1
  <2>5. CASE CaptureTorn
    <3>1. last'.code \in {1, 130} /\ last'.why \in {"exception", "interrupted"}
      BY <2>5, EndsFields DEF CaptureTorn
    <3> QED
      BY <3>1
  <2>6. CASE CaptureAnswered
    <3>1. PICK world \in Worlds, release \in {"current", "old"},
               reached \in Reaches \ {"none"}, allow \in BOOLEAN :
              Answers(world, release, reached, allow)
      BY <2>6 DEF CaptureAnswered
    <3>2. UNCHANGED config
      BY <2>6 DEF CaptureAnswered
    <3> HIDE DEF CodeTells
    <3> QED
      BY <3>1, <3>2, AnswersTell
  <2>7. CASE Show
    <3>1. last'.command = "show" /\ UNCHANGED <<config, out>>
      BY <2>7, EndsFields DEF Show
    <3> QED
      BY <3>1
  <2>8. ASSUME NEW override, Validate(override)
        PROVE  CodeTells
    <3>1. last'.command = "validate" /\ UNCHANGED <<config, out>>
      BY <2>8, EndsFields DEF Validate
    <3> QED
      BY <3>1
  <2>9. CASE EditConfig
    <3>1. last'.command = "edit" /\ last'.code = 0
      BY <2>9, EndsFields DEF EditConfig
    <3> QED
      BY <3>1
  <2>10. CASE EditFile
    <3>1. last'.command = "edit" /\ last'.code = 0
      BY <2>10, EndsFields DEF EditFile
    <3> QED
      BY <3>1
  <2> QED
    BY <1>1, <2>1, <2>2, <2>3, <2>4, <2>5, <2>6, <2>7, <2>8, <2>9, <2>10 DEF Next
<1>2. [Next]_vars => [CodeTells]_vars
  BY <1>1
<1>3. [][Next]_vars => [][CodeTells]_vars
  BY <1>2, PTL
<1> QED
  BY <1>3, PTL DEF Spec, CodesTell, CodeTells

-----------------------------------------------------------------------------
\* What a node type hosts, as its entry in a derived system_size must say it.
SizeTells(size, type) ==
    LET at == DOMAIN type.accelerators
        lost == {j \in at : /\ type.accelerators[j].model = "found"
                            /\ type.accelerators[j].count \in {NotDetected, 0}}
        numbers == [j \in at |-> IF type.accelerators[j].count \in Nat
                                   THEN type.accelerators[j].count ELSE 0]
    IN size = IF lost # {} THEN NotDetected ELSE type.nodes * Sum(numbers)

\* The accelerators of a node type are counted as they were found.
LEMMA TypeSize ==
    ASSUME NEW t, NEW type \in NodeTypes, t.accelerators = type.accelerators,
           t.nodes = type.nodes,
           NEW size, size = IF CountIsUndetected(t) THEN NotDetected ELSE NodeTypeAccelerators(t)
    PROVE  SizeTells(size, type)
<1> DEFINE at == DOMAIN type.accelerators
           lost == {j \in at : /\ type.accelerators[j].model = "found"
                               /\ type.accelerators[j].count \in {NotDetected, 0}}
           numbers == [j \in at |-> IF type.accelerators[j].count \in Nat
                                      THEN type.accelerators[j].count ELSE 0]
           usable == [j \in at |-> Usable(type.accelerators[j].count)]
<1>1. ASSUME NEW j \in at
      PROVE  type.accelerators[j].count \in Nat \cup {NotDetected, Unparsed}
  <2>1. type.accelerators \in Seq(Accelerators)
    BY DEF NodeTypes
  <2>2. type.accelerators[j] \in Accelerators
    BY <2>1
  <2> QED
    BY <2>2 DEF Accelerators
<1>2. \A k \in Nat \cup {NotDetected, Unparsed} : Usable(k) = IF k \in Nat THEN k ELSE 0
  BY DEF Usable, NotDetected, Unparsed
<1>3. numbers = usable
  BY <1>1, <1>2
<1>4. CountIsUndetected(t) <=> lost # {}
  BY DEF CountIsUndetected
<1>5. NodeTypeAccelerators(t) = type.nodes * Sum(usable)
  BY DEF NodeTypeAccelerators
<1> HIDE DEF lost, numbers, usable
<1>6. size = IF lost # {} THEN NotDetected ELSE type.nodes * Sum(numbers)
  BY <1>3, <1>4, <1>5
<1> QED
  BY <1>6 DEF SizeTells, lost, numbers

\* A derived system_size says exactly how many accelerators each node type
\* reported, for any hardware, profile and config: the sizes written are those
\* of the node types that came back, which no step in between touches.
THEOREM SizesAreHonest == Spec => []SizeHonest
<1>1. ASSUME IInv, Untouched
      PROVE  /\ DOMAIN out.sizes \in {{}, DOMAIN origin.world}
             /\ \A i \in DOMAIN out.sizes : SizeTells(out.sizes[i], origin.world[i])
  <2> DEFINE p == Origin
             value == origin.config.value
             d == Collected
             b == Built(d, value, p)
  <2>1. /\ origin.world \in Seq(NodeTypes)
        /\ out = Shape(d, value, p, ~out.stamp.complete)
    BY <1>1 DEF IInv, MadeFromOrigin
  <2>2. /\ TypesTyped(d.types)
        /\ d.nested \in BOOLEAN
        /\ d.nested =>
               /\ DOMAIN d.types = DOMAIN origin.world
               /\ \A j \in DOMAIN origin.world :
                      /\ d.types[j].accelerators = origin.world[j].accelerators
                      /\ d.types[j].nodes = origin.world[j].nodes
    BY <2>1, ReturnedTyped DEF Collected
  <2>3. ~d.nested => d.types = <<>>
    BY DEF Collected, Returned, Nested, Flat
  <2> HIDE DEF d, p, value
  <2>4. out.sizes = b.sizes
    <3> DEFINE partial == ~out.stamp.complete
    <3>1. out = Shape(d, value, p, partial)
      BY <2>1
    <3> HIDE DEF partial
    <3>2. Shape(d, value, p, partial).sizes = b.sizes
      BY ShapeFields
    <3> QED
      BY <3>1, <3>2
  <2>5. CASE p.benchmark = "training"
    <3>1. b.sizes = <<>>
      BY <2>5 DEF Built, BuildTraining
    <3> QED
      BY <2>4, <3>1
  <2>6. CASE p.benchmark # "training" /\ p.shape # "nested"
    <3>1. b.sizes = <<>>
      BY <2>6 DEF Built, BuildFlat
    <3> QED
      BY <2>4, <3>1
  <2>7. CASE p.benchmark # "training" /\ p.shape = "nested"
    <3> DEFINE ts == BuildEndpoints(d, value).types
    <3>1. b = BuildEndpoints(d, value)
      BY <2>7 DEF Built
    <3>2. ts = [j \in DOMAIN d.types |->
                  [d.types[j] EXCEPT
                      !.cells = Over(From(NodeMeta, value), Ordered(@, EndpointsNodeFields))]]
      BY DEF BuildEndpoints
    <3>3. BuildEndpoints(d, value).sizes =
              IF Blank(value["system.size"]) THEN SystemSize(ts) ELSE <<>>
      BY DEF BuildEndpoints
    <3> HIDE DEF ts, b
    <3>4. DOMAIN SystemSize(ts) = DOMAIN d.types
          /\ \A i \in DOMAIN d.types :
                 SystemSize(ts)[i] = IF CountIsUndetected(ts[i]) THEN NotDetected
                                     ELSE NodeTypeAccelerators(ts[i])
      BY <3>2 DEF SystemSize
    <3>5. DOMAIN out.sizes \in {{}, DOMAIN d.types}
      BY <2>4, <3>1, <3>3, <3>4
    <3>6. DOMAIN d.types \in {{}, DOMAIN origin.world}
      BY <2>2, <2>3
    <3>7. DOMAIN out.sizes \in {{}, DOMAIN origin.world}
      BY <3>5, <3>6
    <3>8. ASSUME NEW i \in DOMAIN out.sizes
          PROVE  SizeTells(out.sizes[i], origin.world[i])
      <4>1. out.sizes = SystemSize(ts)
        BY <2>4, <3>1, <3>3
      <4>2. i \in DOMAIN d.types
        BY <3>4, <4>1
      <4>3. d.nested
        BY <2>2, <2>3, <4>2
      <4>4. /\ i \in DOMAIN origin.world
            /\ d.types[i].accelerators = origin.world[i].accelerators
            /\ d.types[i].nodes = origin.world[i].nodes
        BY <2>2, <4>2, <4>3
      <4>5. {"nodes", "accelerators"} \subseteq DOMAIN d.types[i]
        BY <2>2, <4>2 DEF TypesTyped
      <4>6. ts[i].nodes = d.types[i].nodes /\ ts[i].accelerators = d.types[i].accelerators
        BY <3>2, <4>2, <4>5
      <4>7. origin.world[i] \in NodeTypes
        BY <2>1, <4>4
      <4>8. out.sizes[i] = IF CountIsUndetected(ts[i]) THEN NotDetected
                           ELSE NodeTypeAccelerators(ts[i])
        BY <3>4, <4>1, <4>2
      <4> QED
        BY <4>4, <4>6, <4>7, <4>8, TypeSize
    <3> QED
      BY <3>7, <3>8
  <2> QED
    BY <2>5, <2>6, <2>7
<1>2. IInv => SizeHonest
  BY <1>1 DEF SizeHonest, SizeTells
<1> QED
  BY <1>2, Always, PTL

-----------------------------------------------------------------------------
(***************************************************************************)
(* What a capture writes and what validate and show read.                  *)
(***************************************************************************)
\* What a config that passed the check may say.
Telling(value) ==
    /\ DOMAIN value = Paths
    /\ \A path \in Paths : value[path] \in {"empty", "answer", "refused"}

\* The document reads as the config: no text that nobody meant is in it, a
\* field that the profile names is empty exactly when its path is, and what is
\* shown as the config's is the config's. The exception is node_config, where
\* there are groups to summarise.
Reads(doc, value, groups, p) ==
    /\ CellsWith(doc, StarterText) = {}
    /\ \A k \in OutputKeys(p.requires \cup p.recommends, p) :
           IsEmpty(doc, k, p) <=>
               Blank(value[KeysOf(p)[k]]) /\ ~(k = "node_config" /\ groups > 0)
    /\ \A k \in Supplied(doc) :
           \/ doc.cells[k] \in {value[q] : q \in SourcePaths(k)}
           \/ /\ k = "node_config" /\ doc.cells[k] = "summary"
              /\ groups > 0
              /\ Blank(value["run.node_config"])

\* A config that passed the check has neither starter text nor other paths.
LEMMA PassedTells ==
    ASSUME NEW c, Passed(c)
    PROVE  Telling(c.value)
<1>1. c.value \in [Paths -> Said]
  BY DEF Passed, IsConfig
<1>2. \A path \in Paths : c.value[path] \in Said /\ c.value[path] \notin {"starter", "long starter"}
  BY <1>1 DEF Passed
<1> QED
  BY <1>1, <1>2 DEF Telling, Said

\* A field is the config's when an overlay takes it from there.
LEMMA SourceOf ==
    ASSUME NEW o \in Overlays, NEW k \in DOMAIN o
    PROVE  o[k] \in SourcePaths(k) /\ o[k] \in Paths
<1>1. o \in {x \in Overlays : k \in DOMAIN x}
  OBVIOUS
<1> QED
  BY <1>1, OverlayPaths DEF SourcePaths

\* A document whose cells hold no such text has none.
LEMMA NoTextLeft ==
    ASSUME NEW doc, NEW texts,
           \A k \in DOMAIN doc.cells : doc.cells[k] \notin texts,
           \A i \in DOMAIN doc.types : \A k \in DOMAIN doc.types[i].cells :
               doc.types[i].cells[k] \notin texts
    PROVE  CellsWith(doc, texts) = {}
<1> DEFINE types == {doc.types[i] : i \in DOMAIN doc.types}
<1>1. {k \in DOMAIN doc.cells : doc.cells[k] \in texts} = {}
  OBVIOUS
<1>2. \A t \in types : {k \in DOMAIN t.cells : t.cells[k] \in texts} = {}
  OBVIOUS
<1>3. UNION {{k \in DOMAIN t.cells : t.cells[k] \in texts} : t \in types} = {}
  <2>1. ASSUME NEW x \in UNION {{k \in DOMAIN t.cells : t.cells[k] \in texts} : t \in types}
        PROVE  FALSE
    <3>1. PICK t \in types : x \in {k \in DOMAIN t.cells : t.cells[k] \in texts}
      OBVIOUS
    <3> QED
      BY <1>2, <3>1
  <2> QED
    BY <2>1
<1> QED
  BY <1>1, <1>3 DEF CellsWith

-----------------------------------------------------------------------------
(***************************************************************************)
(* The flat field set.                                                     *)
(***************************************************************************)
\* What the automation puts in a flat document: text of its own where a config
\* always answers, and what the probes said or nothing elsewhere.
Defaulted == {"submitter", "submitter_contact", "system_name", "status", "system_type",
              "division"}
Probed == {"host_memory_configuration", "host_processor_model_name", "system_size"}
Blanked == Hosts \cup {"system_type_detail", "host_networking_topology"}

LEMMA FlatCells ==
    ASSUME NEW world
    PROVE  /\ DOMAIN Flat(world).cells = Defaulted \cup Blanked \cup Probed
           /\ \A k \in Blanked \cup Probed :
                  Flat(world).cells[k] \in {"empty", "found", "undetected"}
<1> DEFINE probes == [host_memory_configuration |->
                          IF \A i \in DOMAIN world : world[i].memory = "undetected"
                            THEN "undetected" ELSE "found",
                      host_processor_model_name |-> "found", system_size |-> "found"]
           blanks == [k \in Blanked |-> "empty"]
           defaults == [k \in Defaulted |-> "default"]
<1>1. Flat(world).cells = Over(defaults, Over(blanks, probes))
  BY DEF Flat, Defaulted, Blanked
<1>2. DOMAIN probes = Probed /\ \A k \in Probed : probes[k] \in {"found", "undetected"}
  BY DEF Probed
<1>3. DOMAIN blanks = Blanked /\ \A k \in Blanked : blanks[k] = "empty"
  OBVIOUS
<1>4. DOMAIN defaults = Defaulted
  OBVIOUS
<1>5. (Blanked \cup Probed) \cap Defaulted = {}
  BY DEF Blanked, Probed, Defaulted, Hosts
<1> HIDE DEF probes, blanks, defaults
<1>6. DOMAIN Over(blanks, probes) = Blanked \cup Probed
      /\ \A k \in Blanked \cup Probed :
             Over(blanks, probes)[k] \in {"empty", "found", "undetected"}
  BY <1>2, <1>3 DEF Over
<1>7. DOMAIN Flat(world).cells = Defaulted \cup Blanked \cup Probed
  BY <1>1, <1>4, <1>6 DEF Over
<1>8. ASSUME NEW k \in Blanked \cup Probed
      PROVE  Flat(world).cells[k] = Over(blanks, probes)[k]
  <2>1. k \notin Defaulted
    BY <1>5
  <2> QED
    BY <1>1, <1>4, <1>6, <2>1 DEF Over
<1> QED
  BY <1>6, <1>7, <1>8

\* The tables that validate reads a flat file by are those it was written by.
LEMMA FlatKeysAgree ==
    /\ \A k \in DOMAIN FlatKeys : /\ k \in DOMAIN FlatOverlay \ {"system_size"}
                                  /\ FlatKeys[k] = FlatOverlay[k]
    /\ DOMAIN FlatOverlay \subseteq Defaulted \cup Blanked \cup {"system_size"}
    /\ Defaulted \subseteq DOMAIN FlatOverlay
    /\ FlatKeys # NestedKeys
    /\ "node_config" \notin DOMAIN FlatKeys
<1>1. \A k \in DOMAIN FlatKeys : k \in DOMAIN FlatOverlay \ {"system_size"}
  BY DEF FlatKeys, FlatOverlay
<1>2. \A k \in DOMAIN FlatKeys : FlatKeys[k] = FlatOverlay[k]
  BY DEF FlatKeys, FlatOverlay
<1>3. DOMAIN FlatOverlay \subseteq Defaulted \cup Blanked \cup {"system_size"}
  BY DEF FlatOverlay, Defaulted, Blanked, Hosts
<1>4. Defaulted \subseteq DOMAIN FlatOverlay
  BY DEF FlatOverlay, Defaulted
<1>5. "endpoint_url" \in DOMAIN NestedKeys /\ "endpoint_url" \notin DOMAIN FlatKeys
  BY DEF NestedKeys, FlatKeys
<1>6. "node_config" \notin DOMAIN FlatKeys
  BY DEF FlatKeys
<1> QED
  BY <1>1, <1>2, <1>3, <1>4, <1>5, <1>6

\* The tables that validate reads a training file by are those it was written by.
LEMMA TrainingKeysAgree ==
    /\ DOMAIN TrainingKeys = DOMAIN TrainingOverlay
    /\ \A k \in DOMAIN TrainingKeys : TrainingKeys[k] = TrainingOverlay[k]
    /\ TrainingKeys # NestedKeys
    /\ "node_config" \notin DOMAIN TrainingKeys
<1>1. DOMAIN TrainingKeys = DOMAIN TrainingOverlay
  BY DEF TrainingKeys, TrainingOverlay
<1>2. \A k \in DOMAIN TrainingKeys : TrainingKeys[k] = TrainingOverlay[k]
  BY DEF TrainingKeys, TrainingOverlay
<1>3. "endpoint_url" \in DOMAIN NestedKeys /\ "endpoint_url" \notin DOMAIN TrainingKeys
  BY DEF NestedKeys, TrainingKeys
<1>4. "node_config" \notin DOMAIN TrainingKeys
  BY DEF TrainingKeys
<1> QED
  BY <1>1, <1>2, <1>3, <1>4

\* A flat file reads as the config that it was captured under.
LEMMA FlatReads ==
    ASSUME NEW world, NEW value, Telling(value), NEW groups, NEW p,
           p.benchmark # "training", p.shape # "nested",
           NEW doc, doc.cells = BuildFlat(Flat(world), value, p).cells, doc.types = <<>>,
           doc.stamp.benchmark = p.benchmark, doc.stamp.shape = p.shape
    PROVE  Reads(doc, value, groups, p)
<1> DEFINE cells == Flat(world).cells
           overlay == From(FlatOverlay, value)
           written == {k \in DOMAIN overlay : \/ ~Blank(overlay[k])
                                              \/ k \in DOMAIN cells \ {"system_size"}}
           over == [k \in written |-> overlay[k]]
           blanks == [k \in p.extras |-> "empty"]
<1>1. doc.cells = Over(over, Over(cells, blanks))
  BY DEF BuildFlat
<1>2. DOMAIN cells = Defaulted \cup Blanked \cup Probed
      /\ \A k \in Blanked \cup Probed : cells[k] \in {"empty", "found", "undetected"}
  BY FlatCells
<1>3. DOMAIN overlay = DOMAIN FlatOverlay
      /\ \A k \in DOMAIN FlatOverlay : overlay[k] = value[FlatOverlay[k]]
  BY DEF From
<1>4. FlatOverlay \in Overlays
  BY DEF Overlays
<1>5. \A k \in DOMAIN FlatOverlay : overlay[k] \in {"empty", "answer", "refused"}
  BY <1>3, <1>4, OverlayPaths DEF Telling
<1>6. DOMAIN FlatOverlay \ {"system_size"} \subseteq written /\ written \subseteq DOMAIN FlatOverlay
  BY <1>2, <1>3, FlatKeysAgree
<1>7. DOMAIN over = written /\ \A k \in written : over[k] = overlay[k]
  OBVIOUS
<1>8. DOMAIN blanks = p.extras /\ \A k \in p.extras : blanks[k] = "empty"
  OBVIOUS
<1> HIDE DEF cells, overlay, written, over, blanks
<1>9. ASSUME NEW k \in DOMAIN FlatOverlay \ {"system_size"}
      PROVE  k \in DOMAIN doc.cells /\ doc.cells[k] = value[FlatOverlay[k]]
  BY <1>1, <1>3, <1>6, <1>7 DEF Over
<1>10. ASSUME NEW k \in DOMAIN doc.cells
       PROVE  doc.cells[k] \in {"empty", "answer", "refused", "found", "undetected"}
  <2>1. CASE k \in written
    BY <1>1, <1>5, <1>6, <1>7, <2>1 DEF Over
  <2>2. CASE k \notin written /\ k \in DOMAIN cells
    <3>1. k \in Blanked \cup Probed
      <4>1. "system_size" \notin Defaulted
        BY DEF Defaulted
      <4> QED
        BY <1>2, <1>6, <2>2, <4>1, FlatKeysAgree
    <3>2. doc.cells[k] = cells[k]
      BY <1>1, <1>7, <2>2 DEF Over
    <3> QED
      BY <1>2, <3>1, <3>2
  <2>3. CASE k \notin written /\ k \notin DOMAIN cells
    BY <1>1, <1>7, <1>8, <2>3 DEF Over
  <2> QED
    BY <2>1, <2>2, <2>3
<1>11. CellsWith(doc, StarterText) = {}
  <2>1. DOMAIN doc.types = {}
    OBVIOUS
  <2>2. \A k \in DOMAIN doc.cells : doc.cells[k] \notin StarterText
    BY <1>10 DEF StarterText
  <2> QED
    BY <2>1, <2>2, NoTextLeft
<1>12. KeysOf(p) = FlatKeys
  BY DEF KeysOf
<1>13. ASSUME NEW k \in OutputKeys(p.requires \cup p.recommends, p)
       PROVE  /\ k # "node_config"
              /\ IsEmpty(doc, k, p) <=> Blank(value[KeysOf(p)[k]])
  <2>1. k \in DOMAIN FlatKeys
    BY <1>12 DEF OutputKeys
  <2>2. k \in DOMAIN FlatOverlay \ {"system_size"} /\ FlatKeys[k] = FlatOverlay[k]
    BY <2>1, FlatKeysAgree
  <2>3. k \in DOMAIN doc.cells /\ doc.cells[k] = value[KeysOf(p)[k]]
    BY <1>9, <1>12, <2>2
  <2>4. IsEmpty(doc, k, p) <=> k \notin DOMAIN doc.cells \/ Blank(doc.cells[k])
    BY <1>12, FlatKeysAgree DEF IsEmpty
  <2>5. k # "node_config"
    BY <2>1, FlatKeysAgree
  <2> QED
    BY <2>3, <2>4, <2>5
<1>14. ASSUME NEW k \in Supplied(doc)
       PROVE  doc.cells[k] \in {value[q] : q \in SourcePaths(k)}
  <2>1. k \in {"submitter", "submitter_contact", "division", "system_type", "status"}
    BY DEF Supplied
  <2>2. k \in DOMAIN FlatOverlay \ {"system_size"}
    BY <2>1 DEF FlatOverlay
  <2>3. FlatOverlay[k] \in SourcePaths(k)
    BY <1>4, <2>2, SourceOf
  <2> QED
    BY <1>9, <2>2, <2>3
<1> QED
  BY <1>11, <1>13, <1>14 DEF Reads

\* A training file reads as the config that it was captured under, whose
\* availability the check made sure to be one that this benchmark takes.
LEMMA TrainingReads ==
    ASSUME NEW world, NEW value, Telling(value), NEW groups, NEW p,
           p.benchmark = "training",
           value["system.availability"] \in {"empty", "answer"},
           NEW doc, doc.cells = BuildTraining(Flat(world), value).cells, doc.types = <<>>,
           doc.stamp.benchmark = p.benchmark
    PROVE  Reads(doc, value, groups, p)
<1> DEFINE d == Flat(world)
           from == From(TrainingOverlay, value)
           overlay == [from EXCEPT !.status = NormalizeTrainingStatus(@)]
           rest == TrainingFields \ DOMAIN overlay
           probed == Ordered(d.cells, rest)
           values == [k \in DOMAIN probed |-> TrainingValue(probed[k])]
           cells == Over(overlay, values)
           kept == DOMAIN cells \ {f \in TrainingOptional : Blank(cells[f])}
<1>1. doc.cells = [k \in kept |-> cells[k]]
  BY DEF BuildTraining
<1>2. TrainingOverlay \in Overlays
  BY DEF Overlays
<1>3. DOMAIN from = DOMAIN TrainingOverlay
      /\ \A k \in DOMAIN TrainingOverlay : from[k] = value[TrainingOverlay[k]]
  BY DEF From
<1>4. DOMAIN overlay = DOMAIN TrainingOverlay
      /\ \A k \in DOMAIN TrainingOverlay : overlay[k] = value[TrainingOverlay[k]]
  <2>1. DOMAIN overlay = DOMAIN from
    OBVIOUS
  <2>2. "status" \in DOMAIN TrainingOverlay /\ TrainingOverlay["status"] = "system.availability"
    BY DEF TrainingOverlay
  <2>3. NormalizeTrainingStatus(value["system.availability"]) = value["system.availability"]
    BY DEF NormalizeTrainingStatus
  <2> HIDE DEF from
  <2>4. ASSUME NEW k \in DOMAIN TrainingOverlay
        PROVE  overlay[k] = value[TrainingOverlay[k]]
    <3>1. CASE k = "status"
      BY <1>3, <2>2, <2>3, <3>1
    <3>2. CASE k # "status"
      BY <1>3, <3>2
    <3> QED
      BY <3>1, <3>2
  <2> QED
    BY <1>3, <2>1, <2>4
<1>5. \A k \in DOMAIN TrainingOverlay : overlay[k] \in {"empty", "answer", "refused"}
  BY <1>2, <1>4, OverlayPaths DEF Telling
<1> HIDE DEF overlay, from
<1>6. rest \subseteq Probed
  BY <1>4 DEF TrainingFields, Probed
<1>7. \A k \in rest : probed[k] \in {"empty", "found", "undetected"}
  <2>1. \A k \in Probed : k \in DOMAIN d.cells /\ d.cells[k] \in {"empty", "found", "undetected"}
    BY FlatCells
  <2> HIDE DEF d, rest
  <2> QED
    BY <1>6, <2>1 DEF Ordered
<1>8. DOMAIN probed = rest
  BY DEF Ordered
<1> HIDE DEF d, rest, probed
<1>9. DOMAIN values = rest /\ \A k \in rest : values[k] \in {"empty", "found"}
  BY <1>7, <1>8 DEF TrainingValue
<1> HIDE DEF values
<1>10. /\ DOMAIN cells = DOMAIN TrainingOverlay \cup rest
       /\ \A k \in DOMAIN TrainingOverlay : cells[k] = value[TrainingOverlay[k]]
       /\ \A k \in DOMAIN cells : cells[k] \in {"empty", "answer", "refused", "found"}
  BY <1>4, <1>5, <1>9 DEF Over
<1> HIDE DEF cells
<1>11. \A k \in DOMAIN doc.cells : k \in DOMAIN cells /\ doc.cells[k] = cells[k]
  BY <1>1
<1>12. CellsWith(doc, StarterText) = {}
  <2>1. DOMAIN doc.types = {}
    OBVIOUS
  <2>2. \A k \in DOMAIN doc.cells : doc.cells[k] \notin StarterText
    BY <1>10, <1>11 DEF StarterText
  <2> QED
    BY <2>1, <2>2, NoTextLeft
<1>13. KeysOf(p) = TrainingKeys
  BY DEF KeysOf
<1>14. ASSUME NEW k \in OutputKeys(p.requires \cup p.recommends, p)
       PROVE  /\ k # "node_config"
              /\ IsEmpty(doc, k, p) <=> Blank(value[KeysOf(p)[k]])
  <2>1. k \in DOMAIN TrainingKeys
    BY <1>13 DEF OutputKeys
  <2>2. k \in DOMAIN TrainingOverlay /\ TrainingKeys[k] = TrainingOverlay[k]
    BY <2>1, TrainingKeysAgree
  <2>3. IsEmpty(doc, k, p) <=> k \notin DOMAIN doc.cells \/ Blank(doc.cells[k])
    BY <1>13, TrainingKeysAgree DEF IsEmpty
  <2>4. cells[k] = value[KeysOf(p)[k]] /\ k \in DOMAIN cells
    BY <1>10, <1>13, <2>2
  <2>5. DOMAIN doc.cells = kept /\ \A j \in kept : doc.cells[j] = cells[j]
    BY <1>1
  <2>6. k \notin DOMAIN doc.cells \/ Blank(doc.cells[k]) <=> Blank(cells[k])
    BY <2>4, <2>5
  <2>7. k # "node_config"
    BY <2>1, TrainingKeysAgree
  <2> QED
    BY <2>3, <2>4, <2>6, <2>7
<1>15. ASSUME NEW k \in Supplied(doc)
       PROVE  doc.cells[k] \in {value[q] : q \in SourcePaths(k)}
  <2>1. k \in {"submitter", "division", "status", "framework", "host_networking_topology"}
        /\ k \in DOMAIN doc.cells
    BY DEF Supplied
  <2>2. k \in DOMAIN TrainingOverlay
    BY <2>1 DEF TrainingOverlay
  <2>3. TrainingOverlay[k] \in SourcePaths(k)
    BY <1>2, <2>2, SourceOf
  <2> QED
    BY <1>10, <1>11, <2>1, <2>2, <2>3
<1> QED
  BY <1>12, <1>14, <1>15 DEF Reads

-----------------------------------------------------------------------------
(***************************************************************************)
(* The nested field set.                                                   *)
(***************************************************************************)
\* The tables that validate reads a nested file by are those it was written by.
LEMMA NestedKeysAgree ==
    /\ \A k \in NodeScope : k \in DOMAIN NodeMeta /\ NestedKeys[k] = NodeMeta[k]
    /\ \A k \in DOMAIN NestedKeys \ NodeScope :
           \/ k \in DOMAIN EndpointsOverlay /\ NestedKeys[k] = EndpointsOverlay[k]
           \/ k \in DOMAIN Echoed /\ NestedKeys[k] = Echoed[k]
    /\ DOMAIN EndpointsOverlay \cap DOMAIN Echoed = {}
    /\ NestedKeys["endpoint_url"] = "serving.url"
<1>1. ASSUME NEW k \in NodeScope
      PROVE  k \in DOMAIN NodeMeta /\ NestedKeys[k] = NodeMeta[k]
  BY DEF NodeScope, NodeMeta, NestedKeys
<1>2. ASSUME NEW k \in DOMAIN NestedKeys \ NodeScope
      PROVE  \/ k \in DOMAIN EndpointsOverlay /\ NestedKeys[k] = EndpointsOverlay[k]
             \/ k \in DOMAIN Echoed /\ NestedKeys[k] = Echoed[k]
  BY DEF NodeScope, NestedKeys, EndpointsOverlay, Echoed
<1>3. DOMAIN EndpointsOverlay \cap DOMAIN Echoed = {}
  BY DEF EndpointsOverlay, Echoed
<1>4. NestedKeys["endpoint_url"] = "serving.url"
  BY DEF NestedKeys
<1> QED
  BY <1>1, <1>2, <1>3, <1>4

\* The cells at the top: the config's, and what it had sent or, for the nodes
\* that it does not describe, a summary of the groups.
LEMMA NestedTop ==
    ASSUME NEW world, NEW value, NEW groups, NEW p, NEW cells,
           cells = BuildEndpoints(Nested(Sent(value, p), groups, world), value).cells
    PROVE  /\ DOMAIN cells = DOMAIN EndpointsOverlay \cup DOMAIN Echoed
           /\ \A k \in DOMAIN EndpointsOverlay : cells[k] = value[EndpointsOverlay[k]]
           /\ \A k \in DOMAIN Echoed \ {"node_config"} :
                  cells[k] = IF k = "endpoint_url" /\ ~p.probe THEN "empty" ELSE value[Echoed[k]]
           /\ cells["node_config"] =
                  IF Blank(value["run.node_config"]) /\ groups > 0 THEN "summary"
                                                                 ELSE value["run.node_config"]
<1> DEFINE sent == Sent(value, p)
           d == Nested(sent, groups, world)
           from == From(EndpointsOverlay, value)
           top == Ordered(d.cells, EndpointsTopFields)
<1>1. cells = Over(from, top)
  BY DEF BuildEndpoints
<1>2. DOMAIN sent = DOMAIN Echoed
      /\ \A k \in DOMAIN Echoed :
             sent[k] = IF k = "endpoint_url" /\ ~p.probe THEN "empty" ELSE value[Echoed[k]]
  BY DEF Sent
<1>9. "node_config" \in DOMAIN Echoed /\ Echoed["node_config"] = "run.node_config"
  BY DEF Echoed
<1>10. sent["node_config"] = value["run.node_config"]
  BY <1>2, <1>9
<1> HIDE DEF sent
<1>11. /\ DOMAIN Described(sent, groups) = DOMAIN sent
       /\ \A k \in DOMAIN sent \ {"node_config"} : Described(sent, groups)[k] = sent[k]
       /\ Described(sent, groups)["node_config"] =
              IF Blank(sent["node_config"]) /\ groups > 0 THEN "summary"
                                                         ELSE sent["node_config"]
  BY <1>2, <1>9 DEF Described
<1>3. \A k \in DOMAIN sent : k \in DOMAIN d.cells /\ d.cells[k] = Described(sent, groups)[k]
  <2> DEFINE own == [division |-> "default", shortened_system_name |-> "default",
                     system_availability_status |-> "default",
                     system_category |-> "default", system_name |-> "default",
                     system_size |-> "found"]
  <2>1. d.cells = Over(Described(sent, groups), own)
    BY DEF Nested
  <2> HIDE DEF own, d
  <2> QED
    BY <1>11, <2>1 DEF Over
<1>4. DOMAIN from = DOMAIN EndpointsOverlay
      /\ \A k \in DOMAIN EndpointsOverlay : from[k] = value[EndpointsOverlay[k]]
  BY DEF From
<1> HIDE DEF d, from
<1>5. DOMAIN top = DOMAIN EndpointsOverlay \cup DOMAIN Echoed
      /\ \A k \in DOMAIN Echoed : top[k] = Described(sent, groups)[k]
  BY <1>2, <1>3 DEF Ordered, EndpointsTopFields
<1> HIDE DEF top
<1>6. DOMAIN cells = DOMAIN EndpointsOverlay \cup DOMAIN Echoed
  BY <1>1, <1>4, <1>5 DEF Over
<1>7. \A k \in DOMAIN EndpointsOverlay : cells[k] = from[k]
  BY <1>1, <1>4 DEF Over
<1>8. ASSUME NEW k \in DOMAIN Echoed
      PROVE  cells[k] = top[k]
  <2>1. k \notin DOMAIN EndpointsOverlay
    BY NestedKeysAgree
  <2> QED
    BY <1>1, <1>4, <1>5, <2>1 DEF Over
<1>12. cells["node_config"] =
           IF Blank(value["run.node_config"]) /\ groups > 0 THEN "summary"
                                                          ELSE value["run.node_config"]
  BY <1>5, <1>8, <1>9, <1>10, <1>11
<1>13. \A k \in DOMAIN Echoed \ {"node_config"} :
           cells[k] = IF k = "endpoint_url" /\ ~p.probe THEN "empty" ELSE value[Echoed[k]]
  BY <1>2, <1>5, <1>8, <1>11
<1> QED
  BY <1>4, <1>6, <1>7, <1>12, <1>13

\* The cells of a node type: the config's, and what the probes said.
LEMMA NestedNodes ==
    ASSUME NEW world \in Seq(NodeTypes), NEW value, NEW sent, NEW groups, NEW types,
           types = BuildEndpoints(Nested(sent, groups, world), value).types
    PROVE  /\ DOMAIN types = DOMAIN world
           /\ \A i \in DOMAIN world :
                  /\ \A k \in DOMAIN NodeMeta : /\ k \in DOMAIN types[i].cells
                                                /\ types[i].cells[k] = value[NodeMeta[k]]
                  /\ \A k \in DOMAIN types[i].cells \ DOMAIN NodeMeta :
                         types[i].cells[k] \in {"empty", "found", "undetected"}
<1> DEFINE d == Nested(sent, groups, world)
           from == From(NodeMeta, value)
<1>1. types = [i \in DOMAIN d.types |->
                  [d.types[i] EXCEPT !.cells = Over(from, Ordered(@, EndpointsNodeFields))]]
  BY DEF BuildEndpoints
<1>2. DOMAIN from = DOMAIN NodeMeta /\ \A k \in DOMAIN NodeMeta : from[k] = value[NodeMeta[k]]
  BY DEF From
<1> HIDE DEF from
<1>3. DOMAIN d.types = DOMAIN world
  BY DEF Nested
<1>4. ASSUME NEW i \in DOMAIN world
      PROVE  /\ \A k \in DOMAIN NodeMeta : /\ k \in DOMAIN types[i].cells
                                           /\ types[i].cells[k] = value[NodeMeta[k]]
             /\ \A k \in DOMAIN types[i].cells \ DOMAIN NodeMeta :
                    types[i].cells[k] \in {"empty", "found", "undetected"}
  <2> DEFINE blanks == [k \in Hosts |-> "empty"]
             probes == [host_memory_configuration |-> world[i].memory,
                        host_processor_model_name |-> "found"]
             hosted == d.types[i].cells
             ordered == Ordered(hosted, EndpointsNodeFields)
  <2>1. hosted = Over(blanks, probes)
    BY DEF Nested
  <2>2. world[i].memory \in {"found", "undetected"}
    <3>1. world[i] \in NodeTypes
      OBVIOUS
    <3> QED
      BY <3>1 DEF NodeTypes
  <2>3. DOMAIN probes = {"host_memory_configuration", "host_processor_model_name"}
        /\ \A k \in DOMAIN probes : probes[k] \in {"found", "undetected"}
    BY <2>2
  <2>4. DOMAIN blanks = Hosts /\ \A k \in Hosts : blanks[k] = "empty"
    OBVIOUS
  <2>5. "cells" \in DOMAIN d.types[i]
    BY DEF Nested
  <2> HIDE DEF blanks, probes
  <2>6. \A k \in DOMAIN hosted : hosted[k] \in {"empty", "found", "undetected"}
    <3> HIDE DEF d
    <3> QED
      BY <2>1, <2>3, <2>4 DEF Over
  <2>7. types[i].cells = Over(from, ordered)
    <3> HIDE DEF d
    <3> QED
      BY <1>1, <1>3, <2>5
  <2> HIDE DEF d, hosted
  <2>8. \A k \in DOMAIN ordered : ordered[k] \in {"empty", "found", "undetected"}
    BY <2>6 DEF Ordered
  <2> HIDE DEF ordered
  <2> QED
    BY <1>2, <2>7, <2>8 DEF Over
<1> HIDE DEF d
<1> QED
  BY <1>1, <1>3, <1>4

\* A nested file reads as the config that it was captured under, when the
\* profile probes the endpoint that it asks for.
LEMMA NestedReads ==
    ASSUME NEW world \in Seq(NodeTypes), DOMAIN world # {}, NEW value, Telling(value),
           NEW groups, NEW p, p.benchmark # "training", p.shape = "nested",
           "serving.url" \in p.requires \cup p.recommends => p.probe,
           NEW doc, NEW d, d = Nested(Sent(value, p), groups, world),
           doc.cells = BuildEndpoints(d, value).cells,
           doc.types = BuildEndpoints(d, value).types,
           doc.stamp.benchmark = p.benchmark, doc.stamp.shape = p.shape
    PROVE  Reads(doc, value, groups, p)
<1>1. /\ DOMAIN doc.cells = DOMAIN EndpointsOverlay \cup DOMAIN Echoed
      /\ \A k \in DOMAIN EndpointsOverlay : doc.cells[k] = value[EndpointsOverlay[k]]
      /\ \A k \in DOMAIN Echoed \ {"node_config"} :
             doc.cells[k] = IF k = "endpoint_url" /\ ~p.probe THEN "empty" ELSE value[Echoed[k]]
      /\ doc.cells["node_config"] =
             IF Blank(value["run.node_config"]) /\ groups > 0 THEN "summary"
                                                            ELSE value["run.node_config"]
  BY NestedTop
<1>2. /\ DOMAIN doc.types = DOMAIN world
      /\ \A i \in DOMAIN world :
             /\ \A k \in DOMAIN NodeMeta : /\ k \in DOMAIN doc.types[i].cells
                                           /\ doc.types[i].cells[k] = value[NodeMeta[k]]
             /\ \A k \in DOMAIN doc.types[i].cells \ DOMAIN NodeMeta :
                    doc.types[i].cells[k] \in {"empty", "found", "undetected"}
  BY NestedNodes
<1>4. EndpointsOverlay \in Overlays /\ NodeMeta \in Overlays /\ Echoed \in Overlays
  BY DEF Overlays
<1>5. /\ \A k \in DOMAIN EndpointsOverlay :
             value[EndpointsOverlay[k]] \in {"empty", "answer", "refused"}
      /\ \A k \in DOMAIN NodeMeta : value[NodeMeta[k]] \in {"empty", "answer", "refused"}
      /\ \A k \in DOMAIN Echoed : value[Echoed[k]] \in {"empty", "answer", "refused"}
  BY <1>4, OverlayPaths DEF Telling
<1>10. /\ "node_config" \in DOMAIN Echoed /\ Echoed["node_config"] = "run.node_config"
       /\ NestedKeys["node_config"] = "run.node_config" /\ "node_config" \notin NodeScope
       /\ "node_config" \notin DOMAIN EndpointsOverlay
  BY DEF Echoed, NestedKeys, NodeScope, EndpointsOverlay
<1>6. CellsWith(doc, StarterText) = {}
  <2>1. \A k \in DOMAIN doc.cells : doc.cells[k] \in {"empty", "answer", "refused", "summary"}
    <3>1. doc.cells["node_config"] \in {"empty", "answer", "refused", "summary"}
      BY <1>1, <1>5, <1>10
    <3>2. \A k \in DOMAIN Echoed \ {"node_config"} :
              doc.cells[k] \in {"empty", "answer", "refused"}
      BY <1>1, <1>5
    <3>3. \A k \in DOMAIN EndpointsOverlay : doc.cells[k] \in {"empty", "answer", "refused"}
      BY <1>1, <1>5
    <3> QED
      BY <1>1, <3>1, <3>2, <3>3
  <2>2. \A i \in DOMAIN doc.types : \A k \in DOMAIN doc.types[i].cells :
            doc.types[i].cells[k] \in {"empty", "answer", "refused", "found", "undetected"}
    BY <1>2, <1>5
  <2>3. \A k \in DOMAIN doc.cells : doc.cells[k] \notin StarterText
    BY <2>1 DEF StarterText
  <2>4. \A i \in DOMAIN doc.types : \A k \in DOMAIN doc.types[i].cells :
            doc.types[i].cells[k] \notin StarterText
    BY <2>2 DEF StarterText
  <2> QED
    BY <2>3, <2>4, NoTextLeft
<1>7. KeysOf(p) = NestedKeys
  BY DEF KeysOf
<1>8. ASSUME NEW k \in OutputKeys(p.requires \cup p.recommends, p)
      PROVE  IsEmpty(doc, k, p) <=>
                 Blank(value[KeysOf(p)[k]]) /\ ~(k = "node_config" /\ groups > 0)
  <2>1. k \in DOMAIN NestedKeys /\ NestedKeys[k] \in p.requires \cup p.recommends
    BY <1>7 DEF OutputKeys
  <2>2. CASE k \in NodeScope
    <3>1. IsEmpty(doc, k, p) <=>
              \A i \in DOMAIN doc.types :
                  k \notin DOMAIN doc.types[i].cells \/ Blank(doc.types[i].cells[k])
      BY <1>7, <2>2 DEF IsEmpty
    <3>2. k \in DOMAIN NodeMeta /\ NestedKeys[k] = NodeMeta[k]
      BY <2>2, NestedKeysAgree
    <3>3. \A i \in DOMAIN doc.types : /\ k \in DOMAIN doc.types[i].cells
                                     /\ doc.types[i].cells[k] = value[NestedKeys[k]]
      BY <1>2, <3>2
    <3> QED
      BY <1>2, <1>7, <1>10, <2>2, <3>1, <3>3
  <2>4. CASE k = "node_config"
    <3>1. IsEmpty(doc, k, p) <=> k \notin DOMAIN doc.cells \/ Blank(doc.cells[k])
      BY <1>7, <1>10, <2>4 DEF IsEmpty
    <3>2. k \in DOMAIN doc.cells /\ value[KeysOf(p)[k]] = value["run.node_config"]
      BY <1>1, <1>7, <1>10, <2>4
    <3>3. Blank(doc.cells[k]) <=> Blank(value["run.node_config"]) /\ ~(groups > 0)
      BY <1>1, <2>4 DEF Blank
    <3> QED
      BY <2>4, <3>1, <3>2, <3>3
  <2>3. CASE k \notin NodeScope /\ k # "node_config"
    <3>1. IsEmpty(doc, k, p) <=> k \notin DOMAIN doc.cells \/ Blank(doc.cells[k])
      BY <1>7, <2>3 DEF IsEmpty
    <3>2. \/ k \in DOMAIN EndpointsOverlay /\ NestedKeys[k] = EndpointsOverlay[k]
          \/ k \in DOMAIN Echoed /\ NestedKeys[k] = Echoed[k]
      BY <2>1, <2>3, NestedKeysAgree
    <3>3. k = "endpoint_url" => p.probe
      BY <2>1, NestedKeysAgree
    <3>4. k \in DOMAIN doc.cells /\ doc.cells[k] = value[NestedKeys[k]]
      BY <1>1, <2>3, <3>2, <3>3
    <3> QED
      BY <1>7, <2>3, <3>1, <3>4
  <2> QED
    BY <2>2, <2>3, <2>4
<1>9. ASSUME NEW k \in Supplied(doc)
      PROVE  \/ doc.cells[k] \in {value[q] : q \in SourcePaths(k)}
             \/ /\ k = "node_config" /\ doc.cells[k] = "summary"
                /\ groups > 0
                /\ Blank(value["run.node_config"])
  <2>1. k \in DOMAIN doc.cells /\ ~Blank(doc.cells[k])
    BY DEF Supplied
  <2>2. CASE k \in DOMAIN EndpointsOverlay
    <3>1. EndpointsOverlay[k] \in SourcePaths(k)
      BY <1>4, <2>2, SourceOf
    <3> QED
      BY <1>1, <2>2, <3>1
  <2>3. CASE k \in DOMAIN Echoed
    <3>1. Echoed[k] \in SourcePaths(k)
      BY <1>4, <2>3, SourceOf
    <3>2. CASE k # "node_config"
      <4>1. doc.cells[k] = value[Echoed[k]]
        BY <1>1, <2>1, <2>3, <3>2 DEF Blank
      <4> QED
        BY <3>1, <4>1
    <3>3. CASE k = "node_config" /\ Blank(value["run.node_config"]) /\ groups > 0
      BY <1>1, <3>3
    <3>4. CASE k = "node_config" /\ ~(Blank(value["run.node_config"]) /\ groups > 0)
      <4>1. doc.cells[k] = value[Echoed[k]]
        BY <1>1, <1>10, <3>4
      <4> QED
        BY <3>1, <4>1
    <3> QED
      BY <3>2, <3>3, <3>4
  <2> QED
    BY <1>1, <2>1, <2>2, <2>3
<1> QED
  BY <1>6, <1>8, <1>9 DEF Reads

-----------------------------------------------------------------------------
(***************************************************************************)
(* The file and the config.                                                *)
(***************************************************************************)
\* As long as nobody edits it, and its profile asks for the field set that it
\* publishes, the file reads as the config it was captured under and describes
\* some hardware.
LEMMA MadeReads ==
    ASSUME IInv, Untouched, Stamped
    PROVE  /\ Passed(origin.config)
           /\ Reads(out, origin.config.value, origin.config.groups, Origin)
           /\ out.stamp.complete \in BOOLEAN
           /\ IF Origin.shape = "nested" THEN out.types # <<>> ELSE out.nodes # 0
<1> DEFINE p == Origin
           value == origin.config.value
           groups == origin.config.groups
           world == origin.world
           d == Collected
           b == Built(d, value, p)
<1>1. /\ Passed(origin.config)
      /\ world \in Seq(NodeTypes)
      /\ CountCollectedNodes(d) > 0
      /\ out.stamp.complete \in BOOLEAN
      /\ out = Shape(d, value, p, ~out.stamp.complete)
  BY DEF IInv, MadeFromOrigin
<1>2. /\ p.shape = "nested" <=> p.benchmark \in {"endpoints", "none"}
      /\ "serving.url" \in p.requires \cup p.recommends => p.probe
      /\ origin.release = "current"
  BY DEF Stamped, Coherent
<1>3. d = IF p.benchmark \in {"endpoints", "none"} THEN Nested(Sent(value, p), groups, world)
                                                  ELSE Flat(world)
  BY <1>2 DEF Collected, Returned
<1>4. Telling(value)
  BY <1>1, PassedTells
<1>5. p.benchmark = "training" => value["system.availability"] \in {"empty", "answer"}
  BY <1>1 DEF Passed, Origin
<1>6. /\ Len(world) \in Nat
      /\ DOMAIN world = 1..Len(world)
      /\ \A i \in DOMAIN world : world[i].nodes \in Nat \ {0}
  <2>1. Len(world) \in Nat /\ DOMAIN world = 1..Len(world)
    BY <1>1
  <2>2. ASSUME NEW i \in 1..Len(world) PROVE world[i] \in NodeTypes
    BY <1>1
  <2> QED
    BY <2>1, <2>2 DEF NodeTypes
<1> HIDE DEF d, p, value, groups, world
<1>7. /\ out.cells = b.cells /\ out.types = b.types /\ out.nodes = b.nodes
      /\ out.stamp.benchmark = p.benchmark /\ out.stamp.shape = p.shape
  <2> DEFINE partial == ~out.stamp.complete
  <2>1. out = Shape(d, value, p, partial)
    BY <1>1
  <2> HIDE DEF partial, b
  <2>2. Shape(d, value, p, partial).cells = b.cells
        /\ Shape(d, value, p, partial).types = b.types
        /\ Shape(d, value, p, partial).nodes = b.nodes
    BY ShapeFields DEF b
  <2>3. Shape(d, value, p, partial).stamp.benchmark = p.benchmark
        /\ Shape(d, value, p, partial).stamp.shape = p.shape
    <3>1. Shape(d, value, p, partial).stamp =
              [profile |-> p.name, shape |-> p.shape,
               benchmark |-> p.benchmark, complete |-> ~partial]
      BY ShapeStamp
    <3> QED
      BY <3>1
  <2> QED
    BY <2>1, <2>2, <2>3
<1>8. CASE p.shape = "nested"
  <2>1. p.benchmark \in {"endpoints", "none"} /\ d = Nested(Sent(value, p), groups, world)
    BY <1>2, <1>3, <1>8
  <2>2. b = BuildEndpoints(d, value)
    BY <1>8, <2>1 DEF Built
  <2>3. d.nested = TRUE /\ DOMAIN d.types = DOMAIN world
        /\ \A i \in DOMAIN world : d.types[i].nodes = world[i].nodes
    BY <2>1 DEF Nested
  <2>4. DOMAIN world # {}
    <3>1. CountNodes(d.types) > 0
      BY <1>1, <2>3 DEF CountCollectedNodes
    <3>2. DOMAIN d.types = 1..Len(world)
          /\ \A i \in 1..Len(world) : d.types[i].nodes \in Nat \ {0}
      BY <1>6, <2>3
    <3>3. Len(world) > 0
      BY <1>6, <3>1, <3>2, CountedNodes
    <3>4. 1 \in 1..Len(world)
      BY <1>6, <3>3
    <3> QED
      BY <1>6, <3>4
  <2>5. Reads(out, value, groups, p)
    BY <1>1, <1>2, <1>4, <1>7, <1>8, <2>1, <2>2, <2>4, NestedReads DEF world
  <2>6. out.types # <<>>
    <3>1. DOMAIN out.types = DOMAIN world
      BY <1>7, <2>2, <2>3 DEF BuildEndpoints
    <3> QED
      BY <2>4, <3>1
  <2> QED
    BY <1>1, <1>8, <2>5, <2>6 DEF p, value, groups
<1>9. CASE p.shape # "nested"
  <2>1. p.benchmark \notin {"endpoints", "none"} /\ d = Flat(world)
    BY <1>2, <1>3, <1>9
  <2>2. d.nested = FALSE /\ d.types = <<>> /\ d.nodes = CountNodes(world)
    BY <2>1 DEF Flat
  <2>3. d.nodes \in Nat /\ d.nodes > 0
    <3>1. d.nodes > 0
      BY <1>1, <2>2 DEF CountCollectedNodes
    <3>2. CountNodes(world) \in Nat
      BY <1>6, CountedNodes
    <3> QED
      BY <2>2, <3>1, <3>2
  <2>4. CASE p.benchmark = "training"
    <3>1. b = BuildTraining(d, value)
      BY <2>4 DEF Built
    <3>2. b.types = <<>> /\ b.nodes = d.nodes
      BY <3>1 DEF BuildTraining
    <3>3. out.cells = BuildTraining(Flat(world), value).cells /\ out.types = <<>>
      BY <1>7, <2>1, <3>1, <3>2
    <3>4. Reads(out, value, groups, p)
      BY <1>4, <1>5, <1>7, <2>4, <3>3, TrainingReads
    <3>5. out.nodes # 0
      BY <1>7, <2>3, <3>2
    <3> QED
      BY <1>1, <1>9, <3>4, <3>5 DEF p, value, groups
  <2>5. CASE p.benchmark # "training"
    <3>1. b = BuildFlat(d, value, p)
      BY <1>9, <2>5 DEF Built
    <3>2. b.types = <<>> /\ b.nodes = d.nodes
      BY <2>2, <3>1 DEF BuildFlat
    <3>3. out.cells = BuildFlat(Flat(world), value, p).cells /\ out.types = <<>>
      BY <1>7, <2>1, <3>1, <3>2
    <3>4. Reads(out, value, groups, p)
      BY <1>4, <1>7, <1>9, <2>5, <3>3, FlatReads
    <3>5. out.nodes # 0
      BY <1>7, <2>3, <3>2
    <3> QED
      BY <1>1, <1>9, <3>4, <3>5 DEF p, value, groups
  <2> QED
    BY <2>4, <2>5
<1> QED
  BY <1>8, <1>9

\* check and validate agree: of a file captured under a config that passed the
\* check, validate says at most that it is partial, and reports a recommended
\* field as empty exactly when the config left it so and has no groups to
\* summarise in it, for any profile, config and hardware.
THEOREM CheckAndValidateAgree == Spec => []CheckedMeansValid
<1>1. ASSUME IInv, Untouched, Stamped
      PROVE  /\ Problems(out, Origin) = IF out.stamp.complete THEN {} ELSE {<<"partial", "none">>}
             /\ EmptyKeys(out, Origin.recommends, Origin) =
                   {k \in OutputKeys(Origin.recommends, Origin) :
                       /\ Blank(origin.config.value[KeysOf(Origin)[k]])
                       /\ ~(k = "node_config" /\ origin.config.groups > 0)}
  <2> DEFINE p == Origin
             value == origin.config.value
             groups == origin.config.groups
             keys == KeysOf(p)
             partly == {<<"partial", "none">> : x \in {y \in {out.stamp} : ~y.complete}}
             lacking == {<<"no hardware", "none">> :
                            x \in {y \in {out} : IF p.shape = "nested" THEN y.types = <<>>
                                                                      ELSE y.nodes = 0}}
  <2>1. /\ Passed(origin.config)
        /\ Reads(out, value, groups, p)
        /\ out.stamp.complete \in BOOLEAN
        /\ IF p.shape = "nested" THEN out.types # <<>> ELSE out.nodes # 0
    BY <1>1, MadeReads
  <2>2. \A path \in p.requires : ~Blank(value[path])
    BY <2>1 DEF Passed, Origin
  <2>3. Problems(out, p) = partly \cup {<<"empty", k>> : k \in EmptyKeys(out, p.requires, p)}
                           \cup {<<"placeholder", k>> : k \in CellsWith(out, StarterText)}
                           \cup lacking
    BY DEF Problems
  <2> HIDE DEF p, value, groups
  <2>4. ASSUME NEW paths, paths \subseteq p.requires \cup p.recommends,
               NEW k \in OutputKeys(paths, p)
        PROVE  /\ keys[k] \in paths
               /\ IsEmpty(out, k, p) <=>
                      Blank(value[keys[k]]) /\ ~(k = "node_config" /\ groups > 0)
    <3>1. keys[k] \in paths /\ k \in OutputKeys(p.requires \cup p.recommends, p)
      BY <2>4 DEF OutputKeys
    <3> QED
      BY <2>1, <3>1 DEF Reads
  <2>5. EmptyKeys(out, p.requires, p) = {}
    <3>1. \A k \in OutputKeys(p.requires, p) : ~IsEmpty(out, k, p)
      BY <2>2, <2>4
    <3> QED
      BY <3>1 DEF EmptyKeys
  <2>6. EmptyKeys(out, p.recommends, p) =
            {k \in OutputKeys(p.recommends, p) :
                Blank(value[keys[k]]) /\ ~(k = "node_config" /\ groups > 0)}
    <3>1. \A k \in OutputKeys(p.recommends, p) :
              IsEmpty(out, k, p) <=> Blank(value[keys[k]]) /\ ~(k = "node_config" /\ groups > 0)
      BY <2>4
    <3> HIDE DEF keys
    <3> QED
      BY <3>1 DEF EmptyKeys
  <2>7. CellsWith(out, StarterText) = {}
    BY <2>1 DEF Reads
  <2>8. lacking = {}
    BY <2>1
  <2>9. partly = IF out.stamp.complete THEN {} ELSE {<<"partial", "none">>}
    BY <2>1
  <2> HIDE DEF partly, lacking
  <2>10. Problems(out, p) = IF out.stamp.complete THEN {} ELSE {<<"partial", "none">>}
    BY <2>3, <2>5, <2>7, <2>8, <2>9
  <2> QED
    BY <2>6, <2>10 DEF p, value, groups
<1>2. IInv => CheckedMeansValid
  BY <1>1 DEF CheckedMeansValid
<1> QED
  BY <1>2, Always, PTL

\* What show prints as the config's is what the config said when the file was
\* captured, whatever it says since, or the summary of the nodes.groups in that
\* config, for any profile and hardware.
THEOREM SplitIsHonest == Spec => []SplitHonest
<1>1. ASSUME IInv, Untouched, Stamped, NEW k \in Supplied(out)
      PROVE  \/ out.cells[k] \in {origin.config.value[q] : q \in SourcePaths(k)}
             \/ /\ k = "node_config" /\ out.cells[k] = "summary"
                /\ origin.config.groups > 0
                /\ Blank(origin.config.value["run.node_config"])
  BY <1>1, MadeReads DEF Reads
<1>2. IInv => SplitHonest
  BY <1>1 DEF SplitHonest
<1> QED
  BY <1>2, Always, PTL
=============================================================================
