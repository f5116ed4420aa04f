--------------------------- MODULE PreflightProofs ---------------------------
(***************************************************************************)
(* Proofs about Preflight for any finite set of config fields, any lists   *)
(* of targets, any pool size and any profile: what a check concludes from  *)
(* the config is what the config says, and what it says about the nodes is *)
(* what their own probes answered, in whatever order they ended.           *)
(***************************************************************************)
EXTENDS Preflight, LeastElements

\* The findings that the config alone decides.
ConfigFindings ==
    {"missing", "placeholderRequired", "placeholderRecommended", "placeholderOther",
     "missingRecommended", "unresolved", "satisfied"}

\* Until the config is judged, no probe has been started.
NothingAskedYet ==
    pc = "evaluate" =>
        /\ report = NoReport
        /\ got = 0
        /\ \A i \in Positions : future[i] = "pending"

\* Reaching the nodes and the endpoint adds to a report and alters none of
\* its findings about the config.
FindingsKept ==
    pc # "evaluate" => \A part \in ConfigFindings : report[part] = Evaluated[part]

\* The statuses that were collected stand: nothing changes a probe that ended.
CollectedStand ==
    /\ \A i \in 1..got : future[i] \in {"up", "down"}
    /\ pc \in {"evaluate", "nodes", "leaving"} => DOMAIN report.nodes = {}

\* An offline check starts no probe and lists no node.
OfflineReachesNobody ==
    c.offline =>
        /\ pc \in {"evaluate", "done"}
        /\ \A i \in Positions : future[i] = "pending"
        /\ DOMAIN report.nodes = {}

IInv ==
    /\ TypeOK
    /\ NothingAskedYet
    /\ FindingsKept
    /\ CollectedStand
    /\ OfflineReachesNobody
    /\ StatusesMatch
    /\ NoProbeOutlives

-----------------------------------------------------------------------------
\* What a case may hold, in the form the proofs use.
LEMMA CaseParts ==
    ASSUME c \in Cases
    PROVE  /\ c.value \in [Fields -> Values]
           /\ c.requires \subseteq Fields
           /\ c.recommends \subseteq Fields
           /\ c.env \in BOOLEAN /\ c.bmc \in BOOLEAN /\ c.local \in BOOLEAN
           /\ c.offline \in BOOLEAN
           /\ c.declared \in Nat
           /\ c.targets \in Seq(Nodes)
           /\ Positions = 1..Len(c.targets)
           /\ Len(c.targets) \in Nat
           /\ IsFiniteSet(c.requires)
           /\ Cardinality(c.requires) \in Nat
<1>1. c \in CaseSpace(Seq(Nodes))
  BY PreflightAssumption
<1>2. c.requires \subseteq Fields /\ c.targets \in Seq(Nodes)
  BY <1>1 DEF CaseSpace
<1>3. IsFiniteSet(c.requires) /\ Cardinality(c.requires) \in Nat
  BY <1>2, PreflightAssumption, FS_Subset, FS_CardinalityType
<1>4. Positions = 1..Len(c.targets) /\ Len(c.targets) \in Nat
  BY <1>2 DEF Positions
<1> QED
  BY <1>1, <1>2, <1>3, <1>4 DEF CaseSpace

\* The required fields that are answered can be counted.
LEMMA FilledCounted ==
    ASSUME c \in Cases
    PROVE  /\ IsFiniteSet(Filled(c.requires))
           /\ Cardinality(Filled(c.requires)) \in 0..Cardinality(c.requires)
<1>1. Filled(c.requires) \subseteq c.requires
  BY DEF Filled
<1> QED
  BY <1>1, CaseParts, FS_Subset, FS_CardinalityType

\* Max with zero clamps.
LEMMA Clamped ==
    ASSUME NEW k \in Int
    PROVE  Max({0, k}) = IF k > 0 THEN k ELSE 0
<1> DEFINE m == IF k > 0 THEN k ELSE 0
<1>1. m \in {0, k} /\ \A y \in {0, k} : m >= y
  OBVIOUS
<1>2. ASSUME NEW x \in {0, k}, \A y \in {0, k} : x >= y
      PROVE  x = m
  BY <1>1, <1>2
<1> QED
  BY <1>1, <1>2 DEF Max

\* The count of satisfied fields is that of the ready ones, or one less: the
\* benchmark refuses at most one field, and that one is not ready.
LEMMA CountIsHonest ==
    ASSUME c \in Cases
    PROVE  /\ SatisfiedCount \in 0..Cardinality(c.requires)
           /\ SatisfiedCount <= Cardinality({f \in c.requires : Ready(f)})
<1> DEFINE F == Filled(c.requires)
           G == {f \in c.requires : Ready(f)}
<1>1. /\ IsFiniteSet(F)
      /\ Cardinality(F) \in 0..Cardinality(c.requires)
      /\ Cardinality(c.requires) \in Nat
  BY FilledCounted, CaseParts
<1>2. G \subseteq F
  BY DEF Ready, Filled
<1>3. IsFiniteSet(G) /\ Cardinality(G) \in Nat
  BY <1>1, <1>2, FS_Subset, FS_CardinalityType
<1>4. CASE BadStatus
  <2>1. ~LongShortName
    BY <1>4 DEF BadStatus, LongShortName
  <2>2. G = F \ {Status}
    BY <1>4, <2>1 DEF Ready, Filled
  <2>3. Cardinality(G) >= Cardinality(F) - 1
    <3>1. Cardinality(F \ {Status}) =
              IF Status \in F THEN Cardinality(F) - 1 ELSE Cardinality(F)
      BY <1>1, FS_RemoveElement
    <3> QED
      BY <1>1, <2>2, <3>1
  <2>4. SatisfiedCount = IF Cardinality(F) - 1 > 0 THEN Cardinality(F) - 1 ELSE 0
    BY <1>1, <1>4, Clamped DEF SatisfiedCount
  <2> QED
    BY <1>1, <1>3, <2>3, <2>4
<1>5. CASE LongShortName
  <2>1. ~BadStatus
    BY <1>5 DEF BadStatus, LongShortName
  <2>2. G = F \ {ShortName}
    BY <1>5, <2>1 DEF Ready, Filled
  <2>3. Cardinality(G) >= Cardinality(F) - 1
    <3>1. Cardinality(F \ {ShortName}) =
              IF ShortName \in F THEN Cardinality(F) - 1 ELSE Cardinality(F)
      BY <1>1, FS_RemoveElement
    <3> QED
      BY <1>1, <2>2, <3>1
  <2>4. SatisfiedCount = IF Cardinality(F) - 1 > 0 THEN Cardinality(F) - 1 ELSE 0
    BY <1>1, <1>5, Clamped DEF SatisfiedCount
  <2> QED
    BY <1>1, <1>3, <2>3, <2>4
<1>6. CASE ~BadStatus /\ ~LongShortName
  <2>1. G = F
    BY <1>6 DEF Ready, Filled
  <2>2. SatisfiedCount = Max({0, Cardinality(F) - 0})
    BY <1>6 DEF SatisfiedCount
  <2>3. SatisfiedCount = Cardinality(F)
    BY <1>1, <2>2, Clamped
  <2> QED
    BY <1>1, <2>1, <2>3
<1> QED
  BY <1>4, <1>5, <1>6

\* The report that judging the config writes is well typed.
LEMMA EvaluatedTyped ==
    ASSUME c \in Cases
    PROVE  /\ DOMAIN Evaluated = DOMAIN NoReport
           /\ Evaluated.missing \subseteq Fields \cup {"nodes.groups", "power.redfish.endpoint"}
           /\ Evaluated.placeholderRequired \cup Evaluated.placeholderRecommended
                  \cup Evaluated.placeholderOther \cup Evaluated.missingRecommended
                  \subseteq Fields
           /\ Evaluated.satisfied \in 0..Cardinality(c.requires)
           /\ DOMAIN Evaluated.nodes = {}
<1>1. MissingRequired \subseteq Fields \cup {"nodes.groups", "power.redfish.endpoint"}
  BY CaseParts, PreflightAssumption DEF MissingRequired, Empty
<1>2. /\ Placeholders(c.requires) \subseteq Fields
      /\ Placeholders(c.recommends) \subseteq Fields
      /\ PlaceholderOther \subseteq Fields
      /\ Empty(c.recommends) \subseteq Fields
  BY CaseParts DEF Placeholders, PlaceholderOther, Empty
<1>3. SatisfiedCount \in 0..Cardinality(c.requires)
  BY CountIsHonest
<1> QED
  BY <1>1, <1>2, <1>3 DEF Evaluated, NoReport

\* The worker that is free takes a target nobody has taken.
LEMMA TakesPending ==
    ASSUME c \in Cases, Pending # {}
    PROVE  Min(Pending) \in Pending /\ Min(Pending) \in Positions
<1>1. Pending \subseteq Nat /\ Pending \subseteq Positions
  BY CaseParts DEF Pending
<1>2. PICK m \in Pending : \A k \in Pending : m <= k
  BY <1>1, LeastElement
<1>3. Min(Pending) \in Pending
  BY <1>2 DEF Min
<1> QED
  BY <1>1, <1>3

\* A check starts with nothing judged and nothing asked.
LEMMA InitIInv == Init => IInv
<1> SUFFICES ASSUME Init PROVE IInv
  OBVIOUS
<1> USE DEF Init
<1>1. /\ Positions = 1..Len(c.targets)
      /\ Len(c.targets) \in Nat
      /\ Cardinality(c.requires) \in Nat
  BY CaseParts
<1>2. /\ future \in [Positions -> FutureStates]
      /\ \A i \in Positions : future[i] = "pending"
  BY DEF Positions, FutureStates
<1>3. DOMAIN report.nodes = {}
  BY DEF NoReport
<1>4. TypeOK
  BY <1>1, <1>2, <1>3 DEF TypeOK, NoReport
<1> QED
  BY <1>2, <1>3, <1>4
  DEF IInv, NothingAskedYet, FindingsKept, CollectedStand, OfflineReachesNobody,
      StatusesMatch, NoProbeOutlives

-----------------------------------------------------------------------------
\* Every step keeps the inductive invariant.
LEMMA StepIInv == IInv /\ [Next]_vars => IInv'
<1> SUFFICES ASSUME IInv, [Next]_vars
             PROVE  IInv'
  OBVIOUS
<1> USE DEF IInv
<1>1. /\ c \in Cases
      /\ Positions = 1..Len(c.targets)
      /\ Len(c.targets) \in Nat
      /\ c.offline \in BOOLEAN
  BY CaseParts DEF TypeOK
<1>2. ASSUME c' = c
      PROVE  /\ Positions' = Positions
             /\ Evaluated' = Evaluated
  BY <1>2
  DEF Positions, Evaluated, MissingRequired, Empty, BadStatus, LongShortName, Available,
      Placeholders, PlaceholderOther, SatisfiedCount, Filled
<1>3. CASE Evaluate
  <2>1. /\ c' = c /\ future' = future /\ got' = got /\ report' = Evaluated
        /\ pc = "evaluate" /\ pc' \in {"done", "nodes", "endpoint"}
        /\ c.offline => pc' = "done"
        /\ pc' = "done" => c.offline
        /\ pc' = "endpoint" => c.targets = <<>>
    BY <1>1, <1>3 DEF Evaluate
  <2>2. Positions' = Positions /\ Evaluated' = Evaluated
    BY <1>2, <2>1
  <2>3. got = 0 /\ \A i \in Positions : future[i] = "pending"
    BY <2>1 DEF NothingAskedYet
  <2>4. DOMAIN report'.nodes = {}
    BY <2>1, EvaluatedTyped, <1>1
  <2>5. TypeOK'
    BY <1>1, <2>1, <2>2, <2>4, EvaluatedTyped DEF TypeOK, NoReport
  <2>6. pc' = "endpoint" => Positions = {}
    BY <1>1, <2>1
  <2>7. StatusesMatch' /\ NoProbeOutlives'
    BY <1>1, <2>1, <2>2, <2>3, <2>4, <2>6 DEF StatusesMatch, NoProbeOutlives, Running
  <2> QED
    BY <1>1, <2>1, <2>2, <2>3, <2>4, <2>5, <2>7
    DEF NothingAskedYet, FindingsKept, CollectedStand, OfflineReachesNobody
<1>4. CASE Take
  <2> DEFINE j == Min(Pending)
  <2>1. /\ c' = c /\ pc' = pc /\ report' = report /\ got' = got
        /\ pc \in {"nodes", "leaving"}
        /\ future' = [future EXCEPT ![j] = "running"]
    BY <1>4 DEF Take
  <2>2. Positions' = Positions /\ Evaluated' = Evaluated
    BY <1>2, <2>1
  <2>3. j \in Positions /\ future[j] = "pending"
    BY <1>1, <1>4, TakesPending DEF Take, Pending
  <2> HIDE DEF j
  <2>4. \A i \in 1..got : i # j
    BY <2>3 DEF CollectedStand
  <2>5. TypeOK'
    BY <2>1, <2>2, <2>3 DEF TypeOK, FutureStates
  <2>6. CollectedStand'
    BY <1>1, <2>1, <2>3, <2>4 DEF CollectedStand, TypeOK
  <2> QED
    BY <2>1, <2>2, <2>5, <2>6
    DEF NothingAskedYet, FindingsKept, OfflineReachesNobody, StatusesMatch, NoProbeOutlives
<1>5. ASSUME NEW i \in Positions, Answer(i)
      PROVE  IInv'
  <2>1. /\ c' = c /\ pc' = pc /\ report' = report /\ got' = got
        /\ future[i] = "running"
    BY <1>5 DEF Answer
  <2>2. PICK status \in {"up", "down", "raised"} : future' = [future EXCEPT ![i] = status]
    BY <1>5 DEF Answer
  <2>3. Positions' = Positions /\ Evaluated' = Evaluated
    BY <1>2, <2>1
  <2>4. /\ pc \in {"nodes", "leaving"}
        /\ ~c.offline
    BY <1>5, <2>1
    DEF NothingAskedYet, OfflineReachesNobody, NoProbeOutlives, Running, TypeOK
  <2>5. TypeOK'
    BY <2>1, <2>2, <2>3 DEF TypeOK, FutureStates
  <2>6. CollectedStand'
    BY <1>1, <2>1, <2>2 DEF CollectedStand, TypeOK
  <2> QED
    BY <2>1, <2>3, <2>4, <2>5, <2>6
    DEF NothingAskedYet, FindingsKept, OfflineReachesNobody, StatusesMatch, NoProbeOutlives
<1>6. CASE Collect
  <2>1. /\ c' = c /\ future' = future /\ got' = got + 1
        /\ pc = "nodes" /\ got < Len(c.targets)
        /\ future[got + 1] \in {"up", "down"}
    BY <1>6 DEF Collect
  <2>2. Positions' = Positions /\ Evaluated' = Evaluated
    BY <1>2, <2>1
  <2>3. /\ got' \in 0..Len(c.targets)
        /\ \A i \in 1..got' : future[i] \in {"up", "down"}
        /\ ~c.offline
    BY <1>1, <2>1 DEF TypeOK, CollectedStand, OfflineReachesNobody
  <2>4. CASE got' = Len(c.targets)
    <3>1. /\ report' = [report EXCEPT !.nodes = [i \in Positions |-> future[i] = "up"]]
          /\ pc' = "endpoint"
      BY <1>6, <2>4 DEF Collect
    <3>2. \A i \in Positions : future[i] \in {"up", "down"}
      BY <1>1, <2>3, <2>4
    <3>3. /\ DOMAIN report' = DOMAIN NoReport
          /\ report'.nodes = [i \in Positions |-> future[i] = "up"]
          /\ \A part \in ConfigFindings : report'[part] = report[part]
      BY <3>1 DEF ConfigFindings, TypeOK, NoReport
    <3>4. TypeOK'
      BY <2>1, <2>2, <2>3, <3>1, <3>3 DEF TypeOK, ConfigFindings
    <3>5. StatusesMatch' /\ NoProbeOutlives'
      BY <2>1, <2>2, <3>2, <3>3 DEF StatusesMatch, NoProbeOutlives, Running
    <3> QED
      BY <2>1, <2>2, <2>3, <3>1, <3>3, <3>4, <3>5
      DEF NothingAskedYet, FindingsKept, CollectedStand, OfflineReachesNobody
  <2>5. CASE got' # Len(c.targets)
    <3>1. report' = report /\ pc' = pc
      BY <1>6, <2>5 DEF Collect
    <3> QED
      BY <1>1, <2>1, <2>2, <2>3, <3>1
      DEF TypeOK, NothingAskedYet, FindingsKept, CollectedStand, OfflineReachesNobody,
          StatusesMatch, NoProbeOutlives
  <2> QED
    BY <2>4, <2>5
<1>7. CASE Abandon
  <2>1. /\ c' = c /\ report' = report /\ got' = got
        /\ pc = "nodes" /\ pc' = "leaving"
        /\ future' = [i \in Positions |-> IF i \in Pending THEN "cancelled" ELSE future[i]]
    BY <1>7 DEF Abandon
  <2>2. Positions' = Positions /\ Evaluated' = Evaluated
    BY <1>2, <2>1
  <2>3. TypeOK'
    BY <2>1, <2>2 DEF TypeOK, FutureStates
  <2>4. CollectedStand'
    BY <1>1, <2>1 DEF CollectedStand, TypeOK, Pending
  <2> QED
    BY <2>1, <2>2, <2>3, <2>4
    DEF NothingAskedYet, FindingsKept, OfflineReachesNobody, StatusesMatch, NoProbeOutlives
<1>8. CASE Leave
  <2>1. Positions' = Positions /\ Evaluated' = Evaluated
    BY <1>2, <1>8 DEF Leave
  <2> QED
    BY <1>8, <2>1
    DEF Leave, TypeOK, NothingAskedYet, FindingsKept, CollectedStand, OfflineReachesNobody,
        StatusesMatch, NoProbeOutlives, Running
<1>9. CASE ProbeEndpoint \/ CheckServingLog
  <2>1. /\ c' = c /\ future' = future /\ got' = got
        /\ pc \in {"endpoint", "log"}
        /\ pc' \in {"log", "done", "raised"}
    BY <1>9 DEF ProbeEndpoint, CheckServingLog
  <2>2. \/ report' = report
        \/ \E answer : report' = [report EXCEPT !.endpoint = answer]
        \/ \E answer : report' = [report EXCEPT !.servingLog = answer]
    BY <1>9 DEF ProbeEndpoint, CheckServingLog
  <2>3. /\ DOMAIN report' = DOMAIN report
        /\ report'.nodes = report.nodes
        /\ \A part \in ConfigFindings : report'[part] = report[part]
    BY <2>2 DEF ConfigFindings, TypeOK, NoReport
  <2>4. Positions' = Positions /\ Evaluated' = Evaluated
    BY <1>2, <2>1
  <2>5. ~c.offline
    BY <2>1 DEF OfflineReachesNobody
  <2>6. TypeOK'
    BY <2>1, <2>3, <2>4 DEF TypeOK, ConfigFindings
  <2> QED
    BY <2>1, <2>3, <2>4, <2>5, <2>6
    DEF NothingAskedYet, FindingsKept, CollectedStand, OfflineReachesNobody,
        StatusesMatch, NoProbeOutlives, Running
<1>10. CASE UNCHANGED vars
  <2>1. Positions' = Positions /\ Evaluated' = Evaluated
    BY <1>2, <1>10 DEF vars
  <2> QED
    BY <1>10, <2>1
    DEF vars, TypeOK, NothingAskedYet, FindingsKept, CollectedStand, OfflineReachesNobody,
        StatusesMatch, NoProbeOutlives, Running
<1> QED
  BY <1>3, <1>4, <1>5, <1>6, <1>7, <1>8, <1>9, <1>10 DEF Next, Main

-----------------------------------------------------------------------------
\* The inductive invariant holds throughout.
LEMMA Inductive == Spec => []IInv
<1>1. Init => IInv
  BY InitIInv
<1>2. IInv /\ [Next]_vars => IInv'
  BY StepIInv
<1> QED
  BY <1>1, <1>2, PTL DEF Spec

\* Every reachable state is well typed.
THEOREM TypeCorrect == Spec => []TypeOK
<1>1. IInv => TypeOK
  BY DEF IInv
<1> QED
  BY <1>1, Inductive, PTL

\* NeverOverstated: the count of required fields set is never more than those
\* that are ready, for any profile, although one of two complaints takes a
\* field back without looking which.
THEOREM CountHonest == Spec => []NeverOverstated
<1>1. ASSUME IInv PROVE NeverOverstated
  <2> SUFFICES ASSUME pc # "evaluate"
               PROVE  report.satisfied <= Cardinality({f \in c.requires : Ready(f)})
    BY DEF NeverOverstated
  <2>1. report.satisfied = SatisfiedCount
    BY <1>1 DEF IInv, FindingsKept, ConfigFindings, Evaluated
  <2> QED
    BY <1>1, <2>1, CountIsHonest DEF IInv, TypeOK
<1> QED
  BY <1>1, Inductive, PTL

\* OkMeansReady: a check that passes vouches for every field of the config, for
\* the node count and, when it was not offline, for an answer from every node.
THEOREM PassVouches == Spec => []OkMeansReady
<1>1. ASSUME IInv PROVE OkMeansReady
  <2> SUFFICES ASSUME pc = "done", Ok
               PROVE  /\ Placeholders(Fields) = {}
                      /\ \A f \in c.requires : Ready(f)
                      /\ c.declared <= Available
                      /\ ~c.env /\ ~c.bmc
                      /\ c.offline \/ \A i \in Positions : future[i] = "up"
    BY DEF OkMeansReady
  <2>1. c \in Cases
    BY <1>1 DEF IInv, TypeOK
  <2>2. /\ MissingRequired = {}
        /\ Placeholders(c.requires) = {}
        /\ Placeholders(c.recommends) = {}
        /\ PlaceholderOther = {}
        /\ ~c.env
    BY <1>1 DEF IInv, FindingsKept, ConfigFindings, Evaluated, Ok, HasConfigProblems
  <2>3. Placeholders(Fields) = {}
    BY <2>2 DEF PlaceholderOther
  <2>4. /\ Empty(c.requires) = {}
        /\ ~BadStatus /\ ~LongShortName
        /\ ~(c.declared > Available)
        /\ ~c.bmc
    BY <2>2 DEF MissingRequired
  <2>5. ASSUME NEW f \in c.requires PROVE Ready(f)
    <3>1. c.value[f] \in Values /\ c.value[f] # "empty" /\ ~IsPlaceholder(c.value[f])
      BY <2>1, <2>2, <2>4, CaseParts DEF Empty, Placeholders
    <3> QED
      BY <2>4, <3>1 DEF Ready, Values, IsPlaceholder, IsFilled
  <2>6. c.declared <= Available
    <3>1. c.declared \in Nat /\ Len(c.targets) \in Nat
      BY <2>1, CaseParts
    <3>2. Available \in {Len(c.targets), Len(c.targets) + 1}
      <4>1. CASE c.local
        BY <4>1 DEF Available
      <4>2. CASE ~c.local
        BY <3>1, <4>2 DEF Available
      <4> QED
        BY <4>1, <4>2
    <3>3. Available \in Nat
      BY <3>1, <3>2
    <3> QED
      BY <2>4, <3>1, <3>3
  <2>7. ASSUME ~c.offline, NEW i \in Positions PROVE future[i] = "up"
    <3>1. /\ i \in DOMAIN report.nodes
          /\ report.nodes[i] <=> future[i] = "up"
      BY <1>1, <2>7 DEF IInv, StatusesMatch
    <3>2. c.targets[i] \notin Unreachable
      BY DEF Ok
    <3>3. report.nodes[i]
      BY <3>1, <3>2 DEF Unreachable
    <3> QED
      BY <3>1, <3>3
  <2> QED
    BY <2>2, <2>3, <2>4, <2>5, <2>6, <2>7
<1> QED
  BY <1>1, Inductive, PTL

\* StatusesMatch: however many probes there are and however they overlap, each
\* status in the report is that of the target it stands beside.
THEOREM StatusesInPlace == Spec => []StatusesMatch
<1>1. IInv => StatusesMatch
  BY DEF IInv
<1> QED
  BY <1>1, Inductive, PTL

\* KeptAnswered: a target kept for the automation was reached by every probe of
\* it, however often it is listed.
THEOREM KeptWasReached == Spec => []KeptAnswered
<1>1. ASSUME IInv PROVE KeptAnswered
  <2> SUFFICES ASSUME pc = "done", ~c.offline,
                      NEW i \in Positions, c.targets[i] \in Kept
               PROVE  future[i] = "up"
    BY DEF KeptAnswered
  <2>1. /\ i \in DOMAIN report.nodes
        /\ report.nodes[i] <=> future[i] = "up"
    BY <1>1 DEF IInv, StatusesMatch
  <2>2. c.targets[i] \notin Unreachable
    BY DEF Kept
  <2>3. report.nodes[i]
    BY <2>1, <2>2 DEF Unreachable
  <2> QED
    BY <2>1, <2>3
<1> QED
  BY <1>1, Inductive, PTL

\* NoProbeOutlives: when the check is over, answered or raised, no probe runs.
THEOREM ProbesEnded == Spec => []NoProbeOutlives
<1>1. IInv => NoProbeOutlives
  BY DEF IInv
<1> QED
  BY <1>1, Inductive, PTL
=============================================================================
