---------------------------- MODULE CaptureProofs ----------------------------
(***************************************************************************)
(* Proofs about Capture for any set of nodes, configs and power files and  *)
(* any number of runs: type correctness, and that what is published is     *)
(* fresh, truthfully stamped and consented to.                             *)
(*                                                                         *)
(* None of the properties of a deliverable is inductive: what is stamped   *)
(* when it is filled was decided when the collection was judged, from a    *)
(* raw file written while the automation ran, about nodes narrowed when    *)
(* the check ended. IInv carries each of these facts from the step that    *)
(* establishes it to the step that relies on it.                           *)
(***************************************************************************)
EXTENDS Capture, FiniteSetTheorems, TLAPS

\* From the check to the judgement, partial says whether a node was dropped.
PartialIsDropped ==
    pc \in {"open", "stale", "request", "mlc", "collect", "cleanup", "judge"} =>
        partial = (unreachable # {})

\* From the request on, exactly the nodes that answered are asked for, and for
\* its serving config none but one of them.
AskedTheReachable ==
    pc \in {"mlc", "collect"} => /\ request.ssh = cfg.targets \ unreachable
                                /\ request.serving \in request.ssh \cup {NoNode}

\* Once the leftover is gone, a raw file is this run's, about asked machines.
RawIsOurs ==
    pc \in {"request", "mlc", "collect", "cleanup", "judge"} /\ raw # NoFile =>
        /\ raw.by = run
        /\ raw.nodes \subseteq Wanted(cfg) \ unreachable

\* What the judgement established, still so when the deliverable is filled.
JudgedFit ==
    pc \in {"write", "writing"} =>
        /\ raw # NoFile
        /\ raw.by = run
        /\ raw.readable
        /\ raw.nodes \subseteq Wanted(cfg)
        /\ raw.nodes # {}
        /\ ~partial <=> raw.nodes = Wanted(cfg)
        /\ partial => cfg.allow
        /\ ~partial /\ cfg.accel => raw.accel

\* A deliverable keeps those facts, whatever happens to the run after it.
DocIsFit ==
    Written =>
        /\ deliverable.hardware.by = deliverable.by
        /\ deliverable.hardware.nodes \subseteq Wanted(deliverable.config)
        /\ deliverable.hardware.nodes # {}
        /\ deliverable.complete <=> deliverable.hardware.nodes = Wanted(deliverable.config)
        /\ deliverable.complete \/ deliverable.config.allow
        /\ deliverable.complete /\ deliverable.config.accel => deliverable.hardware.accel

\* After the write, the deliverable is this run's and stamped as it decided.
LiftBesideOurs ==
    pc = "lift" =>
        /\ Written
        /\ deliverable.by = run
        /\ deliverable.config = cfg
        /\ deliverable.complete = ~partial

IInv ==
    /\ TypeOK
    /\ PartialIsDropped
    /\ AskedTheReachable
    /\ RawIsOurs
    /\ JudgedFit
    /\ DocIsFit
    /\ LiftBesideOurs

-----------------------------------------------------------------------------
\* nodes_expected is the number of machines the config describes.
LEMMA ExpectedCountsWanted ==
    ASSUME cfg \in Configs
    PROVE  /\ IsFiniteSet(Wanted(cfg))
           /\ NodesExpected = Cardinality(Wanted(cfg))
<1>1. /\ cfg.targets \subseteq Nodes
      /\ cfg.local \in BOOLEAN
  BY ConfigsAssumption DEF ConfigSpace
<1>2. IsFiniteSet(cfg.targets) /\ Local \notin cfg.targets
  BY <1>1, NodesAssumption, FS_Subset
<1>3. CASE cfg.local
  BY <1>2, <1>3, FS_AddElement DEF Wanted, NodesExpected
<1>4. CASE ~cfg.local
  <2>1. Wanted(cfg) = cfg.targets
    BY <1>4 DEF Wanted
  <2>2. Cardinality(cfg.targets) \in Nat
    BY <1>2, FS_CardinalityType
  <2> QED
    BY <1>2, <1>4, <2>1, <2>2 DEF NodesExpected
<1> QED
  BY <1>1, <1>3, <1>4

\* Counting settles it: a collection about some of the wanted machines is
\* short exactly when one of them is missing.
LEMMA ShortMeansMissing ==
    ASSUME cfg \in Configs,
           raw.nodes \subseteq Wanted(cfg)
    PROVE  Short <=> raw.nodes # Wanted(cfg)
<1>1. /\ IsFiniteSet(Wanted(cfg))
      /\ NodesExpected = Cardinality(Wanted(cfg))
  BY ExpectedCountsWanted
<1>2. /\ IsFiniteSet(raw.nodes)
      /\ Cardinality(raw.nodes) \in Nat
      /\ Cardinality(Wanted(cfg)) \in Nat
  BY <1>1, FS_Subset, FS_CardinalityType
<1>3. CASE raw.nodes = Wanted(cfg)
  BY <1>1, <1>2, <1>3 DEF Short, NodesCollected
<1>4. CASE raw.nodes # Wanted(cfg)
  <2>1. Cardinality(raw.nodes) < Cardinality(Wanted(cfg))
    BY <1>1, <1>2, <1>4, FS_Subset
  <2> QED
    BY <1>1, <1>2, <1>4, <2>1 DEF Short, NodesCollected
<1> QED
  BY <1>3, <1>4

\* A config names SSH nodes, and the local machine is not one of them.
LEMMA ConfigParts ==
    ASSUME cfg \in Configs
    PROVE  /\ cfg.targets \subseteq Nodes
           /\ cfg.local \in BOOLEAN
           /\ cfg.serving \in Nodes \cup {NoNode}
           /\ cfg.accel \in BOOLEAN
           /\ cfg.redfish \in BOOLEAN
           /\ cfg.groups \in BOOLEAN
           /\ cfg.allow \in BOOLEAN
           /\ Wanted(cfg) \subseteq Machines
BY ConfigsAssumption DEF ConfigSpace, Wanted, Machines

\* A capture starts with nothing published and nothing asked.
LEMMA InitIInv == Init => IInv
<1> SUFFICES ASSUME Init PROVE IInv
  OBVIOUS
<1> USE DEF Init
<1>1. /\ pc \in Stages
      /\ run \in 0..MaxRuns
      /\ pc # "idle" => run \in Runs
      /\ clock \in Seconds
  BY BoundsAssumption DEF Stages, Seconds
<1>2. /\ cfg \in Configs
      /\ unreachable \subseteq cfg.targets
      /\ request \in RequestSpace
  BY DEF RequestSpace, NoRequest
<1>3. /\ scratch \in [KeepFiles -> 0..MaxRuns]
      /\ lifted \in [KeepFiles -> 0..MaxRuns]
      /\ logs \in [Seconds -> Logs \cup {NoFile}]
  BY BoundsAssumption
<1>4. TypeOK
  BY <1>1, <1>2, <1>3 DEF TypeOK
<1> QED
  BY <1>4
  DEF IInv, PartialIsDropped, AskedTheReachable, RawIsOurs, JudgedFit,
      DocIsFit, LiftBesideOurs, Written

-----------------------------------------------------------------------------
\* Every step keeps the types. The deliverable's needs the raw file to be
\* there when it is filled, which is why JudgedFit is assumed.
LEMMA TypeStep == TypeOK /\ JudgedFit /\ [Next]_vars => TypeOK'
<1> SUFFICES ASSUME TypeOK, JudgedFit, [Next]_vars
             PROVE  TypeOK'
  OBVIOUS
<1> USE DEF TypeOK, Stages
<1>1. ASSUME NEW c \in Configs, StartRun(c)
      PROVE  TypeOK'
  <2>1. NoRequest \in RequestSpace
    BY DEF NoRequest, RequestSpace
  <2>2. run' \in Runs /\ run' \in 0..MaxRuns
    BY <1>1, BoundsAssumption DEF StartRun, Runs
  <2> QED
    BY <1>1, <2>1, <2>2 DEF StartRun, diskVars
<1>2. ASSUME NEW problems \in BOOLEAN, NEW down \in SUBSET cfg.targets, Refuse(problems, down)
      PROVE  TypeOK'
  BY <1>2 DEF Refuse, diskVars, Runs
<1>3. ASSUME NEW problems \in BOOLEAN, NEW down \in SUBSET cfg.targets, Accept(problems, down)
      PROVE  TypeOK'
  BY <1>3 DEF Accept, diskVars, Runs
<1>4. ASSUME NEW t \in Seconds, OpenLog(t)
      PROVE  TypeOK'
  BY <1>4 DEF OpenLog, diskVars, Runs, Logs, LogOutcomes
<1>5. CASE DropStale
  BY <1>5 DEF DropStale, diskVars, Runs
<1>6. CASE BuildRequest
  BY <1>6, ConfigParts DEF BuildRequest, diskVars, Runs, Request, RequestSpace
<1>7. CASE MlcMissing
  BY <1>7 DEF MlcMissing, diskVars, Runs
<1>8. CASE EnterAutomation
  BY <1>8 DEF EnterAutomation, diskVars, Runs
<1>9. ASSUME NEW nodes \in SUBSET Machines, NEW accel \in BOOLEAN, NEW readable \in BOOLEAN, WriteRaw(nodes, accel, readable)
      PROVE  TypeOK'
  BY <1>9 DEF WriteRaw, diskVars, Runs, Raws
<1>10. ASSUME NEW f \in KeepFiles, WriteKeepFile(f)
      PROVE  TypeOK'
  BY <1>10, BoundsAssumption DEF WriteKeepFile, diskVars, Runs
<1>11. ASSUME NEW how \in {"ok", "error", "raised"}, AutomationEnds(how)
      PROVE  TypeOK'
  BY <1>11 DEF AutomationEnds, diskVars, Runs
<1>12. CASE Cleanup
  BY <1>12 DEF Cleanup, diskVars, Runs
<1>13. CASE RejectCollection
  BY <1>13 DEF RejectCollection, diskVars, Runs
<1>14. CASE AcceptCollection
  BY <1>14 DEF AcceptCollection, diskVars, Runs
<1>15. CASE TruncateDeliverable
  BY <1>15 DEF TruncateDeliverable, diskVars, Runs
<1>16. CASE FillDeliverable
  BY <1>16, FilesAssumption DEF FillDeliverable, diskVars, Runs, JudgedFit, Docs
<1>17. ASSUME NEW f \in KeepFiles, LiftKeepFile(f)
      PROVE  TypeOK'
  BY <1>17, BoundsAssumption DEF LiftKeepFile, diskVars, Runs
<1>18. CASE Finish
  BY <1>18 DEF Finish, diskVars, Runs, CloseLog, Verdict, Logs, LogOutcomes
<1>19. CASE Fail
  BY <1>19 DEF Fail, diskVars, Runs, CloseLog, Logs, LogOutcomes
<1>20. CASE Raise
  BY <1>20 DEF Raise, diskVars, Runs, InsideLog
<1>21. CASE Kill
  BY <1>21 DEF Kill, diskVars, Runs
<1>22. CASE UNCHANGED vars
  BY <1>22 DEF vars
<1> QED
  BY <1>1, <1>2, <1>3, <1>4, <1>5, <1>6, <1>7, <1>8, <1>9, <1>10, <1>11, <1>12, <1>13, <1>14, <1>15, <1>16, <1>17, <1>18, <1>19, <1>20, <1>21, <1>22 DEF Next, Code, Automation

\* Every step keeps the facts about what is collected, judged and published.
LEMMA FitStep ==
    IInv /\ [Next]_vars =>
        /\ PartialIsDropped' /\ AskedTheReachable' /\ RawIsOurs'
        /\ JudgedFit' /\ DocIsFit' /\ LiftBesideOurs'
<1> DEFINE Fit == /\ PartialIsDropped /\ AskedTheReachable /\ RawIsOurs
                  /\ JudgedFit /\ DocIsFit /\ LiftBesideOurs
<1> SUFFICES ASSUME TypeOK, Fit, [Next]_vars
             PROVE  Fit'
  BY DEF IInv
<1> USE DEF PartialIsDropped, AskedTheReachable, RawIsOurs, JudgedFit, DocIsFit,
            LiftBesideOurs, Written
<1>1. ASSUME NEW c \in Configs, StartRun(c)
      PROVE  Fit'
  BY <1>1 DEF StartRun, diskVars
<1>2. ASSUME NEW problems \in BOOLEAN, NEW down \in SUBSET cfg.targets, Refuse(problems, down)
      PROVE  Fit'
  BY <1>2 DEF Refuse, diskVars
<1>3. ASSUME NEW problems \in BOOLEAN, NEW down \in SUBSET cfg.targets, Accept(problems, down)
      PROVE  Fit'
  BY <1>3 DEF Accept, diskVars
<1>4. ASSUME NEW t \in Seconds, OpenLog(t)
      PROVE  Fit'
  BY <1>4 DEF OpenLog, diskVars
<1>5. CASE DropStale
  BY <1>5 DEF DropStale, diskVars
<1>6. CASE BuildRequest
  BY <1>6 DEF BuildRequest, diskVars, Request
<1>7. CASE MlcMissing
  BY <1>7 DEF MlcMissing, diskVars
<1>8. CASE EnterAutomation
  BY <1>8 DEF EnterAutomation, diskVars
<1>9. ASSUME NEW nodes \in SUBSET Machines, NEW accel \in BOOLEAN, NEW readable \in BOOLEAN, WriteRaw(nodes, accel, readable)
      PROVE  Fit'
  <2>1. Asked = Wanted(cfg) \ unreachable
    <3>1. pc = "collect" /\ request.ssh = cfg.targets \ unreachable
      BY <1>9 DEF WriteRaw
    <3>2. Local \notin unreachable
      BY ConfigParts, NodesAssumption DEF TypeOK
    <3> QED
      BY <3>1, <3>2 DEF Asked, Wanted
  <2>2. /\ raw'.by = run
        /\ raw'.nodes = nodes
        /\ nodes \subseteq Wanted(cfg) \ unreachable
    BY <1>9, <2>1 DEF WriteRaw
  <2> QED
    BY <1>9, <2>2 DEF WriteRaw
<1>10. ASSUME NEW f \in KeepFiles, WriteKeepFile(f)
      PROVE  Fit'
  BY <1>10 DEF WriteKeepFile, diskVars
<1>11. ASSUME NEW how \in {"ok", "error", "raised"}, AutomationEnds(how)
      PROVE  Fit'
  BY <1>11 DEF AutomationEnds, diskVars
<1>12. CASE Cleanup
  BY <1>12 DEF Cleanup, diskVars
<1>13. CASE RejectCollection
  BY <1>13 DEF RejectCollection, diskVars
<1>14. CASE AcceptCollection
  <2>1. /\ raw # NoFile
        /\ raw.by = run
        /\ raw.nodes \subseteq Wanted(cfg) \ unreachable
        /\ raw.readable
        /\ raw.nodes # {}
        /\ ~(Short /\ ~cfg.allow)
        /\ ~(AcceleratorMissed /\ ~(partial \/ Short))
    BY <1>14 DEF AcceptCollection, Rejected
  <2>2. Short <=> raw.nodes # Wanted(cfg)
    BY <2>1, ShortMeansMissing DEF TypeOK
  <2>3. partial => Short
    <3>1. partial => unreachable # {} /\ unreachable \subseteq Wanted(cfg)
      BY <1>14 DEF AcceptCollection, TypeOK, Wanted
    <3> QED
      BY <2>1, <2>2, <3>1
  <2>4. /\ partial' = Short
        /\ pc' = "write"
        /\ UNCHANGED <<run, cfg, unreachable, request, raw, deliverable>>
    BY <1>14, <2>3 DEF AcceptCollection, diskVars, TypeOK, Short
  <2>5. JudgedFit'
    <3>1. /\ (raw # NoFile)'
          /\ (raw.by = run)'
          /\ raw'.readable
          /\ (raw.nodes \subseteq Wanted(cfg))'
          /\ (raw.nodes # {})'
      BY <2>1, <2>4 DEF Wanted
    <3>2. (~partial <=> raw.nodes = Wanted(cfg))'
      BY <2>2, <2>4 DEF Wanted
    <3>3. (partial => cfg.allow)' /\ (~partial /\ cfg.accel => raw.accel)'
      BY <2>1, <2>3, <2>4 DEF AcceleratorMissed
    <3> QED
      BY <3>1, <3>2, <3>3
  <2>6. DocIsFit'
    BY <2>4 DEF Wanted
  <2> QED
    BY <2>4, <2>5, <2>6
<1>15. CASE TruncateDeliverable
  BY <1>15, FilesAssumption DEF TruncateDeliverable, diskVars
<1>16. CASE FillDeliverable
  <2> DEFINE doc == [by |-> run, config |-> cfg, hardware |-> raw, complete |-> ~partial]
  <2>1. doc \in Docs
    BY <1>16 DEF FillDeliverable, TypeOK, Docs
  <2>2. /\ deliverable' = doc
        /\ pc' = "lift"
        /\ UNCHANGED <<run, cfg, partial>>
    BY <1>16 DEF FillDeliverable
  <2>3. Written'
    BY <2>1, <2>2, FilesAssumption
  <2>4. LiftBesideOurs'
    BY <2>2, <2>3
  <2>5. DocIsFit'
    <3>1. /\ raw.by = run
          /\ raw.nodes \subseteq Wanted(cfg)
          /\ raw.nodes # {}
          /\ ~partial <=> raw.nodes = Wanted(cfg)
          /\ partial => cfg.allow
          /\ ~partial /\ cfg.accel => raw.accel
      BY <1>16 DEF FillDeliverable
    <3>2. /\ doc.by = run
          /\ doc.config = cfg
          /\ doc.hardware = raw
          /\ doc.complete = ~partial
      OBVIOUS
    <3> HIDE DEF doc
    <3> QED
      BY <2>2, <3>1, <3>2
  <2> QED
    BY <2>2, <2>4, <2>5
<1>17. ASSUME NEW f \in KeepFiles, LiftKeepFile(f)
      PROVE  Fit'
  BY <1>17 DEF LiftKeepFile, diskVars
<1>18. CASE Finish
  BY <1>18 DEF Finish, diskVars, CloseLog
<1>19. CASE Fail
  BY <1>19 DEF Fail, diskVars, CloseLog
<1>20. CASE Raise
  BY <1>20 DEF Raise, diskVars, InsideLog
<1>21. CASE Kill
  BY <1>21 DEF Kill, diskVars
<1>22. CASE UNCHANGED vars
  BY <1>22 DEF vars
<1> QED
  BY <1>1, <1>2, <1>3, <1>4, <1>5, <1>6, <1>7, <1>8, <1>9, <1>10, <1>11, <1>12, <1>13, <1>14, <1>15, <1>16, <1>17, <1>18, <1>19, <1>20, <1>21, <1>22 DEF Next, Code, Automation

-----------------------------------------------------------------------------
\* IInv holds in every state of every behaviour.
LEMMA Inductive == Spec => []IInv
<1>1. Init => IInv
  BY InitIInv
<1>2. IInv /\ [Next]_vars => IInv'
  BY TypeStep, FitStep DEF IInv
<1> QED
  BY <1>1, <1>2, PTL DEF Spec

\* Every variable keeps its type (TypeOK).
THEOREM TypeCorrect == Spec => []TypeOK
<1>1. IInv => TypeOK
  BY DEF IInv
<1> QED
  BY <1>1, Inductive, PTL

\* The hardware in a deliverable is never an earlier run's (collector.py's
\* unlink of the stale intermediate before the automation is called).
THEOREM Fresh == Spec => []FreshHardware
<1>1. IInv => FreshHardware
  BY DEF IInv, DocIsFit, FreshHardware
<1> QED
  BY <1>1, Inductive, PTL

\* The complete stamp says exactly whether every configured machine is there.
THEOREM Whole == Spec => []CompleteMeansWhole
<1>1. IInv => CompleteMeansWhole
  BY DEF IInv, DocIsFit, CompleteMeansWhole
<1> QED
  BY <1>1, Inductive, PTL

\* A partial deliverable exists only under --allow-partial, and no node that
\* was dropped is asked about.
THEOREM Consented == Spec => []PartialByConsent
<1>1. ASSUME IInv, pc \in {"mlc", "collect"}
      PROVE  unreachable \cap (request.ssh \cup {request.serving}) = {}
  <2>1. NoNode \notin unreachable
    BY <1>1, ConfigParts, NodesAssumption DEF IInv, TypeOK
  <2> QED
    BY <1>1, <2>1 DEF IInv, AskedTheReachable
<1>2. IInv => (Written => deliverable.complete \/ deliverable.config.allow)
  BY DEF IInv, DocIsFit
<1>3. IInv => PartialByConsent
  BY <1>1, <1>2 DEF PartialByConsent
<1> QED
  BY <1>3, Inductive, PTL

\* A complete deliverable shows the accelerators its config declares.
THEOREM AcceleratorSeen == Spec => []DeclaredAcceleratorSeen
<1>1. IInv => DeclaredAcceleratorSeen
  BY DEF IInv, DocIsFit, DeclaredAcceleratorSeen
<1> QED
  BY <1>1, Inductive, PTL

\* The previous deliverable is given up only by a run whose own collection
\* has passed every test of capture().
THEOREM Replaced == Spec => ReplacedOnlyByVerified
<1> DEFINE Verified == /\ raw # NoFile
                       /\ raw.by = run
                       /\ raw.readable
                       /\ raw.nodes # {}
                       /\ raw.nodes = Wanted(cfg) \/ cfg.allow
                       /\ cfg.accel /\ raw.nodes = Wanted(cfg) => raw.accel
<1>1. IInv /\ pc \in {"write", "writing"} => Verified
  BY DEF IInv, JudgedFit, TypeOK
<1>2. ASSUME IInv, [Next]_vars, deliverable' # deliverable
      PROVE  TruncateDeliverable \/ FillDeliverable
  BY <1>2 DEF Next, Code, Automation, vars, StartRun, Refuse, Accept, OpenLog,
      DropStale, BuildRequest, MlcMissing, EnterAutomation, WriteRaw,
      WriteKeepFile, AutomationEnds, Cleanup, RejectCollection, AcceptCollection,
      LiftKeepFile, Finish, Fail, Raise, Kill, diskVars
<1>3. IInv /\ [Next]_vars => [deliverable' # deliverable => Verified]_vars
  BY <1>1, <1>2 DEF TruncateDeliverable, FillDeliverable
<1> QED
  BY <1>3, Inductive, PTL DEF Spec, ReplacedOnlyByVerified

-----------------------------------------------------------------------------
\* The promise of Publication, in the terms of Capture.
LEMMA PromiseInit == Init => Promise!PubInit
BY FilesAssumption DEF Init, Promise!PubInit, PhaseOf, View, Orders

\* Every step of a capture is a step of the promise or leaves it alone.
LEMMA PromiseStep ==
    IInv /\ [Next]_vars => [Promise!PubNext]_(Promise!pubVars)
<1> SUFFICES ASSUME IInv, [Next]_vars
             PROVE  Promise!PubNext \/ UNCHANGED Promise!pubVars
  OBVIOUS
<1> USE DEF PhaseOf
<1>1. ASSUME NEW c \in Configs, StartRun(c)
      PROVE  Promise!Ask(OrderOf(c))
  BY <1>1 DEF StartRun, diskVars, Promise!Ask
<1>2. ASSUME NEW problems \in BOOLEAN, NEW down \in SUBSET cfg.targets, Refuse(problems, down)
      PROVE  Promise!GiveUp("refused")
  BY <1>2 DEF Refuse, diskVars, Promise!GiveUp
<1>3. ASSUME NEW problems \in BOOLEAN, NEW down \in SUBSET cfg.targets, Accept(problems, down)
      PROVE  UNCHANGED Promise!pubVars
  BY <1>3 DEF Accept, diskVars, Promise!pubVars
<1>4. ASSUME NEW t \in Seconds, OpenLog(t)
      PROVE  UNCHANGED Promise!pubVars
  BY <1>4 DEF OpenLog, diskVars, Promise!pubVars
<1>5. ASSUME DropStale
      PROVE  UNCHANGED Promise!pubVars
  BY <1>5 DEF DropStale, diskVars, Promise!pubVars
<1>6. ASSUME BuildRequest
      PROVE  UNCHANGED Promise!pubVars
  BY <1>6 DEF BuildRequest, diskVars, Promise!pubVars
<1>7. ASSUME MlcMissing
      PROVE  Promise!Unwind
  BY <1>7 DEF MlcMissing, diskVars, Promise!Unwind
<1>8. ASSUME EnterAutomation
      PROVE  UNCHANGED Promise!pubVars
  BY <1>8 DEF EnterAutomation, diskVars, Promise!pubVars
<1>9. ASSUME NEW nodes \in SUBSET Machines, NEW accel \in BOOLEAN, NEW readable \in BOOLEAN, WriteRaw(nodes, accel, readable)
      PROVE  UNCHANGED Promise!pubVars
  BY <1>9 DEF WriteRaw, diskVars, Promise!pubVars
<1>10. ASSUME NEW f \in KeepFiles, WriteKeepFile(f)
      PROVE  UNCHANGED Promise!pubVars
  BY <1>10 DEF WriteKeepFile, diskVars, Promise!pubVars
<1>11. ASSUME NEW how \in {"ok", "error", "raised"}, AutomationEnds(how)
      PROVE  UNCHANGED Promise!pubVars
  BY <1>11 DEF AutomationEnds, diskVars, Promise!pubVars
<1>12. ASSUME Cleanup
      PROVE  Promise!Unwind \/ UNCHANGED Promise!pubVars
  BY <1>12 DEF Cleanup, diskVars, Promise!Unwind, Promise!pubVars
<1>13. ASSUME RejectCollection
      PROVE  Promise!Unwind
  BY <1>13 DEF RejectCollection, diskVars, Promise!Unwind
<1>14. ASSUME AcceptCollection
      PROVE  UNCHANGED Promise!pubVars
  BY <1>14 DEF AcceptCollection, diskVars, Promise!pubVars
<1>15. ASSUME TruncateDeliverable
      PROVE  Promise!Open
  BY <1>15 DEF TruncateDeliverable, diskVars, Promise!Open, View
<1>16. ASSUME FillDeliverable
      PROVE  \E d \in Promise!Descriptions(OrderOf(cfg)) : Promise!Publish(d)
  <2> DEFINE doc == [by |-> run, config |-> cfg, hardware |-> raw, complete |-> ~partial]
             d == [machines |-> raw.nodes, accel |-> raw.accel, complete |-> ~partial]
  <2>1. doc \in Docs
    BY <1>16 DEF FillDeliverable, IInv, JudgedFit, TypeOK, Docs
  <2>2. View(doc) = d
    BY <2>1, FilesAssumption DEF View
  <2>3. d \in Promise!Descriptions(OrderOf(cfg))
    <3>1. raw.accel \in BOOLEAN /\ partial \in BOOLEAN
      BY <1>16 DEF FillDeliverable, IInv, JudgedFit, TypeOK, Raws
    <3>2. /\ raw.nodes \subseteq Wanted(cfg)
          /\ raw.nodes # {}
          /\ ~partial <=> raw.nodes = Wanted(cfg)
          /\ partial => cfg.allow
          /\ ~partial /\ cfg.accel => raw.accel
      BY <1>16 DEF FillDeliverable, IInv, JudgedFit
    <3> QED
      BY <3>1, <3>2 DEF Promise!Descriptions, OrderOf
  <2>4. Promise!Publish(d)
    BY <1>16, <2>2 DEF FillDeliverable, Promise!Publish
  <2> QED
    BY <2>3, <2>4
<1>17. ASSUME NEW f \in KeepFiles, LiftKeepFile(f)
      PROVE  UNCHANGED Promise!pubVars
  BY <1>17 DEF LiftKeepFile, diskVars, Promise!pubVars
<1>18. ASSUME Finish
      PROVE  Promise!Succeed
  <2>1. /\ Written
        /\ deliverable.complete = ~partial
    BY <1>18 DEF Finish, IInv, LiftBesideOurs
  <2>2. View(deliverable).complete = ~partial
    BY <2>1 DEF View, Written
  <2> QED
    BY <1>18, <2>2 DEF Finish, Verdict, Promise!Succeed
<1>19. ASSUME Fail
      PROVE  Promise!GiveUp("failed")
  BY <1>19 DEF Fail, diskVars, Promise!GiveUp
<1>20. ASSUME Raise
      PROVE  Promise!Unwind
  BY <1>20 DEF Raise, diskVars, Promise!Unwind, InsideLog
<1>21. ASSUME Kill
      PROVE  Promise!GiveUp("killed")
  BY <1>21 DEF Kill, diskVars, Promise!GiveUp
<1>22. CASE UNCHANGED vars
  BY <1>22 DEF vars, Promise!pubVars
<1> QED
  <2>1. /\ \A c \in Configs : OrderOf(c) \in Orders
        /\ UNCHANGED Promise!pubVars => Promise!PubNext \/ UNCHANGED Promise!pubVars
    BY DEF Orders
  <2> QED
    BY <2>1, <1>1, <1>2, <1>3, <1>4, <1>5, <1>6, <1>7, <1>8, <1>9, <1>10, <1>11, <1>12, <1>13, <1>14, <1>15, <1>16, <1>17, <1>18, <1>19, <1>20, <1>21, <1>22
       DEF Next, Code, Automation, Promise!PubNext

\* The detailed capture keeps the promise of Publication: whatever fails,
\* whoever reads the output directory sees a description truthfully stamped,
\* a file torn by a run that had begun to replace it, or what was there before.
THEOREM KeepsPromise == Spec => Implements
<1> QED
  BY PromiseInit, PromiseStep, Inductive, PTL DEF Spec, Implements, Promise!PubSpec

-----------------------------------------------------------------------------
\* What the caller and the next run find when a run is over. PInv adds what
\* these need about the steps on the way there.
NobodyElsesLog ==
    /\ \A t \in Seconds : logs[t] # NoFile => logs[t].by <= run
    /\ pc \in {"check", "open"} =>
           \A t \in Seconds : logs[t] # NoFile => logs[t].by # run

TidyProcess ==
    /\ cwd = "work" => pc \in {"collect", "cleanup"}
    /\ pc \in {"check", "open", "stale", "request", "mlc", "collect"} => result = "none"
    /\ result # "none" /\ pc # "cleanup" /\ ~(pc = "idle" /\ told = "killed") =>
           run \notin tmp
    /\ pc \in {"mlc", "collect"} /\ request.nodeConfig => run \in tmp

PInv ==
    /\ NobodyElsesLog
    /\ TidyProcess
    /\ AnswerIsTrue
    /\ LogMatchesAnswer

\* Before the first run there is no log and nobody to have been told.
LEMMA InitPInv == Init => PInv
BY BoundsAssumption
DEF Init, PInv, NobodyElsesLog, TidyProcess, AnswerIsTrue, LogMatchesAnswer

\* Every step keeps the logs, the process and the answers in agreement.
LEMMA StepPInv == IInv /\ PInv /\ [Next]_vars => PInv'
<1> SUFFICES ASSUME TypeOK, LiftBesideOurs, PInv, [Next]_vars
             PROVE  PInv'
  BY DEF IInv
<1> USE DEF PInv, NobodyElsesLog, TidyProcess, AnswerIsTrue, LogMatchesAnswer, Written
<1>1. ASSUME NEW c \in Configs, StartRun(c)
      PROVE  PInv'
  BY <1>1, BoundsAssumption DEF StartRun, diskVars, TypeOK, Logs, Runs
<1>2. ASSUME NEW problems \in BOOLEAN, NEW down \in SUBSET cfg.targets, Refuse(problems, down)
      PROVE  PInv'
  BY <1>2 DEF Refuse, diskVars
<1>3. ASSUME NEW problems \in BOOLEAN, NEW down \in SUBSET cfg.targets, Accept(problems, down)
      PROVE  PInv'
  BY <1>3 DEF Accept, diskVars
<1>4. ASSUME NEW t \in Seconds, OpenLog(t)
      PROVE  PInv'
  BY <1>4, FilesAssumption, BoundsAssumption DEF OpenLog, diskVars, TypeOK, Runs
<1>5. CASE DropStale
  BY <1>5 DEF DropStale, diskVars
<1>6. CASE BuildRequest
  BY <1>6 DEF BuildRequest, Request, diskVars
<1>7. CASE MlcMissing
  BY <1>7 DEF MlcMissing, diskVars
<1>8. CASE EnterAutomation
  BY <1>8 DEF EnterAutomation, diskVars
<1>9. ASSUME NEW nodes \in SUBSET Machines, NEW accel \in BOOLEAN, NEW readable \in BOOLEAN, WriteRaw(nodes, accel, readable)
      PROVE  PInv'
  BY <1>9 DEF WriteRaw, diskVars
<1>10. ASSUME NEW f \in KeepFiles, WriteKeepFile(f)
      PROVE  PInv'
  BY <1>10 DEF WriteKeepFile, diskVars
<1>11. ASSUME NEW how \in {"ok", "error", "raised"}, AutomationEnds(how)
      PROVE  PInv'
  BY <1>11 DEF AutomationEnds, diskVars
<1>12. CASE Cleanup
  BY <1>12 DEF Cleanup, diskVars
<1>13. CASE RejectCollection
  BY <1>13 DEF RejectCollection, diskVars
<1>14. CASE AcceptCollection
  BY <1>14 DEF AcceptCollection, diskVars
<1>15. CASE TruncateDeliverable
  BY <1>15 DEF TruncateDeliverable, diskVars
<1>16. CASE FillDeliverable
  BY <1>16 DEF FillDeliverable, diskVars
<1>17. ASSUME NEW f \in KeepFiles, LiftKeepFile(f)
      PROVE  PInv'
  BY <1>17 DEF LiftKeepFile, diskVars
<1>18. CASE Finish
  <2>1. /\ pc = "lift" /\ pc' = "idle"
        /\ told' = Verdict /\ Verdict \in {"partial", "complete"}
        /\ logs' = [logs EXCEPT ![clock] = [by |-> run, outcome |-> Verdict]]
        /\ UNCHANGED <<run, result, partial, cwd, deliverable, clock, tmp>>
    BY <1>18 DEF Finish, CloseLog, Verdict
  <2>2. AnswerIsTrue'
    BY <2>1 DEF LiftBesideOurs, Verdict, TypeOK
  <2>3. NobodyElsesLog' /\ LogMatchesAnswer'
    BY <2>1 DEF TypeOK, Runs
  <2>4. TidyProcess'
    BY <2>1
  <2> QED
    BY <2>2, <2>3, <2>4
<1>19. CASE Fail
  BY <1>19 DEF Fail, diskVars, CloseLog, TypeOK, Runs
<1>20. CASE Raise
  BY <1>20 DEF Raise, diskVars, InsideLog
<1>21. CASE Kill
  BY <1>21 DEF Kill, diskVars
<1>22. CASE UNCHANGED vars
  BY <1>22 DEF vars
<1> QED
  BY <1>1, <1>2, <1>3, <1>4, <1>5, <1>6, <1>7, <1>8, <1>9, <1>10, <1>11, <1>12, <1>13, <1>14, <1>15, <1>16, <1>17, <1>18, <1>19, <1>20, <1>21, <1>22 DEF Next, Code, Automation

\* PInv holds in every state of every behaviour.
LEMMA InductiveP == Spec => []PInv
<1> QED
  BY InitPInv, StepPInv, Inductive, PTL DEF Spec

\* A run that says it succeeded left its own deliverable, stamped as it said.
THEOREM TrueAnswer == Spec => []AnswerIsTrue
<1>1. PInv => AnswerIsTrue
  BY DEF PInv
<1> QED
  BY <1>1, InductiveP, PTL

\* The log of a run that ended by itself has a footer saying what was told.
THEOREM LoggedAnswer == Spec => []LogMatchesAnswer
<1>1. PInv => LogMatchesAnswer
  BY DEF PInv
<1> QED
  BY <1>1, InductiveP, PTL

\* Working directory and node config are put back however the call ended.
THEOREM Tidied == Spec => []NothingLeftBehind
<1>1. IInv /\ PInv => NothingLeftBehind
  BY DEF IInv, TypeOK, PInv, TidyProcess, NothingLeftBehind
<1> QED
  BY <1>1, Inductive, InductiveP, PTL

\* Power files are lifted only beside the deliverable of the same run.
THEOREM LiftedBeside == Spec => LiftedBesideDeliverable
<1>1. IInv /\ [Next]_vars => [lifted' # lifted => Written /\ deliverable.by = run]_vars
  BY DEF IInv, LiftBesideOurs, Next, Code, Automation, vars, StartRun, Refuse, Accept,
      OpenLog, DropStale, BuildRequest, MlcMissing, EnterAutomation, WriteRaw,
      WriteKeepFile, AutomationEnds, Cleanup, RejectCollection, AcceptCollection,
      TruncateDeliverable, FillDeliverable, LiftKeepFile, Finish, Fail, Raise, Kill,
      diskVars
<1> QED
  BY <1>1, Inductive, PTL DEF Spec, LiftedBesideDeliverable
=============================================================================
