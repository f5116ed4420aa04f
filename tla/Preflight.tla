------------------------------ MODULE Preflight ------------------------------
(***************************************************************************)
(* run_check(): the config judged against its profile, then everything the *)
(* config names reached, and the report that capture() acts on.            *)
(*                                                                         *)
(* Nodes are probed by a pool of at most MaxWorkers threads that take them *)
(* in order and finish in any order, while the calling thread collects     *)
(* their statuses in order; then the endpoint, then the serving log. A     *)
(* probe that cannot reach its node says so; one that fails in a way its   *)
(* code does not expect (output that is not UTF-8, a reply that is not     *)
(* HTTP) raises, and the check raises with it once the probes still        *)
(* running have ended and those not yet started are cancelled.             *)
(***************************************************************************)
EXTENDS Integers, Sequences, FiniteSets, FiniteSetsExt

CONSTANTS
    Nodes,        \* SSH targets
    Fields,       \* the config's string fields
    Status,       \* system.availability, one of Fields
    ShortName,    \* system.shortened_name, one of Fields
    Cases,        \* the configs, profiles and command lines considered
    MaxWorkers    \* the pool's size

(***************************************************************************)
(* What a field may hold. "refused" is an answer the benchmark's rules     *)
(* reject: a fifth availability, a short name over twenty characters.      *)
(* "starter" is placeholder text, "long starter" is placeholder text over  *)
(* twenty characters; neither is a legal availability.                     *)
(***************************************************************************)
Values == {"empty", "answer", "refused", "starter", "long starter"}

CaseSpace(targetLists) ==
    [value : [Fields -> Values], requires : SUBSET Fields, recommends : SUBSET Fields,
     benchmark : {"training", "endpoints", "other"},
     env : BOOLEAN,          \* an unset ${VAR} is left in the config
     declared : Nat,         \* nodes declared by nodes.groups; 0 when it is not set
     bmc : BOOLEAN,          \* the profile collects redfish, power.redfish has no endpoint
     targets : targetLists,  \* all_targets: nodes.ssh may repeat a target
     local : BOOLEAN, endpoint : BOOLEAN, servingLog : BOOLEAN, offline : BOOLEAN]

ASSUME PreflightAssumption ==
    /\ IsFiniteSet(Fields)
    /\ {Status, ShortName} \subseteq Fields
    /\ MaxWorkers \in Nat \ {0}
    /\ \A case \in Cases :
          /\ case \in CaseSpace(Seq(Nodes))
          /\ case.requires \cap case.recommends = {}

VARIABLES
    c,        \* the case
    pc,       \* "evaluate", "nodes", "leaving", "endpoint", "log", "done" or "raised"
    report,   \* the CheckReport
    future,   \* per position in all_targets: where its probe is
    got       \* how many statuses the calling thread has collected

vars == <<c, pc, report, future, got>>

-----------------------------------------------------------------------------
IsPlaceholder(v) == v \in {"starter", "long starter"}
IsFilled(v) == v \in {"answer", "refused"}
Placeholders(fields) == {f \in fields : IsPlaceholder(c.value[f])}
Filled(fields) == {f \in fields : IsFilled(c.value[f])}
Empty(fields) == {f \in fields : c.value[f] = "empty"}

\* normalize_training_status complains about everything but a legal status
\* and an empty one.
BadStatus == c.benchmark = "training" /\ c.value[Status] \notin {"empty", "answer"}
LongShortName == c.benchmark = "endpoints" /\ c.value[ShortName] \in {"refused", "long starter"}

\* Rejected variant: an answer the benchmark refuses still counts.
EveryAnswerCounts == Cardinality(Filled(c.requires))

Available == Len(c.targets) + (IF c.local THEN 1 ELSE 0)

\* Rejected variant: the benchmark's own rules are left to its checker.
MissingIsEmpty == Empty(c.requires)

MissingRequired ==
    Empty(c.requires)
    \cup {f \in {Status} : BadStatus}
    \cup {f \in {ShortName} : LongShortName}
    \cup {f \in {"nodes.groups"} : c.declared > Available}
    \cup {f \in {"power.redfish.endpoint"} : c.bmc}

\* Rejected variant: nothing keeps the count from going below zero.
SatisfiedUnclamped ==
    Cardinality(Filled(c.requires)) - (IF BadStatus \/ LongShortName THEN 1 ELSE 0)

\* Either complaint takes one satisfied field back, whichever it was.
SatisfiedCount ==
    Max({0, Cardinality(Filled(c.requires)) - (IF BadStatus \/ LongShortName THEN 1 ELSE 0)})

PlaceholderOther ==
    Placeholders(Fields) \ (Placeholders(c.requires) \cup Placeholders(c.recommends))

\* What the config alone says, before anything is reached.
Evaluated ==
    [missing |-> MissingRequired,
     placeholderRequired |-> Placeholders(c.requires),
     placeholderRecommended |-> Placeholders(c.recommends),
     placeholderOther |-> PlaceholderOther,
     missingRecommended |-> Empty(c.recommends),
     unresolved |-> c.env,
     satisfied |-> SatisfiedCount,
     networkChecked |-> ~c.offline,
     nodes |-> <<>>, endpoint |-> "unasked", servingLog |-> "unasked"]

NoReport ==
    [missing |-> {}, placeholderRequired |-> {}, placeholderRecommended |-> {},
     placeholderOther |-> {}, missingRecommended |-> {}, unresolved |-> FALSE,
     satisfied |-> 0, networkChecked |-> TRUE,
     nodes |-> <<>>, endpoint |-> "unasked", servingLog |-> "unasked"]

\* CheckReport's conclusions.
HasConfigProblems ==
    \/ report.missing # {}
    \/ report.placeholderRequired \cup report.placeholderRecommended
           \cup report.placeholderOther # {}
    \/ report.unresolved
Unreachable == {c.targets[i] : i \in {j \in DOMAIN report.nodes : ~report.nodes[j]}}
Ok == ~HasConfigProblems /\ Unreachable = {}

\* Rejected variant: a target is kept when any of its probes reached it.
KeptIfEverReached == {c.targets[i] : i \in {j \in DOMAIN report.nodes : report.nodes[j]}}

\* What capture() asks of the automation when it goes ahead.
Kept == {c.targets[i] : i \in DOMAIN c.targets} \ Unreachable

-----------------------------------------------------------------------------
Positions == DOMAIN c.targets
Pending == {i \in Positions : future[i] = "pending"}
Running == {i \in Positions : future[i] = "running"}

Init ==
    /\ c \in Cases
    /\ pc = "evaluate"
    /\ report = NoReport
    /\ future = [i \in DOMAIN c.targets |-> "pending"]
    /\ got = 0

Evaluate ==
    /\ pc = "evaluate"
    /\ report' = Evaluated
    /\ pc' = CASE c.offline -> "done"
               [] ~c.offline /\ c.targets # <<>> -> "nodes"
               [] OTHER -> "endpoint"
    /\ UNCHANGED <<c, future, got>>

\* A worker takes the next target; min(MaxWorkers, Len(c.targets)) workers.
Take ==
    /\ Pending # {}
    /\ Cardinality(Running) < MaxWorkers
    /\ pc \in {"nodes", "leaving"}
    /\ future' = [future EXCEPT ![Min(Pending)] = "running"]
    /\ UNCHANGED <<c, pc, report, got>>

\* check_node ends: the node answered, it did not, or the probe itself failed.
Answer(i) ==
    /\ future[i] = "running"
    /\ \E status \in {"up", "down", "raised"} : future' = [future EXCEPT ![i] = status]
    /\ UNCHANGED <<c, pc, report, got>>

\* Rejected variant: the check goes on once the first probe that ended is seen.
CollectAny ==
    /\ pc = "nodes"
    /\ \E i \in Positions : future[i] \in {"up", "down"}
    /\ got' = got + 1
    /\ report' = [report EXCEPT !.nodes = [i \in Positions |-> future[i] = "up"]]
    /\ pc' = "endpoint"
    /\ UNCHANGED <<c, future>>

\* The calling thread collects the next status, in the order of the targets.
Collect ==
    /\ pc = "nodes"
    /\ got < Len(c.targets)
    /\ future[got + 1] \in {"up", "down"}
    /\ got' = got + 1
    /\ IF got' = Len(c.targets)
         THEN /\ report' = [report EXCEPT !.nodes = [i \in Positions |-> future[i] = "up"]]
              /\ pc' = "endpoint"
         ELSE UNCHANGED <<report, pc>>
    /\ UNCHANGED <<c, future>>

\* Rejected variant: the thread waits for an answer and sees no exception.
AbandonNever == FALSE /\ UNCHANGED vars

\* The next status is an exception: what has not started is cancelled.
Abandon ==
    /\ pc = "nodes"
    /\ got < Len(c.targets)
    /\ future[got + 1] = "raised"
    /\ future' = [i \in Positions |-> IF i \in Pending THEN "cancelled" ELSE future[i]]
    /\ pc' = "leaving"
    /\ UNCHANGED <<c, report, got>>

\* Rejected variant: the exception leaves at once.
LeaveAtOnce ==
    /\ pc = "leaving"
    /\ pc' = "raised"
    /\ UNCHANGED <<c, report, future, got>>

\* Leaving the pool waits for the probes that are running.
Leave ==
    /\ pc = "leaving"
    /\ Running = {}
    /\ pc' = "raised"
    /\ UNCHANGED <<c, report, future, got>>

ProbeEndpoint ==
    /\ pc = "endpoint"
    /\ IF c.endpoint
         THEN \/ /\ \E answer \in {"ok", "no"} : report' = [report EXCEPT !.endpoint = answer]
                 /\ pc' = "log"
              \/ /\ pc' = "raised"
                 /\ UNCHANGED report
         ELSE /\ pc' = "log"
              /\ UNCHANGED report
    /\ UNCHANGED <<c, future, got>>

CheckServingLog ==
    /\ pc = "log"
    /\ IF c.servingLog
         THEN \/ /\ \E answer \in {"ok", "no"} : report' = [report EXCEPT !.servingLog = answer]
                 /\ pc' = "done"
              \/ /\ pc' = "raised"
                 /\ UNCHANGED report
         ELSE /\ pc' = "done"
              /\ UNCHANGED report
    /\ UNCHANGED <<c, future, got>>

Main == Evaluate \/ Collect \/ Abandon \/ Leave \/ ProbeEndpoint \/ CheckServingLog
Next == Main \/ Take \/ \E i \in Positions : Answer(i)

Spec == Init /\ [][Next]_vars

\* The calling thread and the workers are scheduled, and a probe ends: ssh and
\* the HTTP requests all carry a timeout.
FairSpec ==
    /\ Spec
    /\ WF_vars(Main)
    /\ WF_vars(Take)
    /\ \A i \in UNION {DOMAIN case.targets : case \in Cases} :
          WF_vars(i \in Positions /\ Answer(i))

-----------------------------------------------------------------------------
(***************************************************************************)
(* What the check promises.                                                *)
(***************************************************************************)
FutureStates == {"pending", "running", "up", "down", "raised", "cancelled"}

\* Every variable has its type; a report lists no status or one per target.
TypeOK ==
    /\ c \in Cases
    /\ pc \in {"evaluate", "nodes", "leaving", "endpoint", "log", "done", "raised"}
    /\ future \in [Positions -> FutureStates]
    /\ got \in 0..Len(c.targets)
    /\ DOMAIN report = DOMAIN NoReport
    /\ report.missing \subseteq Fields \cup {"nodes.groups", "power.redfish.endpoint"}
    /\ report.placeholderRequired \cup report.placeholderRecommended
           \cup report.placeholderOther \cup report.missingRecommended \subseteq Fields
    /\ report.satisfied \in 0..Cardinality(c.requires)
    /\ \A i \in DOMAIN report.nodes : report.nodes[i] \in BOOLEAN
    /\ DOMAIN report.nodes \in {{}, Positions}

\* A required field is ready when it is answered and, where the benchmark has a
\* rule for it, answered with something the rule accepts.
Ready(f) ==
    /\ IsFilled(c.value[f])
    /\ ~(f = Status /\ BadStatus)
    /\ ~(f = ShortName /\ LongShortName)

\* The count of required fields set never exceeds those really ready, whether
\* or not the refused field is one the profile requires (preflight.py:316-336).
NeverOverstated ==
    pc # "evaluate" => report.satisfied <= Cardinality({f \in c.requires : Ready(f)})

\* A check that passes vouches for the whole config: no starter text in any
\* field, named by the profile or not, every required field ready, and every
\* node it lists answered its probe (unless the check was offline).
OkMeansReady ==
    pc = "done" /\ Ok =>
        /\ Placeholders(Fields) = {}
        /\ \A f \in c.requires : Ready(f)
        /\ c.declared <= Available
        /\ ~c.env /\ ~c.bmc
        /\ c.offline \/ \A i \in Positions : future[i] = "up"

\* However the probes overlap and whichever ends first, a status in the report
\* is that of the target it stands beside, and no target is left out of it.
StatusesMatch ==
    pc \in {"endpoint", "log", "done"} /\ ~c.offline =>
        /\ DOMAIN report.nodes = Positions
        /\ \A i \in Positions :
              /\ future[i] \in {"up", "down"}
              /\ report.nodes[i] <=> future[i] = "up"

\* A target listed twice is probed twice and the probes may disagree; capture()
\* asks the automation about it only when both reached it (collector.py:346).
KeptAnswered ==
    pc = "done" /\ ~c.offline =>
        \A i \in Positions : c.targets[i] \in Kept => future[i] = "up"

\* No probe outlives the check, even when another one raised.
NoProbeOutlives == pc \in {"endpoint", "log", "done", "raised"} => Running = {}

\* The check always comes to an end.
CheckEnds == <>(pc \in {"done", "raised"})
=============================================================================
