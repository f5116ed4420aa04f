----------------------------- MODULE Publication -----------------------------
(***************************************************************************)
(* What capture promises whoever reads the output directory, with nothing  *)
(* of how it is done: one file, replaced only by a description of the      *)
(* system somebody asked for, truthfully stamped, and an answer that       *)
(* matches the file. A run may give up at any time; only one that had      *)
(* already begun to replace the file can leave it torn.                    *)
(***************************************************************************)
CONSTANTS
    Machines,     \* every machine there is
    Orders,       \* what may be asked for: [wants, accel, allow]
    NoFile, Torn  \* a file that is not there; one truncated but not filled

VARIABLES
    phase,   \* "idle", "asked", "replacing", "replaced" or "unwinding"
    order,   \* what the current run was asked for
    file,    \* NoFile, Torn, or a description
    answer   \* what the last run to end told its caller; "nothing" meanwhile

pubVars == <<phase, order, file, answer>>

\* The descriptions that may be published for an order: of some of the wanted
\* machines, stamped complete exactly when they are all there, partial only
\* with consent, complete only if a declared accelerator was seen.
Descriptions(o) ==
    {d \in [machines : SUBSET o.wants, accel : BOOLEAN, complete : BOOLEAN] :
        /\ d.machines # {}
        /\ d.complete <=> d.machines = o.wants
        /\ d.complete \/ o.allow
        /\ d.complete /\ o.accel => d.accel}

PubInit ==
    /\ phase = "idle"
    /\ order \in Orders
    /\ file = NoFile
    /\ answer = "nothing"

Ask(o) ==
    /\ phase = "idle"
    /\ phase' = "asked"
    /\ order' = o
    /\ answer' = "nothing"
    /\ UNCHANGED file

Open ==
    /\ phase = "asked"
    /\ phase' = "replacing"
    /\ file' = Torn
    /\ UNCHANGED <<order, answer>>

Publish(d) ==
    /\ phase = "replacing"
    /\ phase' = "replaced"
    /\ file' = d
    /\ UNCHANGED <<order, answer>>

Succeed ==
    /\ phase = "replaced"
    /\ phase' = "idle"
    /\ answer' = IF file.complete THEN "complete" ELSE "partial"
    /\ UNCHANGED <<order, file>>

Unwind ==
    /\ phase # "idle"
    /\ phase' = "unwinding"
    /\ UNCHANGED <<order, file, answer>>

GiveUp(why) ==
    /\ phase # "idle"
    /\ phase' = "idle"
    /\ answer' = why
    /\ UNCHANGED <<order, file>>

PubNext ==
    \/ \E o \in Orders : Ask(o)
    \/ Open
    \/ \E d \in Descriptions(order) : Publish(d)
    \/ Succeed
    \/ Unwind
    \/ \E why \in {"refused", "failed", "killed"} : GiveUp(why)

PubSpec == PubInit /\ [][PubNext]_pubVars
=============================================================================
