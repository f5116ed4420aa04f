------------------------------ MODULE MCCapture ------------------------------
(***************************************************************************)
(* Instances of Capture for TLC. Two SSH nodes and the local machine are   *)
(* the smallest system in which one node can be dropped by the check,      *)
(* another fall silent afterwards, and the local machine still answer.     *)
(***************************************************************************)
EXTENDS Capture

CONSTANTS n1, n2

\* Every config over the two nodes.
EveryConfig == {c \in ConfigSpace : Admissible(c)}

\* The configs that are captured in a row: a mixed system, a remote one with its server, and
\* a local one with power capture, each with and without --allow-partial.
RetriedConfigs ==
    [targets : {{n1}}, local : {TRUE}, serving : {NoNode}, accel : {TRUE},
     redfish : {FALSE}, groups : {FALSE}, allow : BOOLEAN]
    \cup
    [targets : {{n1, n2}}, local : {FALSE}, serving : {n1}, accel : {FALSE},
     redfish : {FALSE}, groups : {TRUE}, allow : BOOLEAN]
    \cup
    [targets : {{}}, local : {TRUE}, serving : {NoNode}, accel : {FALSE},
     redfish : {TRUE}, groups : {FALSE}, allow : {FALSE}]

\* Bound: the second capture of a session, and the first before it, under those.
InRow == run' = 2 => {cfg, cfg'} \subseteq RetriedConfigs
MCSpec == Init /\ [][Next /\ InRow]_vars /\ WF_vars(Code)
=============================================================================
