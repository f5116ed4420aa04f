----------------------------- MODULE MCPreflight -----------------------------
\* Small instances of Preflight.
EXTENDS Preflight

CONSTANTS status, short, other, n1, n2

\* Every config of three fields against every profile of them, with at most one
\* problem besides, checked offline: what the fields alone decide.
OfflineCases ==
    {[value |-> v, requires |-> req, recommends |-> rec, benchmark |-> b,
      env |-> x = "env", declared |-> IF x = "groups" THEN 2 ELSE 1, bmc |-> x = "bmc",
      targets |-> <<n1>>, local |-> FALSE,
      endpoint |-> TRUE, servingLog |-> TRUE, offline |-> TRUE] :
        v \in {w \in [{status, short, other} -> Values] :
                  w[other] \in {"empty", "answer", "starter"}},
        req \in SUBSET {status, short, other}, rec \in SUBSET {other},
        b \in {"training", "endpoints", "other"}, x \in {"none", "env", "groups", "bmc"}}
FieldCases == {case \in OfflineCases : case.requires \cap case.recommends = {}}

\* A config that is ready, with its nodes listed in every way up to four
\* targets, repeats included.
NodeCases ==
    {[value |-> [f \in {status, short, other} |-> "answer"],
      requires |-> {status, short}, recommends |-> {other}, benchmark |-> "endpoints",
      env |-> e, declared |-> 1, bmc |-> e, targets |-> ts, local |-> TRUE,
      endpoint |-> ep, servingLog |-> ep, offline |-> FALSE] :
        e \in BOOLEAN, ep \in BOOLEAN,
        ts \in UNION {[1..n -> {n1, n2}] : n \in 0..4}}
CheckCases == FieldCases \cup NodeCases
=============================================================================
