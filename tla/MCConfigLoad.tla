---------------------------- MODULE MCConfigLoad ----------------------------
\* Small instances of ConfigLoad.
EXTENDS ConfigLoad

CONSTANTS f1, f2, f3, f4

Entries(keys, kinds) == UNION {[ks -> kinds] : ks \in SUBSET keys}
Only(s, entries) == {<< >>} \cup {[x \in {s} |-> e] : e \in {Null} \cup entries}

Plain(sections, parent) ==
    [status |-> "ok", extends |-> parent, embedded |-> FALSE, report_dir |-> Null,
     sections |-> sections]

\* Every way four files may extend each other, cycles included, with at most
\* one of them unreadable.
Topologies ==
    {[f \in Files |->
         [Plain([s \in {"run"} |-> [k \in {"link_config"} |-> "plain"]], parent[f])
             EXCEPT !.status = IF f = bad THEN how ELSE "ok"]] :
        parent \in [Files -> Files \cup {Null}], bad \in Files \cup {Null},
        how \in {"missing", "invalid"}}

\* f1 extends f2 extends f3, each saying anything at all in one section.
Parents == [f \in Files |-> CASE f = f1 -> f2 [] f = f2 -> f3 [] OTHER -> Null]
Chains(bodies) ==
    {[f \in Files |-> Plain(IF f = f4 THEN << >> ELSE b[f], Parents[f])] :
        b \in [{f1, f2, f3} -> bodies]}

Runs == Only("run", Entries({"link_config"}, {"null", "plain", "unset"}) \cup
                    Entries({"link_config", "config_summary_notes"}, {"plain"}))
SshLists == Only("nodes", Entries({"ssh"}, {"null", "plain", "set", "unset"}))

\* The same chain of embedded sections and plain documents, with and without
\* a report_dir around them, with a value or none.
Outputs == Only("output", Entries({"dir"}, {"null", "plain"}))
Hosts ==
    {<<Null, FALSE>>} \cup {Null, "null", "empty", "plain", "unset"} \X {TRUE}
Embedded ==
    {[f \in Files |->
         [Plain(IF f \in {f1, f2} THEN b[f][1] ELSE << >>, Parents[f])
             EXCEPT !.report_dir = IF f \in {f1, f2} THEN b[f][2][1] ELSE "plain",
                    !.embedded = IF f \in {f1, f2} THEN b[f][2][2] ELSE TRUE]] :
        b \in [{f1, f2} -> Outputs \X Hosts]}

LoadCases ==
    Topologies \cup Chains(Runs) \cup Chains(SshLists) \cup Embedded
=============================================================================
