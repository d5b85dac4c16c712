---------------------------- MODULE MCInventoryBuild ----------------------------
(* InventoryBuild for TLC: values too long for MCInventoryBuild.cfg.         *)
EXTENDS InventoryBuild

Said(s) == [status |-> s, updateFailed |-> FALSE]
On(clusters, p, e) == [attached |-> clusters, provisioned |-> p, error |-> e]
MCMaySay == [c1 |-> {Said("active"), Said("")}, c2 |-> {Said("off")}, c3 |-> {Said("active")}, p |-> {"up"}, b |-> {"up"},
             l |-> {On({"c1"}, TRUE, FALSE), On({"c1", "c2", "c3"}, FALSE, FALSE), On({"c2"}, TRUE, TRUE)}]
MCSiteOrder == <<"lab", "cloud">>
NoRule == [names |-> {}, types |-> {}]
MCRules == [lab |-> NoRule, cloud |-> [NoRule EXCEPT !.types = {"aws"}]]
MCAttribute == [i \in Cluster \cup Shared \cup Bucket |-> [names |-> {i}, types |-> IF i = "c2" THEN {"aws"} ELSE {"lab"}]]
=============================================================================
