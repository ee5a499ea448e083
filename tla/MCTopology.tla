----------------------------- MODULE MCTopology -----------------------------
(* Every registry over Name, every DependsOn list of at most MaxDeps names. *)
EXTENDS Topology

CONSTANT MaxDeps

DepLists == UNION { [1..k -> Name] : k \in 0..MaxDeps }

MCInit ==
  /\ registered \in SUBSET Name
  /\ deps \in [Name -> DepLists]
  /\ \A n \in Name \ registered : deps[n] = <<>>
  /\ visited = [n \in Name |-> 0]
  /\ stack = <<>>
  /\ order = <<>>
  /\ orderedMods = <<>>
  /\ result = "running"

MCSpec == MCInit /\ [][Next]_vars /\ WF_vars(Next)
=============================================================================
