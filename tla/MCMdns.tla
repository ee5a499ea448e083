------------------------------- MODULE MCMdns -------------------------------
(* Instances, and callers of Find, are interchangeable. *)
EXTENDS MdnsDiscovery, TLC

Symmetry == Permutations(Instance) \cup Permutations(Finder)
=============================================================================
