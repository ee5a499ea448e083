----------------------------- MODULE MCLifecycle -----------------------------
(* The modules of MCApp, with what each of them returns from DependsOn.      *)
EXTENDS MCApp, Lifecycle

MCDepList == [n \in MCName |-> CASE n = conn   -> <<>>
                                 [] n = disco  -> <<conn>>
                                 [] n = server -> <<disco>>]
=============================================================================
