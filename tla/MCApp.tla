------------------------------- MODULE MCApp --------------------------------
(* A connector, a discovery module that uses it, and a server that announces *)
(* itself through the latter: the shape of a configuration with a database   *)
(* or broker, a discovery module and service/http.  Programs that leave one  *)
(* of them unregistered are covered too.                                     *)
EXTENDS App

CONSTANTS conn, disco, server

MCName == {conn, disco, server}

MCDependsOn == [n \in MCName |-> CASE n = conn   -> {}
                                   [] n = disco  -> {conn}
                                   [] n = server -> {disco}]

MCServers == {server}
=============================================================================
