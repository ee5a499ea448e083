------------------------------ MODULE Announce -------------------------------
(***************************************************************************)
(* A server (service/http/http.go) that announces itself through the mqtt  *)
(* discovery module of its process, Host, to the other processes.  Start   *)
(* of the server registers the service before it listens, whether or not   *)
(* discovery is connected; the hook stops the server first, as it depends  *)
(* on discovery, and both Stops may overlap both Starts (module App).      *)
(* net/http is external: a server that has been shut down does not listen, *)
(* and returns ErrServerClosed.                                            *)
(***************************************************************************)
EXTENDS MqttDiscovery

CONSTANT Host

ASSUME HostAssumption == Host \in Publisher

VARIABLES
  announces,            \* does Init find an address to announce in the configuration?
  srv,                  \* Start: "idle", "made", "announced", "listening", "ended" or "panicked"
  hook                  \* "idle", "stopped" (the server was), "unmade" (there was none)

srvVars == <<announces, srv, hook>>
allVars == <<vars, srvVars>>

AnnounceInit ==
  /\ Init
  /\ announces \in BOOLEAN
  /\ srv = "idle"
  /\ hook = "idle"

-----------------------------------------------------------------------------
(* The server *)

\* Start makes the server: from here on Stop has one to shut down.
Make ==
  /\ srv = "idle"
  /\ srv' = "made"
  /\ UNCHANGED <<vars, announces, hook>>

\* (variant: the service is registered only once discovery is connected)
RegisterIfConnected ==
  /\ srv = "made"
  /\ IF announces /\ cli[Host] THEN Register(Host) ELSE UNCHANGED vars
  /\ srv' = "announced"
  /\ UNCHANGED <<announces, hook>>

\* reg: the discovery module is in the registry, having been launched before
\* (module App: DependencyServed).  If it has been stopped, localRegs is nil.
RegisterService ==
  /\ srv = "made"
  /\ IF announces /\ caches[Host] THEN Register(Host) ELSE UNCHANGED vars
  /\ srv' = IF announces /\ ~caches[Host] THEN "panicked" ELSE "announced"
  /\ UNCHANGED <<announces, hook>>

\* The port is bound, or Start returns an error, with the service announced.
Listen ==
  /\ srv = "announced"
  /\ srv' \in IF hook = "stopped" THEN {"ended"} ELSE {"listening", "ended"}
  /\ UNCHANGED <<vars, announces, hook>>

\* The hook calls the server's Stop, which returns at once if there is none, or
\* shuts it down.  The context is done: it waits for no request.
StopServer ==
  /\ hook = "idle"
  /\ hook' = IF srv = "idle" THEN "unmade" ELSE "stopped"
  /\ srv' = IF srv = "listening" THEN "ended" ELSE srv
  /\ UNCHANGED <<vars, announces>>

\* BOUND: one process is being ended, the other goes on.
OthersGoOn(n) == \A o \in Node \ {n} : stop[o] = "idle" /\ ~ctxDone[o]

\* ... and then that of discovery.  Elsewhere, discovery is stopped at will.
StopDiscovery(n) ==
  /\ n = Host => hook \in {"stopped", "unmade"}
  /\ BeginStop(n)
  /\ UNCHANGED srvVars

Server == Make \/ RegisterService \/ Listen

AnnounceNext ==
  \/ \E n \in Node : /\ Up(n)
                     /\ \/ ModuleStep(n) /\ UNCHANGED srvVars
                        \/ OthersGoOn(n) /\ Cancel(n) /\ UNCHANGED srvVars
                        \/ OthersGoOn(n) /\ StopDiscovery(n)
  \/ Tick /\ UNCHANGED srvVars
  \/ Up(Host) /\ (Server \/ StopServer)

AnnounceSpec ==
  /\ AnnounceInit
  /\ [][AnnounceNext]_allVars
  /\ ModuleFairness /\ Lossy

-----------------------------------------------------------------------------
TypesOK ==
  /\ TypeOK
  /\ announces \in BOOLEAN
  /\ srv \in {"idle", "made", "announced", "listening", "ended", "panicked"}
  /\ hook \in {"idle", "unmade", "stopped"}

\* A service whose process has stopped announcing it, or is gone, is forgotten
\* everywhere: nothing ever withdraws it, so only expiry and the end of its
\* messages can see to it (mqtt.go:87, :182).
GoneIsForgotten ==
  \A n \in Watcher : loop[Host] = "gone" \/ ~Up(Host) ~> ~Found(n, Host)

\* A server that listens, and that is configured to be announced, is found by
\* every process, however late discovery connects on either side and although
\* messages are lost, unless one of the two processes stops (http.go:136).
ServedIsFound ==
  \A n \in Watcher :
    srv = "listening" /\ announces /\ Running(Host) /\ Running(n)
      ~> Found(n, Host) \/ ~Running(Host) \/ ~Running(n)
=============================================================================
