------------------------------- MODULE Address -------------------------------
(***************************************************************************)
(* What becomes of a service's address between its configuration and its   *)
(* announcement: Init of the servers (service/http/http.go:81-92, and the  *)
(* same in tcp) and EnsureData (discovery/module.go:56).                   *)
(*                                                                         *)
(* An address is a host with or without a port.  A host is a name, an      *)
(* IPv4 or an IPv6 address, of which only the latter may be in brackets,   *)
(* or nothing, before a port.  The port is missing, empty (a colon and     *)
(* nothing after it), "0", some number, or that of the listener.  A string *)
(* that is not of this shape is Malformed, but package net takes it for an *)
(* address with that port all the same.                                    *)
(***************************************************************************)
EXTENDS Naturals

Hosts == {"nothing", "name", "ip4", "ip6", "[ip6]"}
Ports == {"missing", "empty", "0", "given", "local"}

Addresses == [host : Hosts, port : Ports]
Malformed == [host |-> "malformed", port |-> "local"]

\* package net.  A bare IPv6 address can have no port: it is full of colons.
HasColon(host) == host \in {"ip6", "[ip6]"}
IsIP(host) == host \in {"ip4", "ip6"}
Written ==
  { a \in Addresses : /\ a.host = "ip6" => a.port = "missing"
                      /\ a.host = "nothing" => a.port # "missing" }
SplitHostPort(a) == a.port # "missing"
ParseIP(a) == IsIP(a.host) /\ a.port = "missing"

\* Puts a host with a colon in brackets, whatever it is.
JoinHostPort(host) ==
  CASE host \in {"nothing", "name", "ip4"} -> [host |-> host, port |-> "local"]
    [] host = "ip6" -> [host |-> "[ip6]", port |-> "local"]
    [] OTHER -> Malformed

\* TrimSuffix(address, ":") leaves the host of an address with an empty port,
\* and the whole of one with the port 0.
Trimmed(a) == IF a.port = "empty" THEN a.host ELSE "host:0"

\* Does Init of a server announce the address (depend on discovery)?
Announced(a) == SplitHostPort(a) \/ ParseIP(a)

Configured(a) == IF ParseIP(a) THEN JoinHostPort(a.host) ELSE a

EnsureData(a) ==
  IF ~SplitHostPort(a) THEN IF ParseIP(a) THEN JoinHostPort(a.host) ELSE a
  ELSE IF a.port \in {"empty", "0"} THEN JoinHostPort(Trimmed(a))
  ELSE a

\* (By another process: without a host, it would dial itself.)
Dialable(a) == a # Malformed /\ a.host # "nothing" /\ a.port \in {"given", "local"}

-----------------------------------------------------------------------------
\* Exactly these of the addresses that a server announces reach the other
\* processes in a form that cannot be dialled: those without a host (http.go:82
\* takes them for addresses to announce), those with the port 0, which is not
\* removed before the real one is appended, and bracketed IPv6 addresses with an
\* empty port, which get a second pair of brackets (module.go:80).
AnnouncedDialable ==
  \A a \in Written :
    Announced(a) =>
      (Dialable(EnsureData(Configured(a))) <=>
         a.host # "nothing" /\ a.port # "0" /\ a # [host |-> "[ip6]", port |-> "empty"])

\* A service that is registered again, by the same pointer, keeps its address.
EnsureDataIdempotent ==
  \A a \in Written : EnsureData(EnsureData(a)) = EnsureData(a)
=============================================================================
