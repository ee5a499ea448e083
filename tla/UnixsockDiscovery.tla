-------------------------- MODULE UnixsockDiscovery --------------------------
(***************************************************************************)
(* discovery/unixsock/unixsock.go: the first process to bind the group's   *)
(* address serves the others.  Every process, the serving one among them,  *)
(* has a client socket, on which it sends the services it has registered   *)
(* every Period and receives all that the server knows.  Ticks and expiry  *)
(* of cache entries are steps that may happen at any time, as are the end  *)
(* of a process and, since the hook runs beside Run, the Stop of a module  *)
(* whose Start is still going on.                                          *)
(*                                                                         *)
(* The sockets are external (package net): a datagram socket that has been *)
(* connected refuses to write to an explicit address (ErrWriteToConnected),*)
(* a method of a nil connection panics, and the address of a process that  *)
(* ends, or closes its server socket, is free again.                       *)
(***************************************************************************)
EXTENDS Naturals, FiniteSets

CONSTANTS
  Process,
  None                  \* no process

VARIABLES
  alive,                \* the process has not ended
  server,               \* the process whose server socket is bound, or None
  serverConn,           \* "nil", "open" or "closed"
  clientConn,           \* "nil", "connected" or "closed"
  start,                \* "idle", "dial", "launch", "ok" or "failed"
  loop,                 \* clientRegisterLoop: "off", "send", "select" or "gone"
  ctxDone,              \* is runCtx done?
  stop,                 \* "idle", "early", "wait", "ok" or "panicked"
  registered,           \* does localRegs hold the process's service?
  inbox,                \* packets for the server: <<sender, services>>
  replies,              \* replies[p]: service lists on their way to p
  servCache,            \* servCache[p]: the services that p, as server, knows
  infoCache             \* infoCache[p]: what Find returns on p

conns == <<server, serverConn, clientConn>>
caches == <<servCache, infoCache>>
vars == <<alive, conns, start, loop, ctxDone, stop, registered, inbox, replies, caches>>

Init ==
  /\ alive = [p \in Process |-> TRUE]
  /\ server = None
  /\ serverConn = [p \in Process |-> "nil"]
  /\ clientConn = [p \in Process |-> "nil"]
  /\ start = [p \in Process |-> "idle"]
  /\ loop = [p \in Process |-> "off"]
  /\ ctxDone = [p \in Process |-> FALSE]
  /\ stop = [p \in Process |-> "idle"]
  /\ registered = [p \in Process |-> FALSE]
  /\ inbox = {}
  /\ replies = [p \in Process |-> {}]
  /\ servCache = [p \in Process |-> {}]
  /\ infoCache = [p \in Process |-> {}]

-----------------------------------------------------------------------------
\* The group's address is bound, or in use; any other error ends Start.
Listen(p) ==
  /\ alive[p] /\ start[p] = "idle"
  /\ \/ /\ server = None
        /\ server' = p
        /\ serverConn' = [serverConn EXCEPT ![p] = "open"]
        /\ start' = [start EXCEPT ![p] = "dial"]
     \/ /\ server # None
        /\ start' = [start EXCEPT ![p] = "dial"]
        /\ UNCHANGED <<server, serverConn>>
     \/ start' = [start EXCEPT ![p] = "failed"] /\ UNCHANGED <<server, serverConn>>
  /\ UNCHANGED <<alive, clientConn, loop, ctxDone, stop, registered, inbox, replies, caches>>

\* The client socket is connected to the server's; or nobody is bound there, or
\* the dial fails, and the server socket is closed.
Dial(p) ==
  /\ alive[p] /\ start[p] = "dial"
  /\ \/ /\ server # None
        /\ clientConn' = [clientConn EXCEPT ![p] = "connected"]
        /\ start' = [start EXCEPT ![p] = "launch"]
        /\ UNCHANGED <<server, serverConn>>
     \/ /\ start' = [start EXCEPT ![p] = "failed"]
        /\ serverConn' = [serverConn EXCEPT ![p] = "nil"]
        /\ server' = IF server = p THEN None ELSE server
        /\ UNCHANGED clientConn
  /\ UNCHANGED <<alive, loop, ctxDone, stop, registered, inbox, replies, caches>>

\* The loops are started.  If a Stop has been through since the dial, the read
\* loop's call on a nil connection ends the process: nothing recovers there.
Launch(p) ==
  /\ alive[p] /\ start[p] = "launch"
  /\ IF clientConn[p] = "nil"
       THEN alive' = [alive EXCEPT ![p] = FALSE] /\ UNCHANGED <<start, loop>>
       ELSE /\ start' = [start EXCEPT ![p] = "ok"]
            /\ loop' = [loop EXCEPT ![p] = "send"]
            /\ UNCHANGED alive
  /\ UNCHANGED <<conns, ctxDone, stop, registered, inbox, replies, caches>>

Register(p) ==
  /\ alive[p] /\ stop[p] # "ok"
  /\ registered' = [registered EXCEPT ![p] = TRUE]
  /\ UNCHANGED <<alive, conns, start, loop, ctxDone, stop, inbox, replies, caches>>

\* A method call on a nil connection panics (the hook recovers) before the
\* loops are waited for: so ends every Stop that comes before the dial, with
\* nothing closed, and every other one of a process that is not the server.
Stop(p) ==
  /\ alive[p] /\ stop[p] = "idle"
  /\ ctxDone' = [ctxDone EXCEPT ![p] = @ \/ start[p] # "idle"]
  /\ clientConn' = [clientConn EXCEPT ![p] = IF @ = "nil" THEN @ ELSE "closed"]
  /\ \/ /\ clientConn[p] = "nil"
        /\ stop' = [stop EXCEPT ![p] = "early"]
        /\ UNCHANGED <<server, serverConn>>
     \/ /\ clientConn[p] # "nil" /\ serverConn[p] = "nil"
        /\ stop' = [stop EXCEPT ![p] = "panicked"]
        /\ UNCHANGED <<server, serverConn>>
     \/ /\ clientConn[p] # "nil" /\ serverConn[p] # "nil"
        /\ stop' = [stop EXCEPT ![p] = "wait"]
        /\ serverConn' = [serverConn EXCEPT ![p] = "closed"]
        /\ server' = None
  /\ UNCHANGED <<alive, start, loop, registered, inbox, replies, caches>>

Stopped(p) ==
  /\ alive[p] /\ stop[p] = "wait" /\ loop[p] \in {"off", "gone"}
  /\ stop' = [stop EXCEPT ![p] = "ok"]
  /\ clientConn' = [clientConn EXCEPT ![p] = "nil"]
  /\ serverConn' = [serverConn EXCEPT ![p] = "nil"]
  /\ registered' = [registered EXCEPT ![p] = FALSE]
  /\ servCache' = [servCache EXCEPT ![p] = {}]
  /\ infoCache' = [infoCache EXCEPT ![p] = {}]
  /\ UNCHANGED <<alive, server, start, loop, ctxDone, inbox, replies>>

\* The context that Start was given is done, as it may be from the beginning.
ContextEnds(p) ==
  /\ alive[p] /\ start[p] # "idle"
  /\ ctxDone' = [ctxDone EXCEPT ![p] = TRUE]
  /\ UNCHANGED <<alive, conns, start, loop, stop, registered, inbox, replies, caches>>

\* The process ends, and the system closes its sockets.  So may end one whose
\* dial has failed: serverLoop goes on with a connection that is nil (unixsock.go:113).
EndProcess(p) ==
  /\ alive[p]
  /\ alive' = [alive EXCEPT ![p] = FALSE]
  /\ server' = IF server = p THEN None ELSE server
  /\ serverConn' = [serverConn EXCEPT ![p] = "closed"]
  /\ clientConn' = [clientConn EXCEPT ![p] = "closed"]
  /\ UNCHANGED <<start, loop, ctxDone, stop, registered, inbox, replies, caches>>

-----------------------------------------------------------------------------
\* clientRegisterLoop: once at its start and then at every tick.
Tick(p) ==
  /\ alive[p] /\ loop[p] = "select"
  /\ loop' = [loop EXCEPT ![p] = "send"]
  /\ UNCHANGED <<alive, conns, start, ctxDone, stop, registered, inbox, replies, caches>>

Leave(p) ==
  /\ alive[p] /\ loop[p] = "select" /\ ctxDone[p]
  /\ loop' = [loop EXCEPT ![p] = "gone"]
  /\ UNCHANGED <<alive, conns, start, ctxDone, stop, registered, inbox, replies, caches>>

\* Package net: does WriteToUnix of this socket reach the server?
WriteToUnixSucceeds(conn) == conn = "unconnected" /\ server # None

\* The packet lists the services of localRegs; an error is only logged.
sendRegisterPacket(p) ==
  /\ alive[p] /\ loop[p] = "send"
  /\ loop' = [loop EXCEPT ![p] = "select"]
  /\ inbox' = IF WriteToUnixSucceeds(clientConn[p])
                THEN inbox \cup {<<p, IF registered[p] THEN {p} ELSE {}>>} ELSE inbox
  /\ UNCHANGED <<alive, conns, start, ctxDone, stop, registered, replies, caches>>

\* serverLoop: the services of a packet are stored, and all live ones returned
\* to the sender.
ServerReceive(p, q) ==
  /\ serverConn[p] = "open"
  /\ \E packet \in { k \in inbox : k[1] = q } :
       /\ inbox' = inbox \ {packet}
       /\ servCache' = [servCache EXCEPT ![p] = @ \cup packet[2]]
       /\ replies' = [replies EXCEPT ![q] = @ \cup {servCache'[p]}]
  /\ UNCHANGED <<alive, conns, start, loop, ctxDone, stop, registered, infoCache>>

\* clientReadLoop
ClientReceive(p, active) ==
  /\ clientConn[p] = "connected"
  /\ active \in replies[p]
  /\ replies' = [replies EXCEPT ![p] = @ \ {active}]
  /\ infoCache' = [infoCache EXCEPT ![p] = @ \cup active]
  /\ UNCHANGED <<alive, conns, start, loop, ctxDone, stop, registered, inbox, servCache>>

Running(p) == alive[p] /\ start[p] = "ok" /\ ~ctxDone[p]

\* BOUND: a service that is sent every Period does not expire.
Expire(p) ==
  /\ \E i \in Process :
       /\ ~Running(i)
       /\ \/ servCache' = [servCache EXCEPT ![p] = @ \ {i}] /\ UNCHANGED infoCache
          \/ infoCache' = [infoCache EXCEPT ![p] = @ \ {i}] /\ UNCHANGED servCache
  /\ UNCHANGED <<alive, conns, start, loop, ctxDone, stop, registered, inbox, replies>>

-----------------------------------------------------------------------------
Loops(p) ==
  \/ sendRegisterPacket(p) \/ Tick(p) \/ Leave(p)
  \/ \E q \in Process : ServerReceive(p, q)
  \/ \E active \in SUBSET Process : ClientReceive(p, active)

Next ==
  \E p \in Process : \/ Listen(p) \/ Dial(p) \/ Launch(p)
                     \/ Register(p)
                     \/ Stop(p) \/ Stopped(p)
                     \/ Loops(p)
                     \/ Expire(p)
                     \/ ContextEnds(p) \/ EndProcess(p)

Spec == Init /\ [][Next]_vars

\* The loops are scheduled, their ticker fires, and what arrives is read, in
\* whatever order.
FairSpec ==
  /\ Spec
  /\ \A p \in Process : /\ WF_vars(sendRegisterPacket(p))
                        /\ WF_vars(Tick(p))
                        /\ \A q \in Process : SF_vars(ServerReceive(p, q))
                        /\ \A active \in SUBSET Process : SF_vars(ClientReceive(p, active))

-----------------------------------------------------------------------------
\* While the server and the two processes concerned go on, a service that one of
\* them registers is found by the other: discovery over unixsock works at all.
RegisteredIsFound ==
  \A p, q \in Process :
    p # q /\ registered[p] /\ Running(p) /\ Running(q) ~>
      p \in infoCache[q] \/ ~Running(p) \/ ~Running(q) \/ server = None
=============================================================================
