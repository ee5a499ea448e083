----------------------- MODULE UnixsockDiscovery_proofs -----------------------
(***************************************************************************)
(* unixsock discovery for any number of processes, which start, stop and   *)
(* end at any time: what the group's address guarantees, and that nothing  *)
(* is ever found.                                                          *)
(***************************************************************************)
EXTENDS UnixsockDiscovery, TLAPS

\* None stands for no process.
NoneIsNoProcess == None \notin Process

-----------------------------------------------------------------------------
(* The properties *)

\* No process ever finds a service, nor learns of one as the server: RegisteredIsFound
\* fails of every service, not only in an unlucky behaviour (unixsock.go:260).
NothingFound == \A p \in Process : infoCache[p] = {} /\ servCache[p] = {}

\* Two processes never serve at once (unixsock.go:97).
OneServer ==
  \A p, q \in Process : serverConn[p] = "open" /\ serverConn[q] = "open" => p = q

\* A Stop leaves no socket open, even if it panics, unless it came before the
\* dial (unixsock.go:136).
StopCloses ==
  \A p \in Process :
    stop[p] \in {"wait", "ok", "panicked"} =>
      serverConn[p] # "open" /\ clientConn[p] # "connected"

-----------------------------------------------------------------------------
(* The inductive invariant *)

TypeInv ==
  /\ alive \in [Process -> BOOLEAN]
  /\ serverConn \in [Process -> {"nil", "open", "closed"}]
  /\ clientConn \in [Process -> {"nil", "connected", "closed"}]
  /\ start \in [Process -> {"idle", "dial", "launch", "ok", "failed"}]
  /\ stop \in [Process -> {"idle", "early", "wait", "ok", "panicked"}]

\* No packet is ever sent, so nobody knows anything.
Silent ==
  /\ inbox = {}
  /\ replies = [p \in Process |-> {}]
  /\ servCache = [p \in Process |-> {}]
  /\ infoCache = [p \in Process |-> {}]

\* The address is bound exactly by the socket that is open.
Bound == \A p \in Process : serverConn[p] = "open" <=> server = p

\* What the stages of Start and Stop say of the sockets: the client's is made by
\* the dial, and only a Stop that found it goes as far as the server's.
Stages ==
  \A p \in Process :
    /\ alive[p] /\ clientConn[p] # "nil" => start[p] \in {"launch", "ok"}
    /\ alive[p] /\ serverConn[p] = "closed" => stop[p] \notin {"idle", "early"}
    /\ stop[p] \in {"wait", "ok", "panicked"} =>
         /\ start[p] \in {"launch", "ok"}
         /\ serverConn[p] # "open" /\ clientConn[p] # "connected"

IInv == TypeInv /\ Silent /\ Bound /\ Stages

LEMMA InitInv == NoneIsNoProcess /\ Init => IInv
BY DEF NoneIsNoProcess, Init, IInv, TypeInv, Silent, Bound, Stages

-----------------------------------------------------------------------------
(* The invariant is preserved *)

LEMMA StartInv ==
  ASSUME NoneIsNoProcess, IInv, NEW p \in Process, Listen(p) \/ Dial(p) \/ Launch(p)
  PROVE  IInv'
<1>. USE DEF NoneIsNoProcess, IInv, caches, conns
<1>1. Silent'
  BY DEF Listen, Dial, Launch, Silent
<1>2. TypeInv'
  BY DEF Listen, Dial, Launch, TypeInv
<1>3. Bound'
  BY DEF Listen, Dial, Launch, TypeInv, Bound
<1>4. Stages'
  BY DEF Listen, Dial, Launch, TypeInv, Bound, Stages
<1>. QED  BY <1>1, <1>2, <1>3, <1>4

\* In particular a Stop that closes the server's socket gives up the address of
\* its own process, not of another one.
LEMMA StopInv ==
  ASSUME NoneIsNoProcess, IInv, NEW p \in Process, Stop(p) \/ Stopped(p) \/ EndProcess(p)
  PROVE  IInv'
<1>. USE DEF NoneIsNoProcess, IInv, caches, conns
<1>1. Silent'
  BY DEF Stop, Stopped, EndProcess, Silent
<1>2. TypeInv'
  BY DEF Stop, Stopped, EndProcess, TypeInv
<1>3. Bound'
  BY DEF Stop, Stopped, EndProcess, TypeInv, Bound, Stages
<1>4. Stages'
  BY DEF Stop, Stopped, EndProcess, TypeInv, Bound, Stages
<1>. QED  BY <1>1, <1>2, <1>3, <1>4

\* A socket that DialUnix has made refuses what sendRegisterPacket writes, so that
\* the server and the clients have nothing to read.
LEMMA LoopsInv ==
  ASSUME IInv, NEW p \in Process,
         Register(p) \/ Loops(p) \/ Expire(p) \/ ContextEnds(p)
  PROVE  IInv'
<1>. USE DEF IInv, caches, conns
<1>1. CASE Register(p) \/ Tick(p) \/ Leave(p) \/ ContextEnds(p)
  BY <1>1 DEF Register, Tick, Leave, ContextEnds, TypeInv, Silent, Bound, Stages
<1>2. CASE sendRegisterPacket(p)
  <2>1. ~WriteToUnixSucceeds(clientConn[p])
    BY DEF WriteToUnixSucceeds, TypeInv
  <2>. QED  BY <1>2, <2>1 DEF sendRegisterPacket, TypeInv, Silent, Bound, Stages
<1>3. ASSUME NEW q \in Process, ServerReceive(p, q)
      PROVE  FALSE
  BY <1>3 DEF ServerReceive, Silent
<1>4. ASSUME NEW active \in SUBSET Process, ClientReceive(p, active)
      PROVE  FALSE
  BY <1>4 DEF ClientReceive, Silent
<1>5. CASE Expire(p)
  BY <1>5 DEF Expire, TypeInv, Silent, Bound, Stages
<1>. QED  BY <1>1, <1>2, <1>3, <1>4, <1>5 DEF Loops

\* The invariant of unixsock discovery.
THEOREM Invariant ==
  ASSUME NoneIsNoProcess
  PROVE  Spec => []IInv
<1>1. IInv /\ [Next]_vars => IInv'
  <2>. SUFFICES ASSUME IInv, [Next]_vars
                PROVE  IInv'
    OBVIOUS
  <2>1. CASE Next
    BY <2>1, StartInv, StopInv, LoopsInv DEF Next
  <2>2. CASE UNCHANGED vars
    BY <2>2 DEF vars, conns, caches, IInv, TypeInv, Silent, Bound, Stages
  <2>. QED  BY <2>1, <2>2
<1>. QED  BY InitInv, <1>1, PTL DEF Spec

-----------------------------------------------------------------------------
(* The theorems *)

\* Whatever the processes do, nothing registered with unixsock discovery is found.
THEOREM NothingIsFound ==
  ASSUME NoneIsNoProcess
  PROVE  Spec => []NothingFound
<1>1. IInv => NothingFound
  BY DEF IInv, Silent, NothingFound
<1>. QED  BY <1>1, Invariant, PTL

\* At most one process serves, however many start, stop and end at once.
THEOREM ServerIsUnique ==
  ASSUME NoneIsNoProcess
  PROVE  Spec => []OneServer
<1>1. IInv => OneServer
  BY DEF IInv, Bound, OneServer
<1>. QED  BY <1>1, Invariant, PTL

\* The panic of a Stop that is not the server's leaves nothing open.
THEOREM StopsClose ==
  ASSUME NoneIsNoProcess
  PROVE  Spec => []StopCloses
<1>1. IInv => StopCloses
  BY DEF IInv, Stages, StopCloses
<1>. QED  BY <1>1, Invariant, PTL
=============================================================================
