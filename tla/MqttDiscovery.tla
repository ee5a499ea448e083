---------------------------- MODULE MqttDiscovery ----------------------------
(***************************************************************************)
(* discovery/mqtt/mqtt.go: instances of the module on several nodes        *)
(* announce their services by messages to a broker, every Period, and keep *)
(* what the others announce in their infoCache.  The messages have QoS 0:  *)
(* they may be lost, or arrive up to MaxDelay late.                        *)
(*                                                                         *)
(* The client library runs the handler on a goroutine of its own, from the *)
(* moment the client exists.  Stop runs on the hook's goroutine and may    *)
(* overlap Start, the loop and the handler (framework/app.go:72).          *)
(* Clocks are ages, as in module RedisDiscovery.                           *)
(***************************************************************************)
EXTENDS ServiceCache, FiniteSets

CONSTANTS
  Node,
  Publisher,            \* the nodes with a service; it is named after them
  Watcher,              \* bound: the nodes whose messages and infoCache are followed
  Period,               \* discovery.DiscoveryInterval()
  CacheTTL,             \* interval of infoCache
  MaxDelay,             \* of a message that is not lost
  None

ASSUME PublisherAssumption == Publisher \subseteq Node
ASSUME WatcherAssumption == Watcher \subseteq Node
ASSUME TimesAssumption ==
  /\ Period \in Nat /\ CacheTTL \in Nat \ {0} /\ MaxDelay \in Nat
  /\ MaxDelay < Period            \* one message at a time is on its way
ASSUME NoneAssumption == None \notin Nat \cup Publisher

VARIABLES
  start,                \* "idle", "connected", "armed", "ok" or "failed"
  loop,                 \* publishLoop: "off", "publish", "list", "write", "select", "gone"
  toTick,               \* time until the loop's ticker fires
  ctxDone,              \* is runCtx, or the context it is made from, done?
  cli,                  \* is m.cli set?
  caches,               \* are infoCache and localRegs set?
  stop,                 \* "idle", "wait", "close", "drop", "ok" or "failed"
  registered,           \* does localRegs hold the node's service?
  transit,              \* transit[n][i]: age of the message from i to n
  handling,             \* the message that the handler of n is at
  cacheAge,             \* cacheAge[n][i], None if infoCache of n has no live i
  crashed,              \* "no", or which goroutine's panic ended the process
  \* history
  pubAge,               \* time since i was last published
  missed,               \* messages from i to n lost in a row, counted up to 2
  seen,                 \* seen[n]: what n has found and had no reason to lose
  overtaken             \* was Stop's wait over before Start launched the loop?

modVars == <<start, ctxDone, cli, caches, stop, registered, overtaken>>
loopVars == <<loop, toTick>>
msgVars == <<transit, handling, cacheAge, missed, seen>>
vars == <<modVars, loopVars, msgVars, pubAge, crashed>>

Up(n) == crashed[n] = "no"
Found(n, i) == cacheAge[n][i] # None

Nothing == [n \in Node |-> [i \in Publisher |-> None]]

Init ==
  /\ start = [n \in Node |-> "idle"]
  /\ loop = [n \in Node |-> "off"]
  /\ toTick = [n \in Node |-> Period]
  /\ ctxDone = [n \in Node |-> FALSE]
  /\ cli = [n \in Node |-> FALSE]
  /\ caches = [n \in Node |-> TRUE]
  /\ stop = [n \in Node |-> "idle"]
  /\ registered = [n \in Node |-> FALSE]
  /\ transit = Nothing
  /\ handling = [n \in Node |-> None]
  /\ cacheAge = Nothing
  /\ crashed = [n \in Node |-> "no"]
  /\ pubAge = [i \in Publisher |-> None]
  /\ missed = [n \in Node |-> [i \in Publisher |-> 0]]
  /\ seen = [n \in Node |-> {}]
  /\ overtaken = [n \in Node |-> FALSE]

-----------------------------------------------------------------------------
(* Start, Register *)

\* The client connects and subscribes, or Start returns the error.
Connect(n) ==
  /\ start[n] = "idle"
  /\ \/ start' = [start EXCEPT ![n] = "connected"] /\ cli' = [cli EXCEPT ![n] = TRUE]
     \/ start' = [start EXCEPT ![n] = "failed"] /\ UNCHANGED cli
  /\ UNCHANGED <<ctxDone, caches, stop, registered, overtaken, loopVars, msgVars, pubAge, crashed>>

\* (variant: the loop is started before runCtx is made)
ArmLaunching(n) ==
  /\ start[n] = "connected"
  /\ start' = [start EXCEPT ![n] = "armed"]
  /\ loop' = [loop EXCEPT ![n] = "publish"]
  /\ UNCHANGED <<ctxDone, cli, caches, stop, registered, overtaken, toTick, msgVars, pubAge, crashed>>

\* runCtx and cancel are made, from a context that may be done already.
Arm(n) ==
  /\ start[n] = "connected"
  /\ start' = [start EXCEPT ![n] = "armed"]
  /\ UNCHANGED <<ctxDone, cli, caches, stop, registered, overtaken, loopVars, msgVars, pubAge, crashed>>

\* The loop is started, and the module provided.
Launch(n) ==
  /\ start[n] = "armed"
  /\ start' = [start EXCEPT ![n] = "ok"]
  /\ loop' = [loop EXCEPT ![n] = "publish"]
  /\ UNCHANGED <<ctxDone, cli, caches, stop, registered, overtaken, toTick, msgVars, pubAge, crashed>>

\* Of a stopped module, localRegs is nil: see module Announce.
Register(n) ==
  /\ n \in Publisher /\ caches[n]
  /\ registered' = [registered EXCEPT ![n] = TRUE]
  /\ UNCHANGED <<start, ctxDone, cli, caches, stop, overtaken, loopVars, msgVars, pubAge, crashed>>

\* The context that Start is given ends, which may be before Start.
Cancel(n) ==
  /\ ~ctxDone[n]
  /\ ctxDone' = [ctxDone EXCEPT ![n] = TRUE]
  /\ UNCHANGED <<start, cli, caches, stop, registered, overtaken, loopVars, msgVars, pubAge, crashed>>

-----------------------------------------------------------------------------
(* Stop *)

\* Cancels runCtx, if Start has made it.
BeginStop(n) ==
  /\ stop[n] = "idle"
  /\ stop' = [stop EXCEPT ![n] = "wait"]
  /\ ctxDone' = [ctxDone EXCEPT ![n] = @ \/ start[n] \in {"armed", "ok"}]
  /\ UNCHANGED <<start, cli, caches, registered, overtaken, loopVars, msgVars, pubAge, crashed>>

\* (variant: Stop does not wait for the loop)
WaitNot(n) ==
  /\ stop[n] = "wait"
  /\ stop' = [stop EXCEPT ![n] = IF cli[n] THEN "close" ELSE "drop"]
  /\ overtaken' = [overtaken EXCEPT ![n] = loop[n] = "off"]
  /\ UNCHANGED <<start, ctxDone, cli, caches, registered, loopVars, msgVars, pubAge, crashed>>

\* wg.Wait(): the loop has left, or has not been started.
Wait(n) ==
  /\ stop[n] = "wait"
  /\ loop[n] \in {"off", "gone"}
  /\ stop' = [stop EXCEPT ![n] = IF cli[n] THEN "close" ELSE "drop"]
  /\ overtaken' = [overtaken EXCEPT ![n] = loop[n] = "off"]
  /\ UNCHANGED <<start, ctxDone, cli, caches, registered, loopVars, msgVars, pubAge, crashed>>

\* A Close that fails ends Stop, which keeps the client and the caches.
Close(n) ==
  /\ stop[n] = "close"
  /\ \/ /\ stop' = [stop EXCEPT ![n] = "drop"]
        /\ cli' = [cli EXCEPT ![n] = FALSE]
        /\ transit' = [transit EXCEPT ![n] = Nothing[n]]
     \/ /\ stop' = [stop EXCEPT ![n] = "failed"]
        /\ UNCHANGED <<cli, transit>>
  /\ UNCHANGED <<start, ctxDone, caches, registered, overtaken, loopVars, handling, cacheAge,
                 missed, seen, pubAge, crashed>>

Drop(n) ==
  /\ stop[n] = "drop"
  /\ stop' = [stop EXCEPT ![n] = "ok"]
  /\ caches' = [caches EXCEPT ![n] = FALSE]
  /\ registered' = [registered EXCEPT ![n] = FALSE]
  /\ cacheAge' = [cacheAge EXCEPT ![n] = Nothing[n]]
  /\ UNCHANGED <<start, ctxDone, cli, overtaken, loopVars, transit, handling, missed, seen,
                 pubAge, crashed>>

-----------------------------------------------------------------------------
(* publishLoop *)

\* The ticker fires (the select may prefer it to a context that is done).
BeginRound(n) ==
  /\ loop[n] = "select" /\ toTick[n] = 0
  /\ loop' = [loop EXCEPT ![n] = "publish"]
  /\ toTick' = [toTick EXCEPT ![n] = Period]
  /\ UNCHANGED <<modVars, msgVars, pubAge, crashed>>

\* (variant: the loop looks at runCtx only when its ticker fires)
LeaveOnTick(n) ==
  /\ loop[n] = "select" /\ ctxDone[n] /\ toTick[n] = 0
  /\ loop' = [loop EXCEPT ![n] = "gone"]
  /\ UNCHANGED <<toTick, modVars, msgVars, pubAge, crashed>>

\* The select sees runCtx done.
Leave(n) ==
  /\ loop[n] = "select" /\ ctxDone[n]
  /\ loop' = [loop EXCEPT ![n] = "gone"]
  /\ toTick' = [toTick EXCEPT ![n] = Period]
  /\ UNCHANGED <<modVars, msgVars, pubAge, crashed>>

\* publishAll returns if there is no client or no cache.
Check(n) ==
  /\ loop[n] = "publish"
  /\ loop' = [loop EXCEPT ![n] = IF cli[n] /\ caches[n] THEN "list" ELSE "select"]
  /\ UNCHANGED <<toTick, modVars, msgVars, pubAge, crashed>>

\* The services are listed.  If localRegs is nil by now, that is a nil dereference.
List(n) ==
  /\ loop[n] = "list"
  /\ IF caches[n]
       THEN /\ loop' = [loop EXCEPT ![n] = IF registered[n] THEN "write" ELSE "select"]
            /\ UNCHANGED crashed
       ELSE crashed' = [crashed EXCEPT ![n] = "loop"] /\ UNCHANGED loop
  /\ UNCHANGED <<toTick, modVars, msgVars, pubAge>>

\* A message goes to every node that is subscribed.  A Write that fails is only
\* logged: it is a message that everybody loses.
Write(n) ==
  /\ loop[n] = "write" /\ cli[n]
  /\ loop' = [loop EXCEPT ![n] = "select"]
  /\ pubAge' = [pubAge EXCEPT ![n] = 0]
  /\ transit' = [w \in Node |-> IF w \in Watcher /\ cli[w]
                                  THEN [transit[w] EXCEPT ![n] = 0] ELSE transit[w]]
  /\ UNCHANGED <<toTick, modVars, handling, cacheAge, missed, seen, crashed>>

\* m.cli was set when publishAll checked it and is nil now: the client's method
\* dereferences nil, or refuses.
WriteNil(n) ==
  /\ loop[n] = "write" /\ ~cli[n]
  /\ \/ crashed' = [crashed EXCEPT ![n] = "loop"] /\ UNCHANGED loop
     \/ loop' = [loop EXCEPT ![n] = "select"] /\ UNCHANGED crashed
  /\ UNCHANGED <<toTick, modVars, msgVars, pubAge>>

-----------------------------------------------------------------------------
(* onMessage *)

Lose(n, i) ==
  /\ transit[n][i] # None
  /\ transit' = [transit EXCEPT ![n][i] = None]
  /\ missed' = [missed EXCEPT ![n][i] = IF @ = 2 THEN 2 ELSE @ + 1]
  /\ seen' = IF missed'[n][i] = 2 THEN [seen EXCEPT ![n] = @ \ {i}] ELSE seen
  /\ UNCHANGED <<modVars, loopVars, handling, cacheAge, pubAge, crashed>>

Deliver(n, i) ==
  /\ transit[n][i] # None /\ cli[n]
  /\ handling[n] = None
  /\ handling' = [handling EXCEPT ![n] = i]
  /\ transit' = [transit EXCEPT ![n][i] = None]
  /\ UNCHANGED <<modVars, loopVars, cacheAge, missed, seen, pubAge, crashed>>

\* (variant: a service that is cached already is not stored again)
StoreNew(n) ==
  /\ handling[n] # None
  /\ handling' = [handling EXCEPT ![n] = None]
  /\ LET i == handling[n] IN
       IF caches[n]
         THEN /\ cacheAge' = [cacheAge EXCEPT ![n][i] = IF @ = None THEN 0 ELSE @]
              /\ missed' = [missed EXCEPT ![n][i] = 0]
              /\ seen' = [seen EXCEPT ![n] = @ \cup {i}]
              /\ UNCHANGED crashed
         ELSE crashed' = [crashed EXCEPT ![n] = "handler"] /\ UNCHANGED <<cacheAge, missed, seen>>
  /\ UNCHANGED <<modVars, loopVars, transit, pubAge>>

\* The handler stores the service in infoCache, or dereferences nil.
Store(n) ==
  /\ handling[n] # None
  /\ handling' = [handling EXCEPT ![n] = None]
  /\ LET i == handling[n] IN
       IF caches[n]
         THEN /\ cacheAge' = [cacheAge EXCEPT ![n][i] = 0]
              /\ missed' = [missed EXCEPT ![n][i] = 0]
              /\ seen' = [seen EXCEPT ![n] = @ \cup {i}]
              /\ UNCHANGED crashed
         ELSE crashed' = [crashed EXCEPT ![n] = "handler"] /\ UNCHANGED <<cacheAge, missed, seen>>
  /\ UNCHANGED <<modVars, loopVars, transit, pubAge>>

-----------------------------------------------------------------------------
(* Time *)

\* Publishing and handling take no time, a message arrives in MaxDelay or
\* never, and a loop in its select reacts to the ticker and to runCtx at once.
MayWait(n) ==
  /\ loop[n] \notin {"publish", "list", "write"}
  /\ loop[n] = "select" => toTick[n] > 0 /\ ~ctxDone[n]
  /\ handling[n] = None
  /\ \A i \in Publisher : transit[n][i] # MaxDelay

\* pubAge saturates once it is past all that the properties speak of.
MaxPubAge == CacheTTL + MaxDelay + 1

\* (variant: infoCache is made with an interval of 0, as localRegs is)
AgedNever(age) == IF age \in {None, CacheTTL} THEN age ELSE age + 1

Aged(age) == IF age = None \/ IsExpired(age + 1, CacheTTL) THEN None ELSE age + 1

\* BOUND: the ticks of a loop that has nothing to publish are left out.
Tick ==
  /\ \A n \in Node : Up(n) => MayWait(n)
  /\ toTick' = [n \in Node |-> IF n \in Publisher /\ loop[n] = "select" /\ toTick[n] > 0
                                 THEN toTick[n] - 1 ELSE toTick[n]]
  /\ transit' = [n \in Node |-> [i \in Publisher |->
                   IF transit[n][i] \in {None, MaxDelay} THEN transit[n][i] ELSE transit[n][i] + 1]]
  /\ pubAge' = [i \in Publisher |-> IF pubAge[i] \in {None, MaxPubAge} THEN pubAge[i] ELSE pubAge[i] + 1]
  /\ cacheAge' = [n \in Node |-> [i \in Publisher |-> Aged(cacheAge[n][i])]]
  /\ UNCHANGED <<modVars, loop, handling, missed, seen, crashed>>

-----------------------------------------------------------------------------
Loop(n) == BeginRound(n) \/ Leave(n) \/ Check(n) \/ List(n) \/ Write(n) \/ WriteNil(n)

StopStep(n) == Wait(n) \/ Close(n) \/ Drop(n)

Handler(n) == Store(n) \/ \E i \in Publisher : Deliver(n, i)

ModuleStep(n) ==
  \/ Connect(n) \/ Arm(n) \/ Launch(n)
  \/ StopStep(n)
  \/ Loop(n)
  \/ Handler(n) \/ \E i \in Publisher : Lose(n, i)

\* The goroutines of a process that is up are scheduled, the broker and the
\* client return, and time passes.  (A connection may take for ever.)
ModuleFairness ==
  /\ \A n \in Node : /\ WF_vars(Up(n) /\ Loop(n))
                     /\ WF_vars(Up(n) /\ StopStep(n))
                     /\ WF_vars(Up(n) /\ Arm(n))
                     /\ WF_vars(Up(n) /\ Launch(n))
                     /\ WF_vars(Up(n) /\ Store(n))
  /\ WF_vars(Tick)

\* What is sent again and again is not lost every time.
Lossy == \A n \in Watcher, i \in Publisher : SF_vars(Up(n) /\ Deliver(n, i))

-----------------------------------------------------------------------------
TypeOK ==
  /\ start \in [Node -> {"idle", "connected", "armed", "ok", "failed"}]
  /\ loop \in [Node -> {"off", "publish", "list", "write", "select", "gone"}]
  /\ toTick \in [Node -> 0..Period]
  /\ ctxDone \in [Node -> BOOLEAN]
  /\ cli \in [Node -> BOOLEAN]
  /\ caches \in [Node -> BOOLEAN]
  /\ stop \in [Node -> {"idle", "wait", "close", "drop", "ok", "failed"}]
  /\ registered \in [Node -> BOOLEAN]
  /\ transit \in [Node -> [Publisher -> 0..MaxDelay \cup {None}]]
  /\ handling \in [Node -> Publisher \cup {None}]
  /\ cacheAge \in [Node -> [Publisher -> 0..CacheTTL \cup {None}]]
  /\ crashed \in [Node -> {"no", "handler", "loop"}]
  /\ pubAge \in [Publisher -> 0..MaxPubAge \cup {None}]
  /\ missed \in [Node -> [Publisher -> 0..2]]
  /\ seen \in [Node -> SUBSET Publisher]
  /\ overtaken \in [Node -> BOOLEAN]
  /\ \A n \in Node : loop[n] # "off" => start[n] = "ok"
  /\ \A n \in Node : cli[n] => start[n] \notin {"idle", "failed"}

\* Find never returns a service that was last announced more than the time to
\* live of infoCache and the delay of a message ago (mqtt.go:87).
Fresh ==
  \A n \in Node, i \in Publisher :
    Found(n, i) => pubAge[i] # None /\ pubAge[i] <= CacheTTL + MaxDelay

Running(n) == Up(n) /\ start[n] = "ok" /\ stop[n] = "idle" /\ ~ctxDone[n]

\* Once found, a service that is still announced stays found although a message
\* is lost, and those before and after it are up to 10 s late: what the time to
\* live of two periods and 10 s is for (mqtt.go:87).
StaysFound ==
  \A n \in Node, i \in Publisher :
    i \in seen[n] /\ Running(n) /\ Running(i) => Found(n, i)

\* Two races end the process.  The handler may dereference the nil infoCache
\* only once a Stop has dropped it (mqtt.go:147).  The loop may lose its client
\* or localRegs only if Stop came before Start had launched the loop, so that
\* there was nobody to wait for (mqtt.go:127, :139).
CrashExplained ==
  \A n \in Node :
    /\ crashed[n] = "handler" => stop[n] = "ok"
    /\ crashed[n] = "loop" => overtaken[n]

\* Stop does not wait for ever for the loop, provided that the context which
\* Start was given has ended, as the hook sees to (app.go:70): a Stop that came
\* before Start had made cancel has nothing else that ends the loop (mqtt.go:136).
StopEnds ==
  \A n \in Node : stop[n] # "idle" /\ ctxDone[n] ~> stop[n] \in {"ok", "failed"} \/ ~Up(n)
=============================================================================
