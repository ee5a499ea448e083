--------------------------- MODULE RedisDiscovery ---------------------------
(***************************************************************************)
(* discovery/redis/redis.go: instances of the module on several nodes     *)
(* announce their services as redis keys with a time to live and copy the  *)
(* keys of the others into their infoCache, every Period.                  *)
(*                                                                         *)
(* Clocks are ages: pubAge is the time since an instance's key was last    *)
(* set, cacheAge the time since a node stored the instance.  An infoCache  *)
(* entry past its interval is dropped at once, which is what ServiceInfo   *)
(* implements (module ServiceInfo).  The server carries a command out at   *)
(* one moment and the loop has the answer at a later one, or never.        *)
(*                                                                         *)
(* ASSUMED: the commands of a phase (publishAll, refreshFromRedis) are     *)
(* over CmdTimeout after the phase began, when their context ends.  The    *)
(* client is made without ContextTimeoutEnabled (db/redis/redis.go:91), so *)
(* one that is on the wire then ends by its own read or write time-out,    *)
(* which may be seconds later; CmdTimeout has to count those in.           *)
(*                                                                         *)
(* Stop runs on the hook's goroutine and may overlap Start and the loop    *)
(* (framework/app.go:72).                                                  *)
(***************************************************************************)
EXTENDS ServiceCache, FiniteSets

CONSTANTS
  Node,
  Publisher,            \* the nodes that register a service; it is named after them
  Watcher,              \* bound: the nodes whose infoCache is followed
  Period,               \* discovery.DiscoveryInterval()
  KeyTTL,               \* time to live of a key in redis
  CacheTTL,             \* interval of infoCache
  CmdTimeout,           \* how long one phase's commands may take
  None

ASSUME PublisherAssumption == Publisher \subseteq Node
ASSUME WatcherAssumption == Watcher \subseteq Node
ASSUME TimesAssumption ==
  /\ Period \in Nat /\ KeyTTL \in Nat /\ CacheTTL \in Nat \ {0} /\ CmdTimeout \in Nat
  /\ 2 * CmdTimeout < Period      \* a round is over before the next tick
ASSUME NoneAssumption == None \notin Nat \cup Publisher

VARIABLES
  start,                \* "idle", "armed", "ok" or "failed"
  stop,                 \* "idle", "wait", "drop" or "ok"
  loop,                 \* registerLoop: "off", "publish", "scan", "select", "gone", or
                        \* "crashed": its panic ended the process
  phaseAge,             \* time since the phase began
  toTick,               \* time until the loop's ticker fires
  unscanned,            \* keys SCAN has still to return in this refresh
  toGet,                \* keys of the current page to GET
  missed,               \* has a command of this refresh failed?
  answer,               \* key of the command that the server has carried out and
                        \* whose answer is on its way to the loop
  ctxDone,              \* is runCtx, or the context it is made from, done?
  registered,           \* the nodes whose localRegs holds their service
  pubAge,               \* per publisher; None before the first successful SET
  cacheAge,             \* cacheAge[n][i], None if infoCache of n has no live i
  \* history
  pubMiss,              \* failed publishes in a row, counted up to 3
  refMiss,              \* failed refreshes in a row, of a node that has found something:
                        \* the second one makes it forget
  seen                  \* seen[n]: what n has found and had no reason to lose

loopVars == <<loop, phaseAge, toTick, unscanned, toGet, missed, answer>>
modVars == <<start, stop, ctxDone, registered>>
cacheVars == <<pubAge, cacheAge>>
histVars == <<pubMiss, refMiss, seen>>
vars == <<loopVars, modVars, cacheVars, histVars>>

\* A key exists in redis as long as it is not older than its time to live.
Exists(i) == pubAge[i] # None /\ pubAge[i] <= KeyTTL
Keys == { i \in Publisher : Exists(i) }

\* What Find returns on n: ServiceInfo.Load.
Found(n, i) == cacheAge[n][i] # None

\* Has Stop set the caches to nil?  The client too, unless Start sets it again.
Dropped(n) == stop[n] = "ok"

\* A node whose context has not ended and that is not being stopped.
Kept(n) == ~ctxDone[n] /\ stop[n] = "idle"
Running(n) == loop[n] \in {"publish", "scan", "select"} /\ Kept(n)

Init ==
  /\ start = [n \in Node |-> "idle"]
  /\ stop = [n \in Node |-> "idle"]
  /\ loop = [n \in Node |-> "off"]
  /\ phaseAge = [n \in Node |-> 0]
  /\ toTick = [n \in Node |-> Period]
  /\ unscanned = [n \in Node |-> {}]
  /\ toGet = [n \in Node |-> {}]
  /\ missed = [n \in Node |-> FALSE]
  /\ answer = [n \in Node |-> None]
  /\ ctxDone = [n \in Node |-> FALSE]
  /\ registered = {}
  /\ pubAge = [i \in Publisher |-> None]
  /\ cacheAge = [n \in Node |-> [i \in Publisher |-> None]]
  /\ pubMiss = [i \in Publisher |-> 0]
  /\ refMiss = [n \in Node |-> 0]
  /\ seen = [n \in Node |-> {}]

-----------------------------------------------------------------------------
(* Start, Register, Stop *)

\* Start has its client and makes runCtx and cancel, from a context that may be
\* done already (App.Run passes such a one); or it returns an error.
Arm(n) ==
  /\ start[n] = "idle"
  /\ start' = [start EXCEPT ![n] = "armed"]
  /\ UNCHANGED <<loopVars, stop, ctxDone, registered, cacheVars, histVars>>

StartFails(n) ==
  /\ start[n] = "idle"
  /\ start' = [start EXCEPT ![n] = "failed"]
  /\ UNCHANGED <<loopVars, stop, ctxDone, registered, cacheVars, histVars>>

\* The loop is started, which publishes and refreshes once before it selects, or
\* finds the caches nil; and the module is provided.
Launch(n) ==
  /\ start[n] = "armed"
  /\ start' = [start EXCEPT ![n] = "ok"]
  /\ loop' = [loop EXCEPT ![n] = IF Dropped(n) THEN "select" ELSE "publish"]
  /\ phaseAge' = [phaseAge EXCEPT ![n] = 0]
  /\ toTick' = [toTick EXCEPT ![n] = Period]
  /\ UNCHANGED <<unscanned, toGet, missed, answer, stop, ctxDone, registered, cacheVars, histVars>>

\* A service module registers its service; it is published at the next round.
\* (Of a stopped module, localRegs is nil: see module Announce.)
Register(n) ==
  /\ n \in Publisher /\ ~Dropped(n)
  /\ registered' = registered \cup {n}
  /\ UNCHANGED <<loopVars, start, stop, ctxDone, cacheVars, histVars>>

\* What the histories are about is over once a node's context or Stop ends it.
Forget(n) ==
  /\ seen' = [m \in Node |-> IF m = n THEN {} ELSE seen[m] \ {n}]
  /\ refMiss' = [refMiss EXCEPT ![n] = 0]
  /\ pubMiss' = [i \in Publisher |-> IF i = n THEN 0 ELSE pubMiss[i]]

\* The context that Start is given, runCtx's parent, ends, maybe before Start.
Cancel(n) ==
  /\ ~ctxDone[n] /\ loop[n] \notin {"gone", "crashed"}
  /\ ctxDone' = [ctxDone EXCEPT ![n] = TRUE]
  /\ Forget(n)
  /\ UNCHANGED <<loopVars, start, stop, registered, cacheVars>>

\* Stop cancels runCtx, if Start has made it.
BeginStop(n) ==
  /\ stop[n] = "idle"
  /\ stop' = [stop EXCEPT ![n] = "wait"]
  /\ ctxDone' = [ctxDone EXCEPT ![n] = @ \/ start[n] \in {"armed", "ok"}]
  /\ Forget(n)
  /\ UNCHANGED <<loopVars, start, registered, cacheVars>>

\* wg.Wait(): the loop has left, or has not been started.
Wait(n) ==
  /\ stop[n] = "wait"
  /\ loop[n] \in {"off", "gone"}
  /\ stop' = [stop EXCEPT ![n] = "drop"]
  /\ UNCHANGED <<loopVars, start, ctxDone, registered, cacheVars, histVars>>

\* Stop drops the client, the cache and the registrations.
Drop(n) ==
  /\ stop[n] = "drop"
  /\ stop' = [stop EXCEPT ![n] = "ok"]
  /\ registered' = registered \ {n}
  /\ cacheAge' = [cacheAge EXCEPT ![n] = [i \in Publisher |-> None]]
  /\ UNCHANGED <<loopVars, start, ctxDone, pubAge, histVars>>

\* (variant: the loop looks at runCtx only when its ticker fires with it)
LeaveOnTick(n) ==
  /\ loop[n] = "select"
  /\ ctxDone[n] /\ toTick[n] = 0
  /\ loop' = [loop EXCEPT ![n] = "gone"]
  /\ UNCHANGED <<phaseAge, toTick, unscanned, toGet, missed, answer, modVars, cacheVars, histVars>>

\* The select sees runCtx done and the loop returns.
Leave(n) ==
  /\ loop[n] = "select"
  /\ ctxDone[n]
  /\ loop' = [loop EXCEPT ![n] = "gone"]
  /\ toTick' = [toTick EXCEPT ![n] = Period]
  /\ UNCHANGED <<phaseAge, unscanned, toGet, missed, answer, modVars, cacheVars, histVars>>

-----------------------------------------------------------------------------
(* One round of registerLoop *)

\* (variant: the timer of the loop is not armed again)
BeginRoundUnarmed(n) ==
  /\ loop[n] = "select" /\ ~Dropped(n)
  /\ toTick[n] = 0
  /\ loop' = [loop EXCEPT ![n] = "publish"]
  /\ phaseAge' = [phaseAge EXCEPT ![n] = 0]
  /\ UNCHANGED <<toTick, unscanned, toGet, missed, answer, modVars, cacheVars, histVars>>

\* The ticker fires (the select may prefer it to a context that is done).
\* BOUND: not of a module whose caches are nil, as both parts of the round then
\* return at once.
BeginRound(n) ==
  /\ loop[n] = "select" /\ ~Dropped(n)
  /\ toTick[n] = 0
  /\ loop' = [loop EXCEPT ![n] = "publish"]
  /\ phaseAge' = [phaseAge EXCEPT ![n] = 0]
  /\ toTick' = [toTick EXCEPT ![n] = Period]
  /\ UNCHANGED <<unscanned, toGet, missed, answer, modVars, cacheVars, histVars>>

\* publishAll returns and refreshFromRedis begins, or finds its cache nil.
\* BOUND: the refresh of a node that is not in Watcher is over at once.
BeginScan(n) ==
  /\ loop' = [loop EXCEPT ![n] = IF n \in Watcher /\ ~Dropped(n) THEN "scan" ELSE "select"]
  /\ phaseAge' = [phaseAge EXCEPT ![n] = 0]
  /\ unscanned' = [unscanned EXCEPT ![n] = IF n \in Watcher /\ ~Dropped(n) THEN Keys ELSE {}]
  /\ toGet' = [toGet EXCEPT ![n] = {}]
  /\ missed' = [missed EXCEPT ![n] = FALSE]
  /\ answer' = [answer EXCEPT ![n] = None]
  /\ UNCHANGED <<toTick, modVars, cacheVars>>

\* publishAll with nothing registered.
PublishNothing(n) ==
  /\ loop[n] = "publish"
  /\ n \notin registered
  /\ BeginScan(n)
  /\ UNCHANGED histVars

\* The server carries out the SET of the instance's key with its time to live.
\* (One that it carries out after the context has ended is left out.)
ServeSet(n) ==
  /\ loop[n] = "publish"
  /\ n \in registered /\ ~ctxDone[n]
  /\ answer' = [answer EXCEPT ![n] = n]
  /\ pubAge' = [pubAge EXCEPT ![n] = 0]
  /\ UNCHANGED <<loop, phaseAge, toTick, unscanned, toGet, missed, modVars, cacheAge, histVars>>

\* The loop has the answer of its SET.
Publish(n) ==
  /\ loop[n] = "publish"
  /\ answer[n] = n
  /\ pubMiss' = [pubMiss EXCEPT ![n] = 0]
  /\ BeginScan(n)
  /\ UNCHANGED <<refMiss, seen>>

\* The SET fails: redis does not answer in time, although it may have carried
\* the SET out, or runCtx is done.
PublishFails(n) ==
  /\ loop[n] = "publish"
  /\ n \in registered
  /\ pubMiss' = [pubMiss EXCEPT ![n] = IF Kept(n) /\ @ < 3 THEN @ + 1 ELSE @]
  /\ seen' = IF pubMiss'[n] = 3 THEN [m \in Node |-> seen[m] \ {n}] ELSE seen
  /\ BeginScan(n)
  /\ UNCHANGED refMiss

\* SCAN returns a page of the keys that are left, those that expired
\* meanwhile not among them; one that was set meanwhile may wait for the next
\* refresh.
ScanPage(n) ==
  /\ loop[n] = "scan" /\ ~Dropped(n)
  /\ toGet[n] = {} /\ unscanned[n] \cap Keys # {}
  /\ ~ctxDone[n]
  /\ \E page \in SUBSET (unscanned[n] \cap Keys) :
       /\ page # {}
       /\ toGet' = [toGet EXCEPT ![n] = page]
       /\ unscanned' = [unscanned EXCEPT ![n] = @ \ page]
  /\ UNCHANGED <<loop, phaseAge, toTick, missed, answer, modVars, cacheVars, histVars>>

\* The server reads the key that the loop GETs.
ServeGet(n, i) ==
  /\ loop[n] = "scan" /\ ~Dropped(n)
  /\ i \in toGet[n] /\ answer[n] = None
  /\ ~ctxDone[n]
  /\ Exists(i)
  /\ answer' = [answer EXCEPT ![n] = i]
  /\ UNCHANGED <<loop, phaseAge, toTick, unscanned, toGet, missed, modVars, cacheVars, histVars>>

Store(n, i) ==
  /\ cacheAge' = [cacheAge EXCEPT ![n][i] = 0]
  /\ seen' = [seen EXCEPT ![n] = IF Kept(n) /\ Kept(i) /\ pubMiss[i] < 3
                                 THEN @ \cup {i} ELSE @]

\* (variant: an instance that is already cached is not stored again)
GetNew(n, i) ==
  /\ loop[n] = "scan" /\ ~Dropped(n)
  /\ i \in toGet[n] /\ answer[n] = i
  /\ toGet' = [toGet EXCEPT ![n] = @ \ {i}]
  /\ answer' = [answer EXCEPT ![n] = None]
  /\ IF cacheAge[n][i] = None THEN Store(n, i) ELSE UNCHANGED <<cacheAge, seen>>
  /\ UNCHANGED <<loop, phaseAge, toTick, unscanned, missed, modVars, pubAge, pubMiss, refMiss>>

\* The loop has the answer of its GET: the service is stored in infoCache, as of
\* now, however long ago the server has read the key.
Get(n, i) ==
  /\ loop[n] = "scan" /\ ~Dropped(n)
  /\ i \in toGet[n] /\ answer[n] = i
  /\ toGet' = [toGet EXCEPT ![n] = @ \ {i}]
  /\ answer' = [answer EXCEPT ![n] = None]
  /\ Store(n, i)
  /\ UNCHANGED <<loop, phaseAge, toTick, unscanned, missed, modVars, pubAge, pubMiss, refMiss>>

\* The key has expired since the SCAN (redis.Nil): it is skipped.
GetNil(n, i) ==
  /\ loop[n] = "scan" /\ ~Dropped(n)
  /\ i \in toGet[n] /\ answer[n] = None
  /\ ~ctxDone[n]
  /\ ~Exists(i)
  /\ toGet' = [toGet EXCEPT ![n] = @ \ {i}]
  /\ UNCHANGED <<loop, phaseAge, toTick, unscanned, missed, answer, modVars, cacheVars, histVars>>

\* The GET of one key fails: the others are still tried.
GetFails(n, i) ==
  /\ loop[n] = "scan"
  /\ i \in toGet[n] /\ answer[n] \in {None, i}
  /\ toGet' = [toGet EXCEPT ![n] = @ \ {i}]
  /\ answer' = [answer EXCEPT ![n] = None]
  /\ missed' = [missed EXCEPT ![n] = TRUE]
  /\ UNCHANGED <<loop, phaseAge, toTick, unscanned, modVars, cacheVars, histVars>>

EndRefresh(n, failed) ==
  /\ loop' = [loop EXCEPT ![n] = "select"]
  /\ refMiss' = [refMiss EXCEPT ![n] = IF failed /\ seen[n] # {} /\ @ = 0 THEN 1 ELSE 0]
  /\ seen' = [seen EXCEPT ![n] = IF failed /\ refMiss[n] = 1 THEN {} ELSE @]
  /\ phaseAge' = [phaseAge EXCEPT ![n] = 0]
  /\ unscanned' = [unscanned EXCEPT ![n] = {}]
  /\ missed' = [missed EXCEPT ![n] = FALSE]
  /\ UNCHANGED <<toTick, toGet, answer, modVars, cacheVars, pubMiss>>

\* (variant: what the node knows is kept for another interval when SCAN fails)
ScanFailsKeeping(n) ==
  /\ loop[n] = "scan"
  /\ toGet[n] = {}
  /\ loop' = [loop EXCEPT ![n] = "select"]
  /\ phaseAge' = [phaseAge EXCEPT ![n] = 0]
  /\ unscanned' = [unscanned EXCEPT ![n] = {}]
  /\ cacheAge' = [cacheAge EXCEPT ![n] = [i \in Publisher |-> IF @[i] = None THEN None ELSE 0]]
  /\ UNCHANGED <<toTick, toGet, missed, answer, modVars, pubAge, histVars>>

\* SCAN fails: the refresh is abandoned.
ScanFails(n) ==
  /\ loop[n] = "scan"
  /\ toGet[n] = {}
  /\ EndRefresh(n, TRUE)

\* The cursor is 0 again.
ScanDone(n) ==
  /\ loop[n] = "scan"
  /\ toGet[n] = {} /\ unscanned[n] \cap Keys = {}
  /\ EndRefresh(n, missed[n])

\* The phase began before Stop dropped the client and the caches, and uses one
\* of them now: it dereferences nil.
Panic(n) ==
  /\ loop[n] \in {"publish", "scan"} /\ Dropped(n)
  /\ loop' = [loop EXCEPT ![n] = "crashed"]
  /\ phaseAge' = [phaseAge EXCEPT ![n] = 0]
  /\ toTick' = [toTick EXCEPT ![n] = Period]
  /\ unscanned' = [unscanned EXCEPT ![n] = {}]
  /\ toGet' = [toGet EXCEPT ![n] = {}]
  /\ missed' = [missed EXCEPT ![n] = FALSE]
  /\ answer' = [answer EXCEPT ![n] = None]
  /\ UNCHANGED <<modVars, cacheVars, histVars>>

-----------------------------------------------------------------------------
(* Time *)

\* A loop in a phase is at its latest done when the phase's context ends, which
\* is the assumption on CmdTimeout; a loop in its select reacts to the ticker, and
\* to runCtx's end, at once; and Start and Stop take no time but for Stop's wait.
MayWait(n) ==
  /\ loop[n] \in {"publish", "scan"} => phaseAge[n] < CmdTimeout
  /\ loop[n] = "select" => ~ctxDone[n] /\ (Dropped(n) \/ toTick[n] > 0)
  /\ start[n] # "armed"
  /\ stop[n] # "drop" /\ ~(stop[n] = "wait" /\ loop[n] \in {"off", "gone"})

\* (The ticker of a loop that has nothing to do any more is not followed.)
Ticking(n) == loop[n] \in {"publish", "scan"} \/ (loop[n] = "select" /\ ~Dropped(n))

Older(age, limit) == IF age = None \/ age = limit THEN age ELSE age + 1

\* pubAge saturates once it is past all that the properties speak of.
MaxPubAge == KeyTTL + CmdTimeout + CacheTTL + 1

Aged(age) == IF age = None \/ IsExpired(age + 1, CacheTTL) THEN None ELSE age + 1

Tick ==
  /\ \A n \in Node : MayWait(n)
  /\ phaseAge' = [n \in Node |-> IF loop[n] \in {"publish", "scan"}
                                    THEN phaseAge[n] + 1 ELSE phaseAge[n]]
  /\ toTick' = [n \in Node |-> IF Ticking(n) THEN toTick[n] - 1 ELSE toTick[n]]
  /\ pubAge' = [i \in Publisher |-> Older(pubAge[i], MaxPubAge)]
  /\ cacheAge' = [n \in Node |-> [i \in Publisher |-> Aged(cacheAge[n][i])]]
  /\ UNCHANGED <<loop, unscanned, toGet, missed, answer, modVars, histVars>>

StopStep(n) == Wait(n) \/ Drop(n)

Server(n) == ServeSet(n) \/ \E i \in Publisher : ServeGet(n, i)

Loop(n) ==
  \/ BeginRound(n)
  \/ Leave(n)
  \/ PublishNothing(n)
  \/ Publish(n)
  \/ PublishFails(n)
  \/ ScanPage(n)
  \/ \E i \in Publisher : Get(n, i) \/ GetNil(n, i) \/ GetFails(n, i)
  \/ ScanFails(n)
  \/ ScanDone(n)
  \/ Panic(n)

Next ==
  \/ \E n \in Node : \/ Arm(n)
                     \/ StartFails(n)
                     \/ Launch(n)
                     \/ Register(n)
                     \/ Cancel(n)
                     \/ BeginStop(n)
                     \/ StopStep(n)
                     \/ Server(n)
                     \/ Loop(n)
  \/ Tick

Spec == Init /\ [][Next]_vars

\* The loop's goroutine and Stop are scheduled, and a command ends at the
\* latest with its context.  (Redis need not answer.)
FairSpec ==
  /\ Spec
  /\ \A n \in Node : WF_vars(Loop(n)) /\ WF_vars(StopStep(n))

-----------------------------------------------------------------------------
TypeOK ==
  /\ start \in [Node -> {"idle", "armed", "ok", "failed"}]
  /\ stop \in [Node -> {"idle", "wait", "drop", "ok"}]
  /\ loop \in [Node -> {"off", "publish", "scan", "select", "gone", "crashed"}]
  /\ phaseAge \in [Node -> 0..CmdTimeout]
  /\ toTick \in [Node -> 0..Period]
  /\ unscanned \in [Node -> SUBSET Publisher]
  /\ toGet \in [Node -> SUBSET Publisher]
  /\ missed \in [Node -> BOOLEAN]
  /\ answer \in [Node -> Publisher \cup {None}]
  /\ ctxDone \in [Node -> BOOLEAN]
  /\ registered \subseteq Publisher
  /\ pubAge \in [Publisher -> 0..MaxPubAge \cup {None}]
  /\ cacheAge \in [Node -> [Publisher -> 0..CacheTTL \cup {None}]]
  /\ pubMiss \in [Publisher -> 0..3]
  /\ refMiss \in [Node -> 0..1]
  /\ seen \in [Node -> SUBSET Publisher]
  /\ \A n \in Node : loop[n] # "off" => start[n] = "ok"

\* Find never returns a service that was last published more than the two times
\* to live and the time of a command ago (50 s + 40 s + 5 s, as cacheAge is at most
\* CacheTTL): a key read at the end of its life is stored when the answer is there,
\* and found for as long as one read at once (redis/redis.go:75, :178, :209, :224).
Fresh ==
  \A n \in Node, i \in Publisher :
    Found(n, i) => pubAge[i] # None /\ pubAge[i] <= cacheAge[n][i] + KeyTTL + CmdTimeout

\* Once found, a service that is still announced stays found through two failed
\* publishes in a row and, at the same time, one failed refresh: what the
\* times to live of 3 periods + 5 s and 2 periods + 10 s are for.
StaysFound ==
  \A n \in Node, i \in Publisher :
    i \in seen[n] /\ Running(n) /\ Running(i) => Found(n, i)

\* Stop does not wait for ever for the loop, whatever redis does, provided that
\* runCtx or its parent has ended: a Stop that comes before Start has made cancel
\* has nothing else that ends the loop it may then wait for (redis.go:104, :107).
StopEnds == \A n \in Node : stop[n] # "idle" /\ ctxDone[n] ~> stop[n] = "ok"
=============================================================================
