# TLA+ specifications of miniapp

These specifications describe `github.com/xyzj/miniapp`, a small Go framework
that starts and stops *modules* (databases, brokers, service discovery,
servers) in the order of their dependencies. They are translated from the
source; line numbers are those of the files under `src/`.

Parse a module with SANY, check a configuration with
`tlc -config X.cfg M`, and check the proofs with `tlapm X_proofs.tla`.

## 1. The system

| component | source | state it keeps | operations |
|---|---|---|---|
| module order | `framework/app.go:204-247` | registered modules, `orderedMods` | `compileTopology` |
| application | `framework/app.go`, `context.go` | registry of instances, the global context, one goroutine per `Start` | `NewApp`, `Register`, `Run`, `Provide`, `Get`, the `AfterStop` hook, `cmd.Exit` |
| service cache | `discovery/module.go` | map from instance to service, with times | `Store`, `Load`, `Delete`, `All`, the sweeper |
| redis discovery | `discovery/redis` | `infoCache`, `localRegs`, run context; keys in redis | `Start`, `Stop`, `Register`, `Find`, publish and refresh loop |
| mdns discovery | `discovery/mdns` | `infoCache`, `lookupMap`, `lookupCh`, `removeCache` | `Start`, `Stop`, `Register`, `Find`, consumer, lookup worker |
| mqtt discovery | `discovery/mqtt` | `infoCache`, `localRegs`, client, run context | as redis, messages instead of keys; a handler on the client's goroutine |
| unixsock discovery | `discovery/unixsock` | two sockets, three caches | as redis, one process serves the others |
| connectors | `db/*`, `mq/*` | one client, its handle | `Init`, `Start`, `Stop`, `Health` |
| statements | `db/sql_module.go` | a `sql.DB`, shared by its callers; a transaction per batch | `Query`, `Exec`, `ExecPrepare`, `Value` conversions |
| servers | `service/http`, `service/tcp` | a listener | `Start` (blocks), `Stop` |

How they interact. The main goroutine calls `Init` of every module, compiles
the order, and launches each module's `Start` on a goroutine of its own,
waiting at most 2 s for it. `Start` puts an instance into the registry
(`ctx.Provide`), where the `Start` of later modules finds it (`ctx.Get`);
a module that provides nothing is registered itself. Servers announce
themselves to a discovery module by `Register`. A signal, or `cmd.Exit(1)`
from a failed `Start`, runs the `AfterStop` hook, which calls every `Stop` in
reverse order, concurrently with whatever is still going on. Each discovery
module has background loops of its own, and callers of `Find` and `Health` on
any goroutine.

What is hard here: the 2 s wait against a `Start` that is still running; the
hook against `Run`; failing and panicking modules; expiry of cache entries
and keys against periodic refreshes that are lost; in-flight markers shared by
several goroutines; `Stop` against the module's own loops and against `Start`.
`PROJECT.json` lists each hazard at its line.

What makes each component correct:

* module order: a start order with dependencies first whenever one exists, an
  error exactly when none does, in finite time;
* application: a dependent finds its dependencies in the registry and is
  stopped before them; one failing module keeps neither `Run` nor the hook from
  going on;
* service cache: answers are never expired, and dead entries leave memory;
* discovery: answers are not older than the times to live allow, a service
  that is alive stays found across a few losses, `Stop` ends, no marker is
  orphaned, `Find` does not wait;
* connectors: what `Start` opened, `Stop` closes;
* statements: a batch takes effect as a whole or not at all, a result is whole
  or an error, an error means that nothing happened, a call ends in time;
* servers: one that listens is found by the other processes, one that is gone
  is forgotten.

## 2. The modules

| module | models | extends / instantiates |
|---|---|---|
| `StartOrder` | abstract: any way of building a start order or refusing one | |
| `Topology` | `compileTopology`, one action per step of `dfs` | implements `StartOrder` |
| `MCTopology` | finite initial states for `Topology` | `Topology` |
| `Topology_proofs` | proofs about `Topology` | `Topology` |
| `App` | lifecycle of the application | |
| `MCApp` | three modules in a chain | `App` |
| `Lifecycle` | the lifecycle, with the search of `compileTopology` step by step | `App`, `Topology`; implements `App` |
| `MCLifecycle` | the modules of `MCApp`, with their `DependsOn` | `MCApp`, `Lifecycle` |
| `App_proofs` | proofs about `App` and `Lifecycle` | `Lifecycle`, `Topology_proofs` |
| `ServiceCache` | `IsExpired` | |
| `Leases` | abstract: services held for exactly the interval | |
| `ServiceInfo` | the cache with lazy expiry and sweeper | `ServiceCache`; implements `Leases` |
| `ServiceInfo_proofs` | proofs about `ServiceInfo` | `ServiceInfo` |
| `RedisDiscovery` | redis discovery on several nodes | `ServiceCache` |
| `RedisDiscovery_proofs` | proofs about `RedisDiscovery` | `RedisDiscovery` |
| `MdnsDiscovery` | mdns discovery, one node, many callers | |
| `MdnsDiscovery_proofs` | proofs about `MdnsDiscovery` | `MdnsDiscovery` |
| `MCMdns` | symmetry for `MdnsDiscovery` | `MdnsDiscovery` |
| `Connector` | `Start`, `Stop` and `Health` of the eight connectors | |
| `AtomicBatches` | abstract: batches that take effect as a whole or not at all | |
| `Statements` | `Query`, `Exec`, `ExecPrepare` on a pool | implements `AtomicBatches` |
| `Value` | the conversions of cells of a result, and their laws | |
| `Database` | a connector and the callers of its pool | `Connector`, `Statements` |
| `Database_proofs` | proofs about `Connector`, `Database` and `Value` | `Database`, `Value` |
| `MCDatabase` | the laws of `Value` at four bits | `Database`, `Value` |
| `MqttDiscovery` | mqtt discovery on several nodes | `ServiceCache` |
| `Address` | what is made of a service's address, and laws about it | |
| `Announce` | an http server announcing itself over mqtt | `MqttDiscovery` |
| `Announce_proofs` | proofs about `Announce` and `MqttDiscovery` | `Announce` |
| `MCAnnounce` | the laws of `Address` | `Announce`, `Address` |
| `UnixsockDiscovery` | unixsock discovery in several processes | |
| `UnixsockDiscovery_proofs` | proofs about `UnixsockDiscovery` | `UnixsockDiscovery` |

Definitions whose comment begins with `(variant: ...)` are plausible mistakes
in the definition after them. No specification uses them; substituting one for
the original shows that a property depends on what the code does there.

### Topology

The recursive closure `dfs` is an explicit `stack` of frames (module, number
of dependencies already returned). `Enter` is the marking and the look-up at
app.go:217-221; `Descend`, `Cycle` and `Skip` are the call for the next
dependency when it is unvisited, in progress or finished; `Finish` is
app.go:232-234; `Commit` the assignment to `orderedMods`. Go's iteration over
the map is the nondeterministic choice of `PickRoot`. Two modules of one name
are one key of the map, so names identify modules.

### App, Lifecycle

`pc` follows the main goroutine, `task[n]` the goroutine that runs `Start` of
module `n`, `hook` and `hookIdx` the `AfterStop` hook. `compileTopology` is one
step, which chooses any start order or fails if there is none. `Lifecycle` puts
the steps of `Topology` in its place (`SearchStep`), between which a signal may
start the hook or the process may end, and implements `App`.
`CheckInstance` and `ProvideModule` are the two halves of app.go:196-197,
between which a late `Provide` may fall. `live[n]` says whether module `n` holds
its connection or listener. The shape of a module's own code is that of the
connectors and servers of the repository: a connector connects, provides and
returns; a server (`Servers`) blocks until its listener is shut, and then
returns an error, as `ListenAndServe` always does. `cmd.Exit` belongs to
go-cmd: it may run the hook, return, or end the process at any moment.

### ServiceInfo

Every operation holds the lock throughout and is one action. `now` is the clock;
`Tick` may not pass the sweeper's tick, since the sweeper's goroutine is only
waiting for it. `Load` returns any one live entry with the name, because Go's
order of iteration is arbitrary.

### RedisDiscovery

Each node's `loop` publishes its services, scans the keys page by page, gets
each key, and waits in its select. A command has two moments: `ServeSet` and
`ServeGet` are the server's, `Publish` and `Get` those at which the loop has the
answer. Between them up to `CmdTimeout` may pass, in which a key that has been
read grows older; and a SET that was carried out may still count as failed.
Commands fail at will; all commands of a phase share a deadline. `Start` is `Arm`
(or `StartFails`) and `Launch`, `Stop` is `BeginStop`, `Wait` and `Drop`, and the
two may overlap: a `Stop` that comes before `cancel` has been made ends nothing, and
a loop that is launched after that `Stop` has looked for one may be in a phase when
the client and the caches become nil (`Panic`). Clocks are ages, so nothing grows
without bound: `pubAge` is the time since a key was set, `cacheAge` since an entry was
stored. An expired entry is removed at once, which `ServiceInfo` justifies.
`pubMiss`, `refMiss` and `seen` are history: how many publishes or refreshes in
a row have failed, and what a node has found and had no reason to lose.

The specification covers the module with any context: one that is live, as
`framework.NewLoggerContext` makes it, or one that is done. The application
hands out the latter (finding 1 below), with which nothing is ever published;
the properties about publishing are conditional on a context that is not done.

### MdnsDiscovery

Ages have three classes (below 5 min, below 8 min, above), and ageing may
happen at any time, as may the removal scheduled 5 s after a lookup. `Find` is
split at every access to shared state: `Load`, then `Delete` (`Purge`), or
`LoadOrStore` (`Mark`), then the non-blocking `Send`. The worker's `Receive`,
`Check`, `Lookup` and `Unmark` and the consumer's `Arrive` and `Answered` are
separate steps likewise. What the network answers is arbitrary.

### Connector

The eight modules follow one protocol with variations. Each definition `mysql`,
..., `rabbitmq` is that module's profile, and the actions are guarded by it.
`Stop` is the hook's and may overlap `Start` (it then finds no handle, or the one
that `Start` is about to provide); `Start` reads the handle again when it provides
it, and `Health` reads it twice, so `Stop` may come in between. `Open` of the three
`gorm` modules has a third outcome: `gorm.Open` opens its pool, pings by itself,
and returns the error of that ping with the pool left open; the failure of
`orm.DB()` (pgsql.go:122) leaves it open likewise.

The `Start` of pgsql hands gorm the name of a registered configuration where gorm
expects a DSN, so it may always fail. The profile lets it succeed, too: it has
more behaviours than the code, and what holds of all of them holds of the code's.

### Statements, Database

A member of `Call` is one call of `Query`, `Exec` or `ExecPrepare` by some
goroutine; `pc` says where it is, `tx` what has become of its transaction,
`applied` how many parameters the database has taken. `Acquire` is the wait for
one of `MaxOpen` connections; `Prepare`, `ExecGroup` and `Commit` may each fail,
and the first two panic, and leave for the deferred `rollbackCheck`. `AwaitDone`
is the goroutine of `database/sql` that rolls a transaction back when its
context is done; it races every step up to `Commit`. An answer of the server
may be lost after it has done what it was asked (`lost`).

`Database` puts the calls on the pool of `Connector`: they find it once `Start`
has provided it, and `Stop` may close it under them.

### Value, Address

`Value` gives the integer and boolean conversions of a cell as operators, at a
width that is a constant; `Address` gives what `Init` of a server and
`EnsureData` make of each shape of address. Both are pure, and are stated as
laws: `MCDatabase` and `MCAnnounce` evaluate these over all values when TLC
starts, and `Database_proofs` proves two of those of `Value` (`Int32Exact`,
`BoolAgrees`) at every width.

### MqttDiscovery, Announce

`start`, `loop`, `stop` and `handling` follow the four goroutines of one
process: `Start` (`Connect`, `Arm`, `Launch`), `publishLoop` (`BeginRound`,
`Check`, `List`, `Write`, `Leave`), `Stop` (`BeginStop`, `Wait`, `Close`, `Drop`) and the
client's handler (`Deliver`, `Store`). They share `cli`, `caches` and the run
context without a lock, so every access is a step. Clocks are ages, as for redis.
A panic on a goroutine that nothing recovers ends the process (`crashed`).

`Announce` adds an http server on one node: `Make`, `RegisterService`, `Listen`
are http.go:122, :111-120 and :137, and its `Stop` comes before discovery's.

### UnixsockDiscovery

`server` is the process that has bound the group's address. Every process sends
its services to the server (`sendRegisterPacket`), which stores them and returns
all it knows (`ServerReceive`, `ClientReceive`). `WriteToUnixSucceeds` states
what package `net` does: a socket made by `DialUnix` refuses `WriteToUnix`.
`Start` is `Listen`, `Dial` and `Launch`, between which the hook's `Stop` may come:
before the dial it panics with nothing closed (`early`), after it in every process
that is not the server (`panicked`). A process may end at any time, which frees the
address; nobody else binds it again.

## 3. The runs

| run | what is asked | bounds |
|---|---|---|
| `topology` | ends; dependencies first; fails exactly when it must; implements `StartOrder` | 3 names, lists of up to 2 (27,102 states) |
| `app` | registry, order of starting and stopping, failures, termination; the search implements its single step | a connector, a discovery module, a server (486,173 states) |
| `app_ctx_cancelled` | finding 1 | the same modules, without the search |
| `app_start_not_awaited` | finding 2 | the same, without the search |
| `app_instance_replaced` | finding 3 | the same, without the search |
| `service_info` | implements `Leases`; sweeping bounds memory | 2 instances, 2 names, interval 2, clock to 7 (2,860 states) |
| `redis_discovery` | staleness, robustness, `Stop` | 2 nodes, the code's durations in units of 5 s (425,267 states) |
| `mdns_discovery` | markers, non-blocking `Find` | 2 instances, 2 callers, queue of 1 (1,094,879 states up to symmetry) |
| `mdns_dropped_fresh` | finding 4 | 1 instance, 1 caller |
| `connector` | leaks, retries; batches, results, deadlines; implements `AtomicBatches` | all eight connectors, two of them with 2 callers, 2 parameters or rows, 1 connection (317,942 states) |
| `announce` | staleness, loss, crashes and end of mqtt discovery; a server is found and forgotten | 2 nodes, the code's durations in units of 5 s (298,722 states) |
| `unixsock_never_found` | finding 5 | 2 processes, one of which serves |

Why the bounds are enough. Three names give cycles of length one, two and
three, diamonds in part, repeated and unregistered dependencies; the theorems
remove the bound. In `app` a chain of length two distinguishes a direct
dependency from an indirect one and has one module of each shape; any of them
may be left unregistered, so that the search also fails. The theorems remove the
bound for all that is safety. In `service_info` an entry lives through one sweep at
its very limit and is removed by the next, within three intervals; the theorems
remove this bound too. In `redis_discovery` one node announces and one looks up;
`Watcher` is the bound that only the latter's cache is followed, which loses
nothing as the nodes touch each other only through the keys. The durations are
whole units, so a command takes none or one; a key is then read at its very end
and stored a unit later, which is what `Fresh` is about. In
`mdns_discovery` the queue is full while the worker is at another instance, and
two callers compete for one marker. In `connector` two callers on one
connection wait for each other's, and two parameters make a batch of two groups
of one or one of two, which is what a partial effect needs; the callers are
those of `pgsql`, which knows no insert ids, and `sqlite`, which does
(`WithCallers`), and while there are calls the connector's only steps are those
of one `Stop`. In `announce` one node announces and the other watches; one
process is stopped in a behaviour, the other goes on (`OthersGoOn`), and the
ticks of a loop without services are left out. In `unixsock_never_found` the
entry of a service that is being sent does not expire.

`MaxTime`, `QueueCap`, `MaxDeps`, `Watcher`, `MaxLen`, `MaxOpen`, `WithCallers`
and `OthersGoOn` are the only bounds; ages saturate where no property looks
further.

Deadlock is checked in `announce` (time passes), `redis_discovery` and
`service_info` (lookups are always possible). Elsewhere the system really stops: the
search is over, the process has ended, every call has returned, or the context is done and all
activities have left.

### What the passing properties say

* `FailsIffBlocked`: an error is reported exactly when some set of modules
  can never be started, each waiting for another of the set or for one that is
  not registered.
* `DependencyServed`, `DependencyStartOver`: exactly how much the 2 s wait
  guarantees: a dependent always finds *something* under its dependency's
  name, and the dependency's own client unless the wait for it ran out.
* `StopProtectsDependencies`: when a module is stopped, no module depending on
  it still holds a connection, except where its own `Stop` failed or came
  before it had one.
* `NothingSkipped`, `StopEnds`, `RunEnds`: failures and panics do not stop
  the hook or `Run`.
* `ImplementsApp`: nobody can tell that `compileTopology` takes many steps,
  wherever a signal or the end of the process comes between them; it yields an
  order whenever one exists, and `Run` goes on with that.
* `SweptInTime`: an entry leaves the map at most two intervals after it was
  stored.
* `Fresh`: a found service was announced at most 95 s ago: a key read at the
  end of its 50 s is stored when the answer arrives, up to 5 s later, and cached
  for 40 s from then. An entry is at most 55 s older than its cache age. The bound
  is tight.
* `StaysFound`: two publishes and, at once, one refresh may fail without a
  service being lost. Three and two may not; the counters in `seen` say so.
* `MarkerBacked`: while the module runs, a marker in `lookupMap` always
  belongs to someone who will take it back, although callers, worker and
  consumer delete each other's. A refresh signal may be lost this way, but an
  instance is never barred from later lookups.
* `OrphansExplained`: which connectors can leave a client open for good, and
  when: mysql, pgsql and sqlserver if gorm does not reach the server, mysql and
  rabbitmq if the check fails, mysql, pgsql, sqlserver and mqtt if `Close` does.
* `ProvidedUsable`: no module provides a client that its own `Start` has closed;
  but it may provide nil, if a `Stop` clears the field just before.
* `ErrorMeansUndone`: a caller that is told of an error may try again, with two
  exceptions: the server's answer was lost, or `Exec` on a driver without insert
  ids (pgsql, sqlserver), which reports an error after every success
  (sql_module.go:380). The context ending during a commit is not one.
* `TxOver`, `QueryWhole`, `Bounded`: no way out of `ExecPrepare` leaves a
  transaction open, no end of a context cuts a result short without an error, and a
  call waits no longer than its deadline, except in the driver's commit or
  rollback, which take no context.
* `Fresh`, `StaysFound` of `announce`: the same promises for mqtt, whose entries
  live two periods and 10 s: one lost message and a delay of 10 s are survived.
* `CrashExplained`: the process can end by a nil dereference in two ways only: a
  message is handled after a `Stop` that closed the client has dropped the
  caches, or `Stop` came before `Start` had launched the loop. This is about the
  goroutines of the module itself: a caller of `Find` that comes after `Stop`
  dereferences the nil `infoCache` on its own (mqtt.go:170).
* `StopEnds` of `announce`: `Stop` waits for the loop; if it came before `Start`
  had made `cancel`, only the end of the context given to `Start` ends that wait.
* `ServedIsFound`, `GoneIsForgotten`: a server is found however late either
  side connects, and forgotten once its process no longer announces it,
  however that came about.

### Findings

1. `CancelledOnlyToStop`: `NewApp` defers `cancel()` (app.go:49), so the global
   context is done before the first module is registered. app.go:70 says the
   hook cancels it, to tell the modules to shut down.
2. `WaitsForDependencies`: `Run` moves on after 2 s (app.go:180) or when a
   failed `Start` returns; app.go:195 promises that dependencies have started.
3. `OwnInstanceKept`: app.go:196-197 is a check followed by an act; an instance
   provided in between is overwritten, where the comment says that the module
   is provided only if it has provided none.
4. `KeptWhileFresh`: the removal scheduled by a lookup (mdns.go:146) also removes
   an entry that the lookup has refreshed, and `Find` (mdns.go:195) may delete
   one stored since it looked; mdns.go:19 speaks of removal after 8 min without
   contact.
5. `RegisteredIsFound`: no service is ever found over unixsock. The client
   socket is connected (unixsock.go:109), and `sendRegisterPacket` writes to it
   with `WriteToUnix` (unixsock.go:260), which package `net` refuses on a
   connected socket; the error is logged. README.md:9 of the repository lists
   unixsock among the ways of discovery. No test sends a packet.

### Observed on the way

Not stated by any document of the repository, so not runs of their own:

* `Value` has no case for `string` (sql_module.go:118): text columns of drivers
  that return `string` (sqlite, pgsql, sqlserver) read as empty
  (`StringsLost`).
* `EnsureData` (module.go:80) joins `host:0` and `[ip6]:` with the real port to
  an address that cannot be dialled, and an address without a host (`:8080`) is
  announced as it is (`AnnouncedDialable` says which do work).
* `gorm.Open` leaves its pool open when its own ping fails, and mysql.go:114-118,
  pgsql.go:117-121 and sqlserver.go:125-129 return without it: each `Start` against
  a server that is down leaves a pool behind (`OrphansExplained`).
* A `Stop` between the assignment of the handle and `ctx.Provide` makes `Start`
  provide nil (mysql.go:148-149, `ProvidedUsable`).
* `Stop` of a unixsock module that is not the server panics
  (unixsock.go:137), before it waits for its loops.

## 4. Fairness

* `Topology`: `WF(Next)`; `compileTopology` is sequential code without waits.
* `App`: `WF(Main)`, since the goroutine of `Run` is scheduled, `Init` returns
  and the 2 s timer fires; `WF(Hook)`, which assumes that the `Stop` of each
  module returns: `StopEnds` says nothing of one that hangs, for which the hook has
  no time-out. Nothing is assumed of `Start`, of signals, or of `cmd.Exit`. `Lifecycle`: the same, the goroutine
  of `Run` being the search, too.
* `RedisDiscovery`: `WF(Loop(n))`, since the goroutine is scheduled and every
  command ends, and `WF(StopStep(n))`, since `Stop` is scheduled. Nothing is
  assumed of the server (`Server`), and time need not pass for `Stop` to end.
  `MayWait` assumes more: a phase's commands are over `CmdTimeout` after the
  phase began. The code gives the phase a context of 5 s, but the client is made
  without `ContextTimeoutEnabled` (db/redis/redis.go:91), so that a command on the
  wire ends by its own read or write time-out; `CmdTimeout` stands for the
  two together. The run takes 5 s. `Fresh` and the bound of `Stop` hold for any
  value below half a period; `StaysFound` needs the 5 s (`LongEnough`).
* `Statements`: `WF(Expire(c))`, since every call has a deadline, and
  `WF(expired[c] /\ Step(c))`, since what is given a context ends with it, if the
  driver honours the context. `Commit`
  and `Rollback` take no context: nothing is assumed of them, which is why
  `Bounded` ends there.
* `MqttDiscovery`: `WF` of the loop, of `Stop` and of the rest of `Start` once
  connected, as goroutines of a process that is up, which assumes that the client's
  `Write` and `Close` return; `WF(Store)`, since the handler
  returns; `WF(Tick)`, since time passes; `SF(Deliver)` (`Lossy`), since a message
  that is sent again and again is not lost every time. A connection may take for
  ever.
* `UnixsockDiscovery`: `WF` of the ticker's loop and `SF` of what is read from the
  sockets; the violation thus needs no loss and no starvation.
* The other specifications state safety only. For mdns, that a marker is always
  backed and that `Find` is never disabled replaces liveness.

## 5. The proofs

`Topology_proofs`, for every set of names, every registry and `DependsOn`
lists of any length:

* `TypeCorrect`, `OrderCorrect` (`TopologicalOrder`), `FailureCorrect`
  (`FailsIffBlocked`), `Implements` (the safety part of `StartOrder`).
* The inductive invariant `IInv` adds to `TypeOK` what a depth-first search
  maintains: the frames on the stack are exactly the modules in progress,
  each frame is the next dependency of the one below it, the dependencies a frame
  has passed are finished, and `order` lists exactly the finished modules,
  dependencies first. `TopologicalOrder` alone is not inductive, as it says
  nothing before `result` is set. For `FailsIffBlocked` it carries two
  more facts: no finished module belongs to a blocked set (`NoneBlockedFinished`),
  so a sort that finishes every module leaves no set blocked, and a failed sort
  has a blocked set (`ErrorBlocked`). That set is the
  modules on the stack: each waits for the one above it, and the last for a
  module already on the stack (a cycle) or not registered (missing). No
  assumption on the constants is needed.
* `SearchAdvances` is what makes `Terminates` hold for every registry: each step
  ends the search or lessens the first it changes of the modules not visited,
  those not finished and the dependencies the innermost call has left.
  `SearchNeverStuck` adds that a search without a result has a step whose guard
  holds (`CanStep` spells the guards of the steps out). Together they are
  `Terminates` but for the scheduling of the goroutine.

`ServiceInfo_proofs`, for every interval and every bound of the clock:

* `TypeCorrect`, `SweepBound` (`SweptInTime`), `Implements`
  (`ImplementsLeases`), from `IntervalAssumption`, `MaxTimeAssumption` and
  `NoEntryAssumption`.
* `SweptInTime` needs a bound at every moment, not only after a sweep: the
  next sweep comes no later than two intervals after any entry was stored
  (`SweepDue`), which `Store` keeps since a sweep is never more than one interval
  away, and `Sweep` keeps since it removes what is older than one interval.
  For the refinement, `Sweep` is a stutter and `Tick` ends leases; neither
  `Load` nor `All` can tell an expired entry from a missing one.

`App_proofs`, for any finite set of modules and any dependencies, cyclic and
unregistered ones included (`NameAssumption`, `DependsAssumption`,
`ServersAssumption`):

* `TypeCorrect` (`TypeOK`), `StartsInOrder` (`DependencyStartOver`),
  `DependenciesServed` (`DependencyServed`), `StopsInReverse`
  (`StopProtectsDependencies`), `HookSkipsNothing` (`NothingSkipped`).
* These speak of a module and its dependencies, the code only of positions in
  `orderedMods`; the inductive invariant says what holds at each position.
  `OrderInv`: there is a start order exactly from `compileTopology` on. `RunInv`:
  the launched modules are those up to `cur`, and all but the last are over
  (`Over`) and in the registry. `InstanceInv`: a connector that has provided is in
  the registry with its own instance, or was late. `StopInv`: the modules
  stopped are those past `hookIdx`, or none if the hook began before there was
  an order; and a module whose `Stop` was clean had its connection, and cannot
  get another. The positions of a module and of its dependency then give
  the properties. `StopInv` is needed as the hook may begin at any point of
  `Run`: that a dependent holds nothing when its dependency is stopped says
  nothing of what its `Start` may still open.
* `Implements`: `Lifecycle` implements `App`, if `DependsOn` is what the modules'
  slices hold (`DepListAssumption`). The invariant of `Topology_proofs` holds of
  the search, since nothing else assigns to its variables while it runs. An order
  it yields has each module once, so it is as long as there are modules. When
  it fails there is a blocked set (`FailsIffBlocked`), and then there is no
  start order at all: of the set's modules one would stand first, after
  something it depends on, which is of the set, too, or not registered
  (`BlockedMeansNoOrder`, by the least position).
* `LifecycleCorrect`: hence all of the above holds with the search in place.
* `StartedAndStoppedOnce`: no `Start` and no `Stop` is called twice, although the
  hook may run while `Run` still launches modules. It follows from the positions
  in `orderedMods`: the two loops pass each position once, and no module has two.
* `RunComesToItsEnd`, `HookComesToItsEnd`: the measures behind `RunEnds` and
  `StopEnds`. `Run` goes through its stages, then through the modules to
  initialise and to launch, and, at each, from the wait to its end; the
  goroutines, the hook and a signal never give it more to do (`RunKept`). The
  hook goes down from the position it began at, in an order that is no longer
  replaced. `LifecycleComesToItsEnd` says the same of `Run` with the search, whose
  measure is that of `SearchAdvances`.

`Database_proofs`, for every profile that a module of the repository has:

* `OrphansKnown` (`OrphansExplained`), `ProvidedAreUsable` (`ProvidedUsable`),
  `StopsRelease` (`StopReleases`), `ErrorsRetryable` (`ErrorIsRetryable`).
* None of them is inductive. `StartInv` and `StopInv` say what is open, and which
  side has closed it, at every stage of the two; `Stop` may begin at any stage of
  `Start` that follows the assignment of the handle. For `OrphansExplained` the
  stage "unopened" tells a client that gorm left open from one whose check failed.

and for any number of callers, connections and any length of results and
batches, from the assumptions of `Database`:

* The lemma `DatabaseIsConnector` carries the theorems about the connector over:
  callers do not disturb it.
* `TypeCorrect` (`TypesOK`), `ErrorsUndone` (`ErrorMeansUndone`),
  `TransactionsOver` (`TxOver`), `ResultsWhole` (`QueryWhole`).
* `BatchesAtomic` (`ImplementsAtomicBatches`), along the mapping that shows the
  effect of a batch at the moment the server commits it. The inductive
  invariant `CallInv` says, for every call by its stage, what its operation, its
  transaction, the groups it has executed and its effect at the server may be:
  without the stage, an error says nothing about what the server has done.
* `LateCallsEnd`, the measure behind `Bounded`: past its deadline a call takes no
  connection and executes no further group of its batch, and each of its steps
  brings it nearer to its end, of which it is at most two steps away, or, in a
  query, one more than there are rows to scan.
* At every width, of the conversions of `Value`: `Int32ExactHolds`,
  `BoolAgreesHolds`.

`MdnsDiscovery_proofs`, for any number of instances and callers, any capacity:

* `TypeCorrect` (`TypeOK`), `MarkersBacked` (`MarkerBacked`). A marker is backed
  by the queue, by the worker that looks it up, or by a `Find` that has stored the
  marker and not sent it yet (`Backed`). `Phases` adds that the worker is gone only
  once the module is being stopped, after which the property asks nothing.
* `NeverStaleNeverDropped`: what is true where `KeptWhileFresh` is not. `StaledSpec`
  adds a history variable, the instances that have been stale at some time.
  Whatever is with a `Find`, in the queue, with the worker or in `removeCache`
  is among them (`StaledInv`), so a service that has always been heard of within
  `staleAfter` is never dropped.

`Announce_proofs`, for any number of nodes and services and all durations with
`MaxDelay < Period` (one message of a service is on its way at a time):

* `TypeCorrect` (`TypesOK`), `CrashesExplained` (`CrashExplained`),
  `FreshWhenFound` (`Fresh`), by the invariant `IInv`. `StopInv` relates the
  stage of `Stop` to the loop, the client and the caches; `AgeInv` bounds the time
  since a service was published by the age of each message and entry that
  tells of it, one that is being handled included.
* `AnnouncedStaysFound` (`StaysFound`), if `2 * Period + MaxDelay <= CacheTTL`,
  as it is in the code with equality. `RoundInv` says that messages leave exactly
  a `Period` apart, and `LagInv` that an entry is older than the last message by
  a `Period` for each message missed and one for a message on its way. The bound
  is tight: the proof fails, in the step of `Tick`, without `MaxDelay`.
* `StopComesToItsEnd`, the measure behind `StopEnds`: once the context is done,
  `Stop` is at most three steps away from its end and the loop six, which it
  needs if `Start` launches it only now; the ticker cannot fire twice in between,
  as it has a whole period left whenever the loop is not in its select
  (`TickerInv`). The process may end first, as `CrashExplained` says.
* `GoneForgottenInTime`, the bound behind `GoneIsForgotten`: `SilentSpec` adds a
  clock for each publisher, which runs once its loop has left or its process has
  ended. While it runs, nothing makes `pubAge` smaller (`SilentInv`), and by
  `Fresh` no process finds the service for longer than `CacheTTL + MaxDelay`. TLC
  finds a state in which it still does at exactly that time.

`RedisDiscovery_proofs`, for any number of nodes and all durations with
`2 * CmdTimeout < Period` and `CacheTTL > 0`:

* `TypeCorrect` (`TypeOK`), `FreshWhenFound` (`Fresh`). `RoundInv` bounds the age
  of a phase by what is left until the ticker fires, so that the ticker never
  fires within a round. For `Fresh` it is needed, too, that a key whose answer is
  on its way was read within this phase, so that it is older than its time to
  live by no more than the phase's age.
* `FoundStaysFound` (`StaysFound`), if `KeyTTL >= 3 * Period + CmdTimeout` and
  `CacheTTL >= 2 * Period + 2 * CmdTimeout` (`LongEnough`), as in the code, with
  equality for both. `KeyInv` bounds the age of a key by the publishes missed since it
  was set and by what has gone of the publisher's round. `SeenInv` does the same
  for an entry and the refreshes missed; while a round scans, an entry is either
  stored anew or is still `Due`, that is, missed, to be scanned or to be read.
  The first bound is tight: with a `KeyTTL` one command shorter, the proof fails
  where a key has to outlive the third publish (`KeyLives`).
* `CancelledLoopEnds`, `StopWaitsBounded`, behind `StopEnds`: once the context is
  done, the loop has a bounded number of phases, of keys to read and of units of
  time left (`PhasesLeft`, `TimeLeft`), and none is given back. `WaitedSpec`
  adds a clock for the wait of `Stop` for a loop whose context is done, which never
  shows more than two command timeouts: a publish and a refresh, if the ticker
  fired just before. The bound is tight. (A `Stop` that came before `cancel` was
  made may wait longer, until the parent context ends.)

`UnixsockDiscovery_proofs`, for any number of processes, if `None` is not one:

* `NothingIsFound`: finding 5 in general. No packet is ever sent, so no process
  knows anything of another, whatever they do.
* `ServerIsUnique`, `StopsClose`: at most one process serves; a `Stop` that comes
  after the dial closes both sockets although it may panic. `Stages` says which
  sockets there are at each stage of `Start` and `Stop`: without it, a `Stop` might
  give up the address of another process.

Every invariant of a passing run is thus a theorem, but for `FindNeverBlocks` of
`MdnsDiscovery`, which says that an action is `ENABLED`. Of the liveness
properties `Terminates`, `RunEnds`, the two `StopEnds`, `Bounded` and
`GoneIsForgotten`, the part that is about steps is proved, as a measure that
steps lessen or a bound on time; that these steps are taken, which needs fairness,
stays with TLC, as does all of `ServedIsFound` and the fairness in
`ImplementsStartOrder` and `ImplementsApp`, of which the safety part is proved.
`ENABLED` and liveness are beyond the prover. The laws of `Address` have no
parameter: TLC goes through all shapes of addresses when it starts, which leaves
nothing to prove. No passing run has `UnixsockDiscovery`: what it guarantees is
proved, and its one run shows what fails.

History variables of the proof modules (`waited`, `silent`, `staled`) only record:
each specification that adds one conjoins its update to the next-state relation
and leaves every step of the system possible.

## 6. What is not modelled

* `Write` of the two broker modules and the use of their clients: a single call
  of the client library, with nothing of the module's own changed.
* `Register` of mdns: it hands the service to zeroconf, which announces it, and
  keeps the server for `Stop` to shut down. `Find` does not read it.
* `Start` and `Stop` of `service/tcp`: its `Stop` has no parameter, so it does not
  implement `framework.Module` and cannot be registered. Its address is
  modelled (module `Address`).
* Conversions between text and times, floats or JSON (`TryTime`, `TryFloat64`,
  `JSON` and the like), configuration, logging, TLS and command-line flags:
  no concurrency and no state.
* zeroconf, the redis server, the brokers, the databases' drivers and servers,
  go-cmd and the client libraries are external: their outcomes are
  nondeterministic. In particular zeroconf may close mdns's channel of entries at
  any time (`ConsumerLeaves`); that it, or the consumer, may close it twice is not
  modelled.
* `framework/module.go:33` says that `Init` may get dependencies from the
  registry; `Run` calls all `Init`s before anything is provided and in
  arbitrary order. No module of the repository tries.

* `NewApp` with an unreadable configuration (app.go:93-95): there is then no
  application. An mdns `Start` that gets no resolver (mdns.go:75) starts nothing.
* The use of a stopped discovery module by callers on other goroutines: `Find`,
  `Register` and `Health` of redis and mqtt dereference nil in the caller.
* A SET that redis carries out after its context has ended in the client, which
  would keep a key of a process that has stopped for up to `KeyTTL` once more.

## 7. Status

The modules of section 2 are complete, with the runs of section 3 and the proofs
of section 5. A change of the code that touches the following should come with a
change of the model:

* a `sendRegisterPacket` of unixsock discovery that uses `Write`: packets are then
  sent, `NothingIsFound` is no longer true, and `RegisteredIsFound` becomes a
  property to check while the server runs, and after its end;
* a `service/tcp` whose `Stop` takes the context: it becomes a module like
  `service/http`, and `Announce` covers both;
* anything that withdraws a service at its end: `GoneForgottenInTime` is then far
  from tight.
