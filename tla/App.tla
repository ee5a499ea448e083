-------------------------------- MODULE App ---------------------------------
(***************************************************************************)
(* The framework's application lifecycle (framework/app.go): NewApp,       *)
(* Register, Run with one Start goroutine per module, the registry of      *)
(* instances (Provide, Get), and the AfterStop hook, which a signal or     *)
(* cmd.Exit may start at any moment, concurrently with Run.                *)
(*                                                                         *)
(* compileTopology is one step here; module Lifecycle puts the search of   *)
(* module Topology in its place, and implements this specification.        *)
(*                                                                         *)
(* The modules' own Start and Stop are modelled by the shapes they have in *)
(* db/, mq/, discovery/ and service/: a connector opens its resource,      *)
(* provides an instance and returns; a server (Servers) opens its listener *)
(* and blocks until it is stopped, when ListenAndServe returns an error.   *)
(***************************************************************************)
EXTENDS Naturals, Sequences, FiniteSets

CONSTANTS
  Name,                 \* module names (a name is registered at most once)
  DependsOn,            \* DependsOn[n]: the names n declares
  Servers               \* the modules whose Start blocks

ASSUME NameAssumption == IsFiniteSet(Name)
ASSUME DependsAssumption == DependsOn \in [Name -> SUBSET Name]
ASSUME ServersAssumption == Servers \subseteq Name

VARIABLES
  pc,                   \* where the main goroutine is
  modules,              \* keys of App.modules
  inited,               \* modules whose Init returned nil
  orderedMods,          \* App.orderedMods
  cur,                  \* index of Run's loop over orderedMods
  waitDone,             \* is the context Run waits on done?
  late,                 \* modules whose 2 s wait ran out before their Start ended
  task,                 \* the goroutine that calls mod.Start
  live,                 \* does the module hold its connection or listener?
  instances,            \* App.instances: "none", "own" or "module"
  cancelled,            \* is App.ctx cancelled?
  hook,                 \* the AfterStop hook: "idle", "running" or "done"
  hookIdx,              \* its loop variable, as a position in orderedMods
  stop,                 \* how mod.Stop went: "no", "early", "clean" or "failed"
  exiting,              \* has cmd.Exit been called?
  alive                 \* the process has not ended

mainVars == <<pc, modules, inited, orderedMods, cur, waitDone, late>>
taskVars == <<task, live>>
hookVars == <<cancelled, hook, hookIdx, stop>>
vars == <<mainVars, taskVars, instances, hookVars, exiting, alive>>

Elems(s) == { s[i] : i \in 1..Len(s) }

\* The module Run is starting.
Current == orderedMods[cur]

Init ==
  /\ pc = "new"
  /\ modules = {}
  /\ inited = {}
  /\ orderedMods = <<>>
  /\ cur = 0
  /\ waitDone = FALSE
  /\ late = {}
  /\ task = [n \in Name |-> "none"]
  /\ live = [n \in Name |-> FALSE]
  /\ instances = [n \in Name |-> "none"]
  /\ cancelled = FALSE
  /\ hook = "idle"
  /\ hookIdx = 0
  /\ stop = [n \in Name |-> "no"]
  /\ exiting = FALSE
  /\ alive = TRUE

-----------------------------------------------------------------------------
(* The main goroutine: NewApp, Register, Run *)

\* NewApp returns the App; its deferred cancel() runs as it returns.
NewApp ==
  /\ alive /\ pc = "new"
  /\ pc' = "config"
  /\ cancelled' = TRUE
  /\ UNCHANGED <<modules, inited, orderedMods, cur, waitDone, late, taskVars, instances,
                 hook, hookIdx, stop, exiting, alive>>

\* The program registers modules, any number of times, before it calls Run.
Register(mods) ==
  /\ alive /\ pc = "config"
  /\ modules' = modules \cup mods
  /\ UNCHANGED <<pc, inited, orderedMods, cur, waitDone, late, taskVars, instances,
                 hookVars, exiting, alive>>

CallRun ==
  /\ alive /\ pc = "config"
  /\ pc' = "init"
  /\ UNCHANGED <<modules, inited, orderedMods, cur, waitDone, late, taskVars, instances,
                 hookVars, exiting, alive>>

\* Run's first loop: Init of every module, in the map's order; the first
\* error ends Run.
InitModule(n) ==
  /\ alive /\ pc = "init"
  /\ n \in modules \ inited
  /\ \/ inited' = inited \cup {n} /\ UNCHANGED pc
     \/ pc' = "failed" /\ UNCHANGED inited
  /\ UNCHANGED <<modules, orderedMods, cur, waitDone, late, taskVars, instances,
                 hookVars, exiting, alive>>

\* A start order: every registered module once, after its dependencies.
IsStartOrder(s) ==
  /\ Elems(s) = modules
  /\ \A i, j \in 1..Len(s) : s[i] = s[j] => i = j
  /\ \A i \in 1..Len(s) : \A d \in DependsOn[s[i]] : \E j \in 1..(i - 1) : s[j] = d

StartOrders == { s \in [1..Cardinality(modules) -> modules] : IsStartOrder(s) }

\* compileTopology: an order if there is one, else an error that ends Run.
CompileTopology ==
  /\ alive /\ pc = "init"
  /\ inited = modules
  /\ IF StartOrders = {}
       THEN pc' = "failed" /\ UNCHANGED orderedMods
       ELSE pc' = "start" /\ orderedMods' \in StartOrders
  /\ UNCHANGED <<modules, inited, cur, waitDone, late, taskVars, instances,
                 hookVars, exiting, alive>>

\* Run's second loop: a fresh 2 s context and a goroutine for the next module.
Launch ==
  /\ alive /\ pc = "start"
  /\ cur < Len(orderedMods)
  /\ cur' = cur + 1
  /\ task' = [task EXCEPT ![orderedMods[cur + 1]] = "connecting"]
  /\ waitDone' = FALSE
  /\ pc' = "wait"
  /\ UNCHANGED <<modules, inited, orderedMods, late, live, instances, hookVars, exiting, alive>>

RunReturns ==
  /\ alive /\ pc = "start"
  /\ cur = Len(orderedMods)
  /\ pc' = "done"
  /\ UNCHANGED <<modules, inited, orderedMods, cur, waitDone, late, taskVars, instances,
                 hookVars, exiting, alive>>

\* (variant: the context has no deadline)
NoTimeout == FALSE /\ UNCHANGED vars

\* The 2 s run out while Run still waits.
Timeout ==
  /\ alive /\ pc = "wait"
  /\ ~waitDone
  /\ waitDone' = TRUE
  /\ late' = late \cup {Current}
  /\ UNCHANGED <<pc, modules, inited, orderedMods, cur, taskVars, instances, hookVars,
                 exiting, alive>>

\* (variant: Run does not wait)
NoWait ==
  /\ alive /\ pc = "wait"
  /\ pc' = IF instances[Current] = "none" THEN "provide" ELSE "start"
  /\ UNCHANGED <<modules, inited, orderedMods, cur, waitDone, late, taskVars, instances,
                 hookVars, exiting, alive>>

\* <-ctx.Done() is over: Run looks the module's instance up ...
CheckInstance ==
  /\ alive /\ pc = "wait"
  /\ waitDone
  /\ pc' = IF instances[Current] = "none" THEN "provide" ELSE "start"
  /\ UNCHANGED <<modules, inited, orderedMods, cur, waitDone, late, taskVars, instances,
                 hookVars, exiting, alive>>

\* (variant: a module that provides nothing is left out of the registry)
ProvideNothing ==
  /\ alive /\ pc = "provide"
  /\ pc' = "start"
  /\ UNCHANGED <<modules, inited, orderedMods, cur, waitDone, late, taskVars, instances,
                 hookVars, exiting, alive>>

\* ... and, if it found none, provides the module itself.
ProvideModule ==
  /\ alive /\ pc = "provide"
  /\ instances' = [instances EXCEPT ![Current] = "module"]
  /\ pc' = "start"
  /\ UNCHANGED <<modules, inited, orderedMods, cur, waitDone, late, taskVars,
                 hookVars, exiting, alive>>

-----------------------------------------------------------------------------
(* The goroutine that calls mod.Start *)

Starting(n) == alive /\ task[n] \in {"connecting", "connected"}

\* Start opens the module's connection or listener.
Connect(n) ==
  /\ alive /\ task[n] = "connecting"
  /\ task' = [task EXCEPT ![n] = "connected"]
  /\ live' = [live EXCEPT ![n] = TRUE]
  /\ UNCHANGED <<mainVars, instances, hookVars, exiting, alive>>

\* A connector calls ctx.Provide ...
Provide(n) ==
  /\ alive /\ task[n] = "connected" /\ n \notin Servers
  /\ task' = [task EXCEPT ![n] = "provided"]
  /\ instances' = [instances EXCEPT ![n] = "own"]
  /\ UNCHANGED <<mainVars, live, hookVars, exiting, alive>>

\* cancel() of the context Run made for n; it has no effect once Run moved on.
CancelWait(n) == waitDone' = (waitDone \/ (pc = "wait" /\ n = Current))

\* ... and returns nil.
StartReturns(n) ==
  /\ alive /\ task[n] = "provided"
  /\ task' = [task EXCEPT ![n] = "ok"]
  /\ CancelWait(n)
  /\ UNCHANGED <<pc, modules, inited, orderedMods, cur, late, live, instances, hookVars,
                 exiting, alive>>

\* Start returns an error: the connection failed, or a server's listener was
\* closed by Stop (ListenAndServe never returns nil).  The goroutine is then
\* inside cmd.Exit(1), before cancel().
StartFails(n) ==
  /\ alive
  /\ \/ task[n] = "connecting"
     \/ task[n] = "connected" /\ n \in Servers /\ ~live[n]
  /\ task' = [task EXCEPT ![n] = "failing"]
  /\ exiting' = TRUE
  /\ UNCHANGED <<mainVars, live, instances, hookVars, alive>>

\* Start panics: recovered, cmd.Exit(1) is called, cancel() never is.
StartPanics(n) ==
  /\ Starting(n)
  /\ task' = [task EXCEPT ![n] = "panicked"]
  /\ exiting' = TRUE
  /\ UNCHANGED <<mainVars, live, instances, hookVars, alive>>

\* cmd.Exit, should it return, lets the goroutine of a failed Start cancel the wait.
ExitReturns(n) ==
  /\ alive /\ task[n] = "failing"
  /\ task' = [task EXCEPT ![n] = "failed"]
  /\ CancelWait(n)
  /\ UNCHANGED <<pc, modules, inited, orderedMods, cur, late, live, instances, hookVars,
                 exiting, alive>>

-----------------------------------------------------------------------------
(* The AfterStop hook, and the end of the process *)

\* (variant: the loop variable starts one past the last module)
BeginStopPastEnd ==
  /\ alive /\ pc # "new"
  /\ hook = "idle"
  /\ hook' = "running"
  /\ cancelled' = TRUE
  /\ hookIdx' = Len(orderedMods) + 1
  /\ UNCHANGED <<mainVars, taskVars, instances, stop, exiting, alive>>

\* go-cmd runs the hook once: on a signal, or because cmd.Exit was called.
BeginStop ==
  /\ alive /\ pc # "new"
  /\ hook = "idle"
  /\ hook' = "running"
  /\ cancelled' = TRUE
  /\ hookIdx' = Len(orderedMods)
  /\ UNCHANGED <<mainVars, taskVars, instances, stop, exiting, alive>>

\* How a call of mod.Stop can go.  A module that holds nothing (not started,
\* still starting, or failed) returns at once; the others release what they
\* hold, or report an error or panic and may keep it.
StopResult(n, how, keeps) ==
  IF ~live[n]
    THEN how = "early" /\ keeps = FALSE
    ELSE how = "failed" \/ (how = "clean" /\ keeps = FALSE)

\* (variant: the loop runs forwards)
StopForwards ==
  /\ alive /\ hook = "running" /\ hookIdx > 0
  /\ LET n == orderedMods[Len(orderedMods) + 1 - hookIdx] IN
       \E how \in {"early", "clean", "failed"}, keeps \in BOOLEAN :
         /\ StopResult(n, how, keeps)
         /\ live' = [live EXCEPT ![n] = keeps]
         /\ stop' = [stop EXCEPT ![n] = how]
  /\ hookIdx' = hookIdx - 1
  /\ UNCHANGED <<mainVars, task, instances, cancelled, hook, exiting, alive>>

\* (variant: the first Stop that fails ends the loop)
StopUnguarded ==
  /\ alive /\ hook = "running" /\ hookIdx > 0
  /\ LET n == orderedMods[hookIdx] IN
       \E how \in {"early", "clean", "failed"}, keeps \in BOOLEAN :
         /\ StopResult(n, how, keeps)
         /\ live' = [live EXCEPT ![n] = keeps]
         /\ stop' = [stop EXCEPT ![n] = how]
         /\ hookIdx' = IF how = "failed" THEN 0 ELSE hookIdx - 1
  /\ UNCHANGED <<mainVars, task, instances, cancelled, hook, exiting, alive>>

\* (variant: the hook waits for a module's Start to end before it calls Stop)
StopAwaitsStart ==
  /\ alive /\ hook = "running" /\ hookIdx > 0
  /\ task[orderedMods[hookIdx]] \notin {"connecting", "connected", "provided"}
  /\ LET n == orderedMods[hookIdx] IN
       \E how \in {"early", "clean", "failed"}, keeps \in BOOLEAN :
         /\ StopResult(n, how, keeps)
         /\ live' = [live EXCEPT ![n] = keeps]
         /\ stop' = [stop EXCEPT ![n] = how]
  /\ hookIdx' = hookIdx - 1
  /\ UNCHANGED <<mainVars, task, instances, cancelled, hook, exiting, alive>>

\* One iteration of the hook's loop, from the last module to the first; an
\* error is logged, a panic recovered, and the loop goes on.
StopModule ==
  /\ alive /\ hook = "running" /\ hookIdx > 0
  /\ LET n == orderedMods[hookIdx] IN
       \E how \in {"early", "clean", "failed"}, keeps \in BOOLEAN :
         /\ StopResult(n, how, keeps)
         /\ live' = [live EXCEPT ![n] = keeps]
         /\ stop' = [stop EXCEPT ![n] = how]
  /\ hookIdx' = hookIdx - 1
  /\ UNCHANGED <<mainVars, task, instances, cancelled, hook, exiting, alive>>

EndStop ==
  /\ alive /\ hook = "running" /\ hookIdx = 0
  /\ hook' = "done"
  /\ UNCHANGED <<mainVars, taskVars, instances, cancelled, hookIdx, stop, exiting, alive>>

\* The process ends after the hook, or anywhere inside cmd.Exit.
EndProcess ==
  /\ alive
  /\ hook = "done" \/ exiting
  /\ alive' = FALSE
  /\ UNCHANGED <<mainVars, taskVars, instances, hookVars, exiting>>

-----------------------------------------------------------------------------
\* Run without compileTopology, which module Lifecycle has step by step.
RunStep ==
  \/ NewApp
  \/ CallRun
  \/ \E n \in Name : InitModule(n)
  \/ Launch
  \/ Timeout
  \/ CheckInstance
  \/ ProvideModule
  \/ RunReturns

Main == RunStep \/ CompileTopology

Task(n) ==
  \/ Connect(n)
  \/ Provide(n)
  \/ StartReturns(n)
  \/ StartFails(n)
  \/ StartPanics(n)
  \/ ExitReturns(n)

Hook == StopModule \/ EndStop

\* What the rest of the program, the other goroutines and the system do.
Around ==
  \/ \E mods \in SUBSET Name : Register(mods)
  \/ \E n \in Name : Task(n)
  \/ BeginStop
  \/ Hook
  \/ EndProcess

Next == Main \/ Around

Spec == Init /\ [][Next]_vars

\* The main goroutine and the hook are scheduled, Init and Stop return, and a
\* 2 s timer fires.  Nothing obliges a Start to make progress or a signal to come.
FairSpec == Spec /\ WF_vars(Main) /\ WF_vars(Hook)

-----------------------------------------------------------------------------
(* Properties *)

TypeOK ==
  /\ pc \in {"new", "config", "init", "start", "wait", "provide", "done", "failed"}
  /\ modules \in SUBSET Name
  /\ inited \in SUBSET modules
  /\ orderedMods \in Seq(modules)
  /\ cur \in 0..Len(orderedMods)
  /\ pc \in {"wait", "provide"} => cur >= 1
  /\ waitDone \in BOOLEAN
  /\ late \in SUBSET modules
  /\ task \in [Name -> {"none", "connecting", "connected", "provided", "ok", "failing",
                        "failed", "panicked"}]
  /\ live \in [Name -> BOOLEAN]
  /\ instances \in [Name -> {"none", "own", "module"}]
  /\ cancelled \in BOOLEAN
  /\ hook \in {"idle", "running", "done"}
  /\ hookIdx \in 0..Len(orderedMods)
  /\ stop \in [Name -> {"no", "early", "clean", "failed"}]
  /\ exiting \in BOOLEAN
  /\ alive \in BOOLEAN

Launched(n) == task[n] # "none"

\* Get never misses for a dependency once the dependent's Start is running,
\* even if the dependency failed or is still starting; and unless Run gave up
\* waiting for a connector it is the connector's own instance that Get returns
\* (Run's fallback, app.go:196).
DependencyServed ==
  \A n \in Name : \A d \in DependsOn[n] :
    Launched(n) =>
      /\ instances[d] # "none"
      /\ d \notin Servers /\ d \notin late /\ task[d] = "ok" => instances[d] = "own"

\* A module is launched only when the Start of each of its dependencies has
\* ended or has used up its 2 s (app.go:179-195): the exact extent to which
\* "wait until the current module has started" holds.
DependencyStartOver ==
  \A n \in Name : \A d \in DependsOn[n] :
    Launched(n) => task[d] \in {"ok", "failed"} \/ d \in late

\* By the time the hook calls a module's Stop, no module depending on it holds
\* its connection, unless its own Stop came before it had one (a Start still in
\* progress, or not yet launched) or failed (app.go:71-85).
StopProtectsDependencies ==
  \A n \in Name : \A d \in DependsOn[n] :
    stop[d] # "no" /\ live[n] => stop[n] \in {"early", "failed"}

\* One failing or panicking Stop does not keep the hook from the others: what
\* is left open when it is done was stopped too early or failed to stop,
\* or the hook began before there was an order to go through (app.go:72-85).
NothingSkipped ==
  hook = "done" =>
    \A n \in Name :
      live[n] => stop[n] \in {"early", "failed"} \/ \A m \in Name : stop[m] = "no"

\* Run returns even if a Start never does or panics, unless the process ends
\* first (app.go:180, :195).
RunEnds == <>(pc \in {"done", "failed"} \/ ~alive)

\* The hook gets through all modules unless cmd.Exit ends the process first.
StopEnds == (hook = "running") ~> (hook = "done" \/ ~alive)

\* What app.go:70 says of the global context: it is cancelled by the hook, to
\* tell the modules to shut down.
CancelledOnlyToStop == cancelled => hook # "idle"

\* What app.go:195 says: the next module is started only when the modules it
\* depends on have started.
WaitsForDependencies ==
  \A n \in Name : \A d \in DependsOn[n] :
    Launched(n) => task[d] \notin {"connecting", "connected", "provided"}

\* What app.go:196 says: the module itself is provided only if it has not
\* provided an instance of its own.
OwnInstanceKept ==
  [][\A n \in Name : instances[n] = "own" => instances'[n] = "own"]_vars
=============================================================================
