------------------------------ MODULE App_proofs ------------------------------
(***************************************************************************)
(* The application for any set of modules and any dependencies: what its   *)
(* order of starting and stopping guarantees (module App), and that the    *)
(* search of module Topology finds that order (module Lifecycle).          *)
(***************************************************************************)
EXTENDS Lifecycle, SequenceTheorems, FiniteSetTheorems, WellFoundedInduction, TLAPS

-----------------------------------------------------------------------------
(* The inductive invariant *)

\* Run starts modules only once there is an order, which then stays.
OrderInv ==
  /\ pc \in {"new", "config", "init", "failed"} => orderedMods = <<>>
  /\ pc \in {"start", "wait", "provide", "done"} => IsStartOrder(orderedMods)

\* What Run waits for: the end of n's Start, or of its 2 s.
Over(n) == n \in late \/ task[n] \in {"ok", "failed"}

\* Modules are launched in order, each when Run is through with the one before.
RunInv ==
  /\ \A n \in Name : Launched(n) <=> \E i \in 1..cur : orderedMods[i] = n
  /\ pc = "wait" /\ waitDone => Over(Current)
  /\ pc = "provide" => Current \in late \/ task[Current] = "failed"
  /\ \A i \in 1..cur : i < cur \/ pc \in {"start", "done"} =>
       /\ Over(orderedMods[i])
       /\ instances[orderedMods[i]] # "none"

\* The registry holds what a connector provided, unless it provided late.
InstanceInv ==
  \A n \in Name :
    task[n] \in {"provided", "ok"} => n \notin Servers /\ (instances[n] = "own" \/ n \in late)

\* The hook has called Stop of the modules past its index, or of none because
\* there was no order yet when it began; a clean Stop is of a module that had
\* its connection and will not get another one.
StopInv ==
  /\ hook = "idle" => \A n \in Name : stop[n] = "no"
  /\ hook = "done" => hookIdx = 0
  /\ \A n \in Name : stop[n] # "no" =>
       \E i \in 1..Len(orderedMods) : i > hookIdx /\ orderedMods[i] = n
  /\ hook # "idle" =>
       \/ \A i \in 1..Len(orderedMods) : i > hookIdx => stop[orderedMods[i]] # "no"
       \/ hookIdx = 0 /\ \A n \in Name : stop[n] = "no"
  /\ \A n \in Name :
       /\ live[n] => task[n] \notin {"none", "connecting"}
       /\ stop[n] = "clean" => ~live[n] /\ task[n] \notin {"none", "connecting"}

IInv == TypeOK /\ OrderInv /\ RunInv /\ InstanceInv /\ StopInv

-----------------------------------------------------------------------------
(* Positions in the order *)

LEMMA Positions ==
  ASSUME TypeOK
  PROVE  /\ Len(orderedMods) \in Nat
         /\ \A i \in 1..Len(orderedMods) : orderedMods[i] \in modules /\ orderedMods[i] \in Name
         /\ cur \in Nat /\ hookIdx \in Nat
         /\ cur <= Len(orderedMods) /\ hookIdx <= Len(orderedMods)
         /\ pc \in {"wait", "provide"} =>
              cur \in 1..Len(orderedMods) /\ Current \in modules /\ Current \in Name
<1>1. orderedMods \in Seq(modules) /\ modules \subseteq Name
  BY DEF TypeOK
<1>2. PICK len \in Nat : len = Len(orderedMods)
  BY <1>1, LenProperties
<1>3. \A i \in 1..len : orderedMods[i] \in modules
  BY <1>1, <1>2, ElementOfSeq
<1>4. cur \in 0..len /\ hookIdx \in 0..len /\ (pc \in {"wait", "provide"} => cur >= 1)
  BY <1>2 DEF TypeOK
<1>. QED  BY <1>1, <1>2, <1>3, <1>4 DEF Current

\* A start order has each module of the registry once, and its dependencies
\* before it.
LEMMA OrderProperties ==
  ASSUME NEW s, IsStartOrder(s)
  PROVE  /\ \A i \in 1..Len(s) : s[i] \in modules
         /\ \A i, j \in 1..Len(s) : s[i] = s[j] => i = j
         /\ \A i \in 1..Len(s) : \A d \in DependsOn[s[i]] : \E j \in 1..(i - 1) : s[j] = d
BY DEF IsStartOrder, Elems

\* compileTopology's orders are sequences of modules.
LEMMA OrdersAreSequences ==
  ASSUME TypeOK, NEW s \in StartOrders
  PROVE  s \in Seq(modules) /\ IsStartOrder(s)
<1>1. IsFiniteSet(modules)
  BY NameAssumption, FS_Subset DEF TypeOK
<1>2. Cardinality(modules) \in Nat
  BY <1>1, FS_CardinalityType
<1>3. s \in [1..Cardinality(modules) -> modules]
  BY DEF StartOrders
<1>. QED  BY <1>2, <1>3, IsASeq DEF StartOrders

-----------------------------------------------------------------------------
(* Type correctness *)

LEMMA TypeMain ==
  ASSUME TypeOK, OrderInv, Main \/ \E mods \in SUBSET Name : Register(mods)
  PROVE  TypeOK'
<1>1. CASE NewApp
  BY <1>1 DEF NewApp, TypeOK, mainVars, taskVars
<1>2. ASSUME NEW mods \in SUBSET Name, Register(mods)
      PROVE  TypeOK'
  <2>1. orderedMods = <<>> /\ orderedMods' \in Seq(modules')
    BY <1>2, EmptySeq DEF OrderInv, Register
  <2>. QED  BY <1>2, <2>1 DEF Register, TypeOK, hookVars, taskVars
<1>3. CASE CallRun
  BY <1>3 DEF CallRun, TypeOK, hookVars, taskVars
<1>4. ASSUME NEW n \in Name, InitModule(n)
      PROVE  TypeOK'
  BY <1>4 DEF InitModule, TypeOK, hookVars, taskVars
<1>5. CASE CompileTopology
  <2>1. CASE StartOrders = {}
    BY <1>5, <2>1 DEF CompileTopology, TypeOK, hookVars, taskVars
  <2>2. CASE StartOrders # {}
    <3>1. orderedMods' \in Seq(modules') /\ modules' = modules /\ pc' = "start"
      BY <1>5, <2>2, OrdersAreSequences DEF CompileTopology
    <3>2. cur = 0 /\ hookIdx = 0
      BY <1>5 DEF CompileTopology, TypeOK, OrderInv
    <3>3. cur' \in 0..Len(orderedMods') /\ hookIdx' \in 0..Len(orderedMods')
      BY <1>5, <3>1, <3>2, LenProperties DEF CompileTopology, hookVars
    <3>. QED  BY <1>5, <3>1, <3>3 DEF CompileTopology, TypeOK, hookVars, taskVars
  <2>. QED  BY <2>1, <2>2
<1>6. CASE Launch
  <2>1. cur' \in 0..Len(orderedMods') /\ cur' >= 1
    BY <1>6, Positions DEF Launch
  <2>. QED  BY <1>6, <2>1 DEF Launch, TypeOK, hookVars
<1>7. CASE Timeout
  BY <1>7, Positions DEF Timeout, TypeOK, hookVars, taskVars
<1>8. CASE CheckInstance
  BY <1>8 DEF CheckInstance, TypeOK, hookVars, taskVars
<1>9. CASE ProvideModule
  BY <1>9 DEF ProvideModule, TypeOK, hookVars, taskVars
<1>10. CASE RunReturns
  BY <1>10 DEF RunReturns, TypeOK, hookVars, taskVars
<1>. QED  BY <1>1, <1>2, <1>3, <1>4, <1>5, <1>6, <1>7, <1>8, <1>9, <1>10 DEF Main, RunStep

LEMMA TypeTask ==
  ASSUME TypeOK, NEW n \in Name, Task(n)
  PROVE  TypeOK'
<1>. USE DEF mainVars, hookVars, CancelWait
<1>1. CASE Connect(n)
  BY <1>1 DEF Connect, TypeOK
<1>2. CASE Provide(n)
  BY <1>2 DEF Provide, TypeOK
<1>3. CASE StartReturns(n)
  BY <1>3 DEF StartReturns, TypeOK
<1>4. CASE StartFails(n)
  BY <1>4 DEF StartFails, TypeOK
<1>5. CASE StartPanics(n)
  BY <1>5 DEF StartPanics, TypeOK
<1>6. CASE ExitReturns(n)
  BY <1>6 DEF ExitReturns, TypeOK
<1>. QED  BY <1>1, <1>2, <1>3, <1>4, <1>5, <1>6 DEF Task

LEMMA TypeHook ==
  ASSUME TypeOK, BeginStop \/ Hook \/ EndProcess
  PROVE  TypeOK'
<1>. USE DEF mainVars, taskVars
<1>1. CASE BeginStop
  <2>1. hookIdx' \in 0..Len(orderedMods')
    BY <1>1, Positions DEF BeginStop
  <2>. QED  BY <1>1, <2>1 DEF BeginStop, TypeOK
<1>2. CASE StopModule
  <2>1. hookIdx' \in 0..Len(orderedMods')
    BY <1>2, Positions DEF StopModule
  <2>2. live' \in [Name -> BOOLEAN] /\ stop' \in [Name -> {"no", "early", "clean", "failed"}]
    BY <1>2 DEF StopModule, TypeOK
  <2>. QED  BY <1>2, <2>1, <2>2 DEF StopModule, TypeOK
<1>3. CASE EndStop
  BY <1>3 DEF EndStop, TypeOK
<1>4. CASE EndProcess
  BY <1>4 DEF EndProcess, TypeOK, hookVars
<1>. QED  BY <1>1, <1>2, <1>3, <1>4 DEF Hook

-----------------------------------------------------------------------------
(* The steps of Run *)

\* Steps that neither launch a module nor touch what the hook reads and writes.
LEMMA StopUnchanged ==
  ASSUME StopInv, UNCHANGED <<hook, hookIdx, stop, live, task, orderedMods>>
  PROVE  StopInv'
BY DEF StopInv

LEMMA OrderUnchanged ==
  ASSUME OrderInv, UNCHANGED <<pc, modules, orderedMods>>
  PROVE  OrderInv'
BY DEF OrderInv, IsStartOrder, Elems

\* Before there is an order nothing is launched and nothing stopped.
LEMMA BeforeOrder ==
  ASSUME TypeOK, OrderInv, RunInv, StopInv, pc \in {"new", "config", "init", "failed"}
  PROVE  /\ orderedMods = <<>> /\ Len(orderedMods) = 0 /\ cur = 0 /\ hookIdx = 0
         /\ \A n \in Name : task[n] = "none" /\ stop[n] = "no"
<1>1. orderedMods = <<>> /\ Len(orderedMods) = 0
  BY DEF OrderInv
<1>2. cur = 0 /\ hookIdx = 0
  BY <1>1 DEF TypeOK
<1>3. ASSUME NEW n \in Name
      PROVE  task[n] = "none" /\ stop[n] = "no"
  BY <1>1, <1>2 DEF RunInv, StopInv, Launched
<1>. QED  BY <1>1, <1>2, <1>3

LEMMA InitSteps ==
  ASSUME IInv,
         \/ NewApp \/ CallRun
         \/ \E n \in Name : InitModule(n)
         \/ \E mods \in SUBSET Name : Register(mods)
  PROVE  OrderInv' /\ RunInv' /\ InstanceInv' /\ StopInv'
<1>. USE DEF IInv, hookVars, taskVars
<1>1. /\ pc \in {"new", "config", "init"} /\ pc' \in {"config", "init", "failed"}
      /\ UNCHANGED <<orderedMods, cur, waitDone, late, task, live, instances>>
      /\ UNCHANGED <<hook, hookIdx, stop>>
  BY DEF NewApp, CallRun, InitModule, Register
<1>2. /\ orderedMods = <<>> /\ cur = 0
      /\ \A n \in Name : task[n] = "none"
  BY <1>1, BeforeOrder
<1>3. OrderInv'
  BY <1>1, <1>2 DEF OrderInv
<1>4. RunInv'
  BY <1>1, <1>2 DEF RunInv, Launched
<1>5. InstanceInv'
  BY <1>1 DEF InstanceInv
<1>. QED  BY <1>1, <1>3, <1>4, <1>5, StopUnchanged

\* An order is found, whether or not the hook has begun: if it has, it will
\* stop none of the modules.
LEMMA CompileInv ==
  ASSUME IInv, CompileTopology
  PROVE  OrderInv' /\ RunInv' /\ InstanceInv' /\ StopInv'
<1>. USE DEF IInv, CompileTopology, hookVars, taskVars
<1>1. /\ orderedMods = <<>> /\ cur = 0 /\ hookIdx = 0
      /\ \A n \in Name : task[n] = "none" /\ stop[n] = "no"
  BY BeforeOrder
<1>2. OrderInv'
  <2>1. CASE StartOrders = {}
    BY <1>1, <2>1 DEF OrderInv
  <2>2. CASE StartOrders # {}
    <3>1. IsStartOrder(orderedMods') /\ modules' = modules /\ pc' = "start"
      BY <2>2, OrdersAreSequences
    <3>2. IsStartOrder(orderedMods)'
      BY <3>1 DEF IsStartOrder, Elems
    <3>. QED  BY <3>1, <3>2 DEF OrderInv
  <2>. QED  BY <2>1, <2>2
<1>3. pc' \in {"failed", "start"}
  OBVIOUS
<1>4. RunInv'
  BY <1>1, <1>3 DEF RunInv, Launched
<1>5. InstanceInv'
  BY DEF InstanceInv
<1>6. StopInv'
  BY <1>1 DEF StopInv, TypeOK
<1>. QED  BY <1>2, <1>4, <1>5, <1>6

LEMMA LaunchInv ==
  ASSUME IInv, Launch
  PROVE  OrderInv' /\ RunInv' /\ InstanceInv' /\ StopInv'
<1>. USE DEF IInv
<1>. DEFINE n == orderedMods[cur + 1]
<1>1. /\ pc = "start" /\ pc' = "wait"
      /\ cur < Len(orderedMods) /\ cur' = cur + 1
      /\ task' = [task EXCEPT ![n] = "connecting"]
      /\ waitDone' = FALSE
      /\ UNCHANGED <<modules, orderedMods, late, live, instances, hook, hookIdx, stop>>
  BY DEF Launch, hookVars
<1>2. /\ cur \in Nat /\ Len(orderedMods) \in Nat
      /\ cur + 1 \in 1..Len(orderedMods)
      /\ \A i \in 1..cur : i \in 1..Len(orderedMods) /\ i # cur + 1
      /\ n \in Name
  BY <1>1, Positions
<1>. HIDE DEF n
<1>3. /\ IsStartOrder(orderedMods)
      /\ \A i \in 1..cur : orderedMods[i] # n
  BY <1>1, <1>2, OrderProperties DEF OrderInv, n
<1>4. task[n] = "none"
  BY <1>2, <1>3 DEF RunInv, Launched
<1>5. task \in [Name -> {"none", "connecting", "connected", "provided", "ok", "failing",
                         "failed", "panicked"}]
  BY DEF TypeOK
<1>6. OrderInv'
  BY <1>1, <1>3 DEF OrderInv, IsStartOrder, Elems
<1>7. RunInv'
  <2>1. ASSUME NEW m \in Name
        PROVE  Launched(m)' <=> \E i \in 1..(cur + 1) : orderedMods[i] = m
    <3>1. CASE m = n
      BY <3>1, <1>1, <1>2, <1>5 DEF Launched, n
    <3>2. CASE m # n
      <4>1. Launched(m)' <=> Launched(m)
        BY <3>2, <1>1, <1>5 DEF Launched
      <4>2. Launched(m) <=> \E i \in 1..cur : orderedMods[i] = m
        BY DEF RunInv
      <4>3. ASSUME NEW i \in 1..(cur + 1), orderedMods[i] = m
            PROVE  i \in 1..cur
        BY <3>2, <4>3, <1>2 DEF n
      <4>. QED  BY <4>1, <4>2, <4>3, <1>2
    <3>. QED  BY <3>1, <3>2
  <2>2. ASSUME NEW i \in 1..cur
        PROVE  Over(orderedMods[i])' /\ instances'[orderedMods'[i]] # "none"
    <3>1. orderedMods[i] \in Name /\ orderedMods[i] # n
      BY <1>2, <1>3, Positions
    <3>2. Over(orderedMods[i]) /\ instances[orderedMods[i]] # "none"
      BY <1>1 DEF RunInv
    <3>3. task'[orderedMods[i]] = task[orderedMods[i]]
      BY <3>1, <1>1, <1>5
    <3>. QED  BY <3>2, <3>3, <1>1 DEF Over
  <2>3. \A i \in 1..(cur + 1) : i < cur + 1 => i \in 1..cur
    BY <1>2
  <2>. QED  BY <2>1, <2>2, <2>3, <1>1, <1>2 DEF RunInv
<1>8. InstanceInv'
  BY <1>1, <1>5 DEF InstanceInv
<1>9. StopInv'
  <2>1. ASSUME NEW m \in Name
        PROVE  /\ live'[m] => task'[m] \notin {"none", "connecting"}
               /\ stop'[m] = "clean" => ~live'[m] /\ task'[m] \notin {"none", "connecting"}
    <3>1. CASE m = n
      BY <3>1, <1>1, <1>4 DEF StopInv
    <3>2. CASE m # n
      BY <3>2, <1>1, <1>5 DEF StopInv
    <3>. QED  BY <3>1, <3>2
  <2>. QED  BY <2>1, <1>1 DEF StopInv
<1>. QED  BY <1>6, <1>7, <1>8, <1>9

LEMMA WaitSteps ==
  ASSUME IInv, Timeout \/ CheckInstance \/ ProvideModule \/ RunReturns
  PROVE  OrderInv' /\ RunInv' /\ InstanceInv' /\ StopInv'
<1>. USE DEF IInv
<1>1. /\ UNCHANGED <<modules, orderedMods, cur, task, live, hook, hookIdx, stop>>
      /\ pc \in {"start", "wait", "provide"} /\ pc' \in {"start", "wait", "provide", "done"}
  BY DEF Timeout, CheckInstance, ProvideModule, RunReturns, hookVars, taskVars
<1>2. OrderInv'
  BY <1>1 DEF OrderInv, IsStartOrder, Elems
<1>3. StopInv'
  BY <1>1, StopUnchanged
<1>4. \A m \in Name : Launched(m)' <=> \E i \in 1..cur' : orderedMods'[i] = m
  BY <1>1 DEF RunInv, Launched
<1>5. cur \in Nat /\ (pc \in {"wait", "provide"} => cur \in 1..Len(orderedMods) /\ Current \in Name)
  BY Positions
<1>6. CASE Timeout
  <2>1. /\ pc = "wait" /\ pc' = "wait" /\ late' = late \cup {Current} /\ UNCHANGED instances
    BY <1>6 DEF Timeout
  <2>2. \A m : Over(m) => Over(m)'
    BY <2>1, <1>1 DEF Over
  <2>3. Over(Current)'
    BY <2>1, <1>1 DEF Over, Current
  <2>4. RunInv'
    BY <2>1, <2>2, <2>3, <1>1, <1>4 DEF RunInv, Current
  <2>5. InstanceInv'
    BY <2>1, <1>1 DEF InstanceInv
  <2>. QED  BY <2>4, <2>5, <1>2, <1>3
<1>7. CASE CheckInstance
  <2>1. /\ pc = "wait" /\ waitDone /\ UNCHANGED <<waitDone, late, instances>>
        /\ pc' = IF instances[Current] = "none" THEN "provide" ELSE "start"
    BY <1>7 DEF CheckInstance, taskVars
  <2>2. Over(Current)
    BY <2>1 DEF RunInv
  <2>3. pc' = "provide" => Current \in late \/ task[Current] = "failed"
    BY <2>1, <2>2, <1>5 DEF InstanceInv, Over
  <2>4. ASSUME NEW i \in 1..cur, i < cur \/ pc' = "start"
        PROVE  Over(orderedMods[i]) /\ instances[orderedMods[i]] # "none"
    <3>1. i < cur \/ i = cur
      BY <1>5
    <3>. QED  BY <3>1, <2>1, <2>2, <2>4 DEF RunInv, Current
  <2>5. RunInv'
    BY <2>1, <2>3, <2>4, <1>1, <1>4 DEF RunInv, Current, Over
  <2>6. InstanceInv'
    BY <2>1, <1>1 DEF InstanceInv
  <2>. QED  BY <2>5, <2>6, <1>2, <1>3
<1>8. CASE ProvideModule
  <2>1. /\ pc = "provide" /\ pc' = "start" /\ UNCHANGED <<waitDone, late>>
        /\ instances' = [instances EXCEPT ![Current] = "module"]
        /\ instances \in [Name -> {"none", "own", "module"}]
    BY <1>8 DEF ProvideModule, TypeOK
  <2>2. Current \in late \/ task[Current] = "failed"
    BY <2>1 DEF RunInv
  <2>3. ASSUME NEW i \in 1..cur
        PROVE  Over(orderedMods[i]) /\ instances'[orderedMods[i]] # "none"
    <3>1. orderedMods[i] \in Name
      BY <1>5, Positions
    <3>2. CASE i = cur
      BY <3>1, <3>2, <2>1, <2>2 DEF Over, Current
    <3>3. CASE i < cur
      BY <3>1, <3>3, <2>1 DEF RunInv
    <3>. QED  BY <3>2, <3>3, <1>5
  <2>4. RunInv'
    BY <2>1, <2>3, <1>1, <1>4 DEF RunInv, Over
  <2>5. InstanceInv'
    BY <2>1, <2>2, <1>1, <1>5 DEF InstanceInv
  <2>. QED  BY <2>4, <2>5, <1>2, <1>3
<1>9. CASE RunReturns
  <2>1. /\ pc = "start" /\ pc' = "done" /\ UNCHANGED <<waitDone, late, instances>>
    BY <1>9 DEF RunReturns, taskVars
  <2>2. RunInv' /\ InstanceInv'
    BY <2>1, <1>1, <1>4 DEF RunInv, Over, InstanceInv
  <2>. QED  BY <2>2, <1>2, <1>3
<1>. QED  BY <1>6, <1>7, <1>8, <1>9

-----------------------------------------------------------------------------
(* The steps of the goroutines that start the modules *)

\* A step of n's Start, wherever Run and the hook are: n stays launched and
\* what was over stays over.
LEMMA TaskRun ==
  ASSUME IInv, NEW n \in Name, Task(n)
  PROVE  RunInv'
<1>. USE DEF IInv
<1>1. /\ UNCHANGED <<pc, modules, orderedMods, cur, late>>
      /\ \A m \in Name : m # n => task'[m] = task[m]
      /\ task[n] \notin {"none", "ok", "failed"} /\ task'[n] # "none"
      /\ \A m \in Name : instances[m] # "none" => instances'[m] # "none"
      /\ waitDone' => waitDone \/ (pc = "wait" /\ n = Current /\ task'[n] \in {"ok", "failed"})
  <2>. USE DEF mainVars, hookVars, TypeOK
  <2>1. CASE Connect(n)
    BY <2>1 DEF Connect
  <2>2. CASE Provide(n)
    BY <2>2 DEF Provide
  <2>3. CASE StartReturns(n)
    BY <2>3 DEF StartReturns, CancelWait
  <2>4. CASE StartFails(n)
    BY <2>4 DEF StartFails
  <2>5. CASE StartPanics(n)
    BY <2>5 DEF StartPanics, Starting
  <2>6. CASE ExitReturns(n)
    BY <2>6 DEF ExitReturns, CancelWait
  <2>. QED  BY <2>1, <2>2, <2>3, <2>4, <2>5, <2>6 DEF Task
<1>2. \A m \in Name : Launched(m)' <=> Launched(m)
  BY <1>1 DEF Launched
<1>3. \A m \in Name : /\ Over(m) => Over(m)'
                      /\ task[m] = "failed" => task'[m] = "failed"
  BY <1>1 DEF Over
<1>4. /\ pc \in {"wait", "provide"} => Current \in Name
      /\ \A i \in 1..cur : orderedMods[i] \in Name
      /\ Current' = Current
  BY <1>1, Positions DEF Current
<1>5. pc' = "wait" /\ waitDone' => Over(Current)'
  <2>1. CASE pc = "wait" /\ waitDone
    <3>1. Over(Current) /\ Current \in Name
      BY <2>1, <1>4 DEF RunInv
    <3>. QED  BY <3>1, <1>1, <1>3, <1>4 DEF Over
  <2>2. CASE pc = "wait" /\ n = Current /\ task'[n] \in {"ok", "failed"}
    BY <2>2, <1>4 DEF Over
  <2>. QED  BY <2>1, <2>2, <1>1
<1>6. pc' = "provide" => (Current \in late \/ task[Current] = "failed")'
  BY <1>1, <1>3, <1>4 DEF RunInv
<1>7. \A i \in 1..cur : i < cur \/ pc \in {"start", "done"} =>
         Over(orderedMods[i])' /\ instances'[orderedMods[i]] # "none"
  BY <1>1, <1>3, <1>4 DEF RunInv
<1>. QED  BY <1>1, <1>2, <1>5, <1>6, <1>7 DEF RunInv

LEMMA TaskInv ==
  ASSUME IInv, NEW n \in Name, Task(n)
  PROVE  OrderInv' /\ InstanceInv' /\ StopInv'
<1>. USE DEF IInv, mainVars, hookVars
<1>1. /\ UNCHANGED <<pc, modules, orderedMods, late, hook, hookIdx, stop>>
      /\ \A m \in Name : m # n => task'[m] = task[m] /\ instances'[m] = instances[m]
      /\ \A m \in Name : m # n => live'[m] = live[m]
      /\ task[n] # "none" /\ task'[n] \notin {"none", "connecting"}
  <2>. USE DEF TypeOK
  <2>1. CASE Connect(n)
    BY <2>1 DEF Connect
  <2>2. CASE Provide(n)
    BY <2>2 DEF Provide
  <2>3. CASE StartReturns(n)
    BY <2>3 DEF StartReturns
  <2>4. CASE StartFails(n)
    BY <2>4 DEF StartFails
  <2>5. CASE StartPanics(n)
    BY <2>5 DEF StartPanics, Starting
  <2>6. CASE ExitReturns(n)
    BY <2>6 DEF ExitReturns
  <2>. QED  BY <2>1, <2>2, <2>3, <2>4, <2>5, <2>6 DEF Task
<1>2. OrderInv'
  BY <1>1, OrderUnchanged
<1>3. task'[n] \in {"provided", "ok"} => n \notin Servers /\ (instances'[n] = "own" \/ n \in late)
  <2>. USE DEF TypeOK, InstanceInv
  <2>1. CASE Connect(n)
    BY <2>1 DEF Connect
  <2>2. CASE Provide(n)
    BY <2>2 DEF Provide
  <2>3. CASE StartReturns(n)
    BY <2>3 DEF StartReturns
  <2>4. CASE StartFails(n)
    BY <2>4 DEF StartFails
  <2>5. CASE StartPanics(n)
    BY <2>5 DEF StartPanics
  <2>6. CASE ExitReturns(n)
    BY <2>6 DEF ExitReturns
  <2>. QED  BY <2>1, <2>2, <2>3, <2>4, <2>5, <2>6 DEF Task
<1>4. InstanceInv'
  BY <1>1, <1>3 DEF InstanceInv
\* A module whose Stop was clean was connected before, so it does not connect now.
<1>5. stop[n] = "clean" => ~live'[n]
  <2>. USE DEF TypeOK, StopInv
  <2>1. CASE Connect(n)
    BY <2>1 DEF Connect
  <2>2. CASE UNCHANGED live
    BY <2>2
  <2>. QED  BY <2>1, <2>2 DEF Task, Provide, StartReturns, StartFails, StartPanics, ExitReturns
<1>6. \A m \in Name :
        /\ live'[m] => task'[m] \notin {"none", "connecting"}
        /\ stop'[m] = "clean" => ~live'[m] /\ task'[m] \notin {"none", "connecting"}
  BY <1>1, <1>5 DEF StopInv
<1>7. StopInv'
  BY <1>1, <1>6 DEF StopInv
<1>. QED  BY <1>2, <1>4, <1>7

-----------------------------------------------------------------------------
(* The steps of the hook *)

LEMMA HookInv ==
  ASSUME IInv, BeginStop \/ Hook \/ EndProcess
  PROVE  OrderInv' /\ RunInv' /\ InstanceInv' /\ StopInv'
<1>. USE DEF IInv
<1>1. /\ UNCHANGED <<pc, modules, orderedMods, cur, waitDone, late, task, instances>>
  BY DEF BeginStop, Hook, StopModule, EndStop, EndProcess, mainVars, taskVars
<1>2. OrderInv' /\ InstanceInv'
  <2>1. OrderInv'
    BY <1>1, OrderUnchanged
  <2>2. InstanceInv'
    BY <1>1 DEF InstanceInv
  <2>. QED  BY <2>1, <2>2
<1>3. RunInv'
  BY <1>1 DEF RunInv, Launched, Over, Current
<1>4. CASE BeginStop
  <2>1. /\ hook = "idle" /\ hook' = "running" /\ hookIdx' = Len(orderedMods)
        /\ UNCHANGED <<stop, live>>
    BY <1>4 DEF BeginStop, taskVars
  <2>2. Len(orderedMods) \in Nat
    BY Positions
  <2>3. StopInv'
    BY <2>1, <2>2, <1>1 DEF StopInv
  <2>. QED  BY <1>2, <1>3, <2>3
<1>5. CASE StopModule
  <2>. DEFINE n == orderedMods[hookIdx]
  <2>1. /\ hook = "running" /\ hook' = "running" /\ hookIdx > 0 /\ hookIdx' = hookIdx - 1
        /\ hookIdx \in Nat /\ hookIdx \in 1..Len(orderedMods) /\ Len(orderedMods) \in Nat
        /\ n \in Name
    BY <1>5, Positions DEF StopModule
  <2>2. PICK how \in {"early", "clean", "failed"}, keeps \in BOOLEAN :
          /\ StopResult(n, how, keeps)
          /\ live' = [live EXCEPT ![n] = keeps]
          /\ stop' = [stop EXCEPT ![n] = how]
    BY <1>5 DEF StopModule
  <2>. HIDE DEF n
  <2>3. /\ stop \in [Name -> {"no", "early", "clean", "failed"}] /\ live \in [Name -> BOOLEAN]
    BY DEF TypeOK
  <2>4. /\ \A m \in Name : m # n => stop'[m] = stop[m] /\ live'[m] = live[m]
        /\ stop'[n] \in {"early", "clean", "failed"}
        /\ live'[n] => live[n]
        /\ stop'[n] = "clean" => live[n] /\ ~live'[n]
    BY <2>1, <2>2, <2>3 DEF StopResult
  \* the modules past the index, which now include n
  <2>5. ASSUME NEW m \in Name, stop'[m] # "no"
        PROVE  \E i \in 1..Len(orderedMods) : i > hookIdx - 1 /\ orderedMods[i] = m
    <3>1. CASE m = n
      BY <3>1, <2>1 DEF n
    <3>2. CASE m # n
      <4>1. PICK i \in 1..Len(orderedMods) : i > hookIdx /\ orderedMods[i] = m
        BY <3>2, <2>4, <2>5 DEF StopInv
      <4>2. i > hookIdx - 1
        BY <4>1, <2>1
      <4>. QED  BY <4>1, <4>2
    <3>. QED  BY <3>1, <3>2
  <2>6. ASSUME NEW i \in 1..Len(orderedMods), i > hookIdx - 1
        PROVE  stop'[orderedMods[i]] # "no"
    <3>1. CASE orderedMods[i] = n
      BY <3>1, <2>4
    <3>2. CASE orderedMods[i] # n
      <4>1. i > hookIdx /\ orderedMods[i] \in Name
        BY <3>2, <2>1, <2>6, Positions DEF n
      <4>2. stop[orderedMods[i]] # "no"
        BY <4>1, <2>1 DEF StopInv
      <4>. QED  BY <3>2, <4>1, <4>2, <2>4
    <3>. QED  BY <3>1, <3>2
  <2>7. ASSUME NEW m \in Name
        PROVE  /\ live'[m] => task'[m] \notin {"none", "connecting"}
               /\ stop'[m] = "clean" => ~live'[m] /\ task'[m] \notin {"none", "connecting"}
    BY <2>1, <2>4, <1>1 DEF StopInv
  <2>8. StopInv'
    BY <2>1, <2>5, <2>6, <2>7, <1>1 DEF StopInv
  <2>. QED  BY <1>2, <1>3, <2>8
<1>6. CASE EndStop
  BY <1>1, <1>2, <1>3, <1>6 DEF EndStop, StopInv, taskVars
<1>7. CASE EndProcess
  BY <1>1, <1>2, <1>3, <1>7, StopUnchanged DEF EndProcess, hookVars, taskVars
<1>. QED  BY <1>4, <1>5, <1>6, <1>7 DEF Hook

-----------------------------------------------------------------------------
(* The theorems *)

LEMMA InvInit == Init => IInv
<1>. SUFFICES ASSUME Init
              PROVE  IInv
  OBVIOUS
<1>1. orderedMods \in Seq(modules) /\ 0 \in 0..Len(orderedMods)
  BY EmptySeq DEF Init
<1>2. TypeOK
  <2>1. /\ modules \in SUBSET Name /\ inited \in SUBSET modules /\ late \in SUBSET modules
    BY DEF Init
  <2>2. /\ task \in [Name -> {"none", "connecting", "connected", "provided", "ok", "failing",
                              "failed", "panicked"}]
        /\ live \in [Name -> BOOLEAN]
        /\ instances \in [Name -> {"none", "own", "module"}]
        /\ stop \in [Name -> {"no", "early", "clean", "failed"}]
    BY DEF Init
  <2>. QED  BY <1>1, <2>1, <2>2 DEF Init, TypeOK
<1>3. OrderInv /\ RunInv
  BY DEF Init, OrderInv, RunInv, Launched
<1>4. InstanceInv /\ StopInv
  BY DEF Init, InstanceInv, StopInv
<1>. QED  BY <1>2, <1>3, <1>4 DEF IInv

LEMMA InvStep ==
  ASSUME IInv, [Next]_vars
  PROVE  IInv'
<1>1. CASE Main
  <2>1. TypeOK'
    BY <1>1, TypeMain DEF IInv
  <2>2. OrderInv' /\ RunInv' /\ InstanceInv' /\ StopInv'
    BY <1>1, InitSteps, CompileInv, LaunchInv, WaitSteps DEF Main, RunStep
  <2>. QED  BY <2>1, <2>2 DEF IInv
<1>2. ASSUME NEW mods \in SUBSET Name, Register(mods)
      PROVE  IInv'
  <2>1. TypeOK'
    BY <1>2, TypeMain DEF IInv
  <2>2. OrderInv' /\ RunInv' /\ InstanceInv' /\ StopInv'
    BY <1>2, InitSteps
  <2>. QED  BY <2>1, <2>2 DEF IInv
<1>3. ASSUME NEW n \in Name, Task(n)
      PROVE  IInv'
  BY <1>3, TypeTask, TaskRun, TaskInv DEF IInv
<1>4. CASE BeginStop \/ Hook \/ EndProcess
  BY <1>4, TypeHook, HookInv DEF IInv
<1>5. CASE UNCHANGED vars
  <2>. USE <1>5 DEF IInv, vars, mainVars, taskVars, hookVars
  <2>1. TypeOK'
    BY DEF TypeOK
  <2>2. OrderInv' /\ InstanceInv'
    BY DEF OrderInv, IsStartOrder, Elems, InstanceInv
  <2>3. RunInv'
    BY DEF RunInv, Launched, Over, Current
  <2>4. StopInv'
    BY StopUnchanged
  <2>. QED  BY <2>1, <2>2, <2>3, <2>4
<1>. QED  BY <1>1, <1>2, <1>3, <1>4, <1>5 DEF Next, Around

\* The strengthened invariant of the lifecycle.
THEOREM Invariant == Spec => []IInv
<1>1. IInv /\ [Next]_vars => IInv'
  BY InvStep
<1>. QED  BY InvInit, <1>1, PTL DEF Spec

\* Type correctness of App: in particular Run's loop variable, and the hook's,
\* always index App.orderedMods, even if the hook begins before there is an
\* order.
THEOREM TypeCorrect == Spec => []TypeOK
<1>1. IInv => TypeOK
  BY DEF IInv
<1>. QED  BY <1>1, Invariant, PTL

\* A module that is launched stands in a start order, with its dependencies at
\* positions Run is through with.
LEMMA DependencyPosition ==
  ASSUME IInv, NEW n \in Name, NEW d \in DependsOn[n], Launched(n)
  PROVE  /\ d \in Name
         /\ IsStartOrder(orderedMods)
         /\ \E i \in 1..cur : /\ orderedMods[i] = n
                              /\ \E j \in 1..(i - 1) : j \in 1..cur /\ orderedMods[j] = d
<1>. USE DEF IInv
<1>1. cur \in Nat /\ Len(orderedMods) \in Nat /\ cur <= Len(orderedMods)
  BY Positions
<1>2. PICK i \in 1..cur : orderedMods[i] = n
  BY DEF RunInv
<1>3. Len(orderedMods) # 0 /\ i \in 1..Len(orderedMods)
  BY <1>1, <1>2
<1>4. pc \in {"start", "wait", "provide", "done"}
  BY <1>3 DEF OrderInv, TypeOK
<1>5. IsStartOrder(orderedMods)
  BY <1>4 DEF OrderInv
<1>6. PICK j \in 1..(i - 1) : orderedMods[j] = d
  BY <1>2, <1>3, <1>5, OrderProperties
<1>7. j \in 1..cur
  BY <1>1, <1>2, <1>6
<1>. QED  BY <1>2, <1>5, <1>6, <1>7, DependsAssumption

\* When Run launches a module, the Start of each of its dependencies has ended
\* or has used up its 2 s (app.go:179-195).
THEOREM StartsInOrder == Spec => []DependencyStartOver
<1>1. IInv => DependencyStartOver
  <2>. SUFFICES ASSUME IInv, NEW n \in Name, NEW d \in DependsOn[n], Launched(n)
                PROVE  Over(d)
    BY DEF DependencyStartOver, Over
  <2>1. PICK i \in 1..cur : \E j \in 1..(i - 1) : j \in 1..cur /\ orderedMods[j] = d
    BY DependencyPosition
  <2>2. PICK j \in 1..cur : j < i /\ orderedMods[j] = d
    BY <2>1
  <2>3. cur \in Nat
    BY Positions DEF IInv
  <2>. QED  BY <2>2, <2>3 DEF IInv, RunInv
<1>. QED  BY <1>1, Invariant, PTL

\* A module's Start finds an instance of each of its dependencies, and the
\* connector's own one unless Run gave up waiting for it (app.go:196).
THEOREM DependenciesServed == Spec => []DependencyServed
<1>1. IInv => DependencyServed
  <2>. SUFFICES ASSUME IInv, NEW n \in Name, NEW d \in DependsOn[n], Launched(n)
                PROVE  /\ instances[d] # "none"
                       /\ d \notin late /\ task[d] = "ok" => instances[d] = "own"
    BY DEF DependencyServed
  <2>1. PICK i \in 1..cur : \E j \in 1..(i - 1) : j \in 1..cur /\ orderedMods[j] = d
    BY DependencyPosition
  <2>2. PICK j \in 1..cur : j < i /\ orderedMods[j] = d
    BY <2>1
  <2>3. cur \in Nat /\ d \in Name
    BY Positions, DependencyPosition DEF IInv
  <2>. QED  BY <2>2, <2>3 DEF IInv, RunInv, InstanceInv
<1>. QED  BY <1>1, Invariant, PTL

\* When the hook stops a module, those that depend on it no longer hold their
\* connections, unless their Stop came too early or failed (app.go:71-85).
THEOREM StopsInReverse == Spec => []StopProtectsDependencies
<1>1. IInv => StopProtectsDependencies
  <2>. SUFFICES ASSUME IInv, NEW n \in Name, NEW d \in DependsOn[n],
                       stop[d] # "no", live[n]
                PROVE  stop[n] \in {"early", "failed"}
    BY DEF StopProtectsDependencies
  <2>. USE DEF IInv
  <2>1. Launched(n)
    BY DEF StopInv, Launched
  <2>2. /\ d \in Name /\ IsStartOrder(orderedMods)
        /\ cur \in Nat /\ Len(orderedMods) \in Nat /\ cur <= Len(orderedMods) /\ hookIdx \in Nat
    BY <2>1, DependencyPosition, Positions
  <2>3. PICK i \in 1..cur : /\ orderedMods[i] = n
                            /\ \E j \in 1..(i - 1) : j \in 1..cur /\ orderedMods[j] = d
    BY <2>1, DependencyPosition
  <2>4. PICK j \in 1..cur : j < i /\ orderedMods[j] = d
    BY <2>3
  <2>5. PICK k \in 1..Len(orderedMods) : k > hookIdx /\ orderedMods[k] = d
    BY <2>2 DEF StopInv
  <2>6. k = j
    BY <2>2, <2>4, <2>5, OrderProperties
  <2>7. i \in 1..Len(orderedMods) /\ i > hookIdx
    BY <2>2, <2>4, <2>5, <2>6
  <2>8. hook # "idle" /\ ~(\A m \in Name : stop[m] = "no")
    BY <2>2 DEF StopInv
  <2>9. stop[orderedMods[i]] # "no"
    BY <2>7, <2>8 DEF StopInv
  <2>10. stop[n] # "no" /\ stop[n] # "clean"
    BY <2>3, <2>9 DEF StopInv
  <2>. QED  BY <2>10 DEF TypeOK
<1>. QED  BY <1>1, Invariant, PTL

\* A Stop that fails or panics does not keep the hook from the other modules:
\* at its end, what is still open was stopped too early or failed to stop, or
\* the hook began before there was an order to go through (app.go:72-85).
THEOREM HookSkipsNothing == Spec => []NothingSkipped
<1>1. IInv => NothingSkipped
  <2>. SUFFICES ASSUME IInv, hook = "done", NEW n \in Name, live[n],
                       ~ \A m \in Name : stop[m] = "no"
                PROVE  stop[n] \in {"early", "failed"}
    BY DEF NothingSkipped
  <2>. USE DEF IInv
  <2>1. hookIdx = 0 /\ \A i \in 1..Len(orderedMods) : stop[orderedMods[i]] # "no"
    BY DEF StopInv
  <2>2. Launched(n) /\ stop[n] # "clean"
    BY DEF StopInv, Launched
  <2>3. PICK i \in 1..cur : orderedMods[i] = n
    BY <2>2 DEF RunInv
  <2>4. i \in 1..Len(orderedMods)
    BY <2>3, Positions
  <2>5. stop[n] # "no"
    BY <2>1, <2>3, <2>4
  <2>. QED  BY <2>2, <2>5 DEF TypeOK
<1>. QED  BY <1>1, Invariant, PTL

-----------------------------------------------------------------------------
(* Once only *)

\* Start is called once per module and so is Stop, whatever the moment the hook
\* begins at: Run and the hook go through the same order, without repetition
\* (app.go:73, :179).
OnceOnly ==
  \A n \in Name :
    /\ Launched(n) => task'[n] # "none"
    /\ task'[n] = "connecting" => task[n] \in {"none", "connecting"}
    /\ stop[n] # "no" => stop'[n] = stop[n]

LEMMA OnceOnlyStep ==
  ASSUME IInv, Next
  PROVE  OnceOnly
<1>. USE DEF IInv
<1>1. task \in [Name -> {"none", "connecting", "connected", "provided", "ok", "failing",
                         "failed", "panicked"}]
  BY DEF TypeOK
<1>2. CASE UNCHANGED <<task, stop>>
  BY <1>2 DEF OnceOnly, Launched
<1>3. CASE RunStep
  <2>1. CASE Launch
    <3> DEFINE n == orderedMods[cur + 1]
    <3>1. /\ pc = "start" /\ stop' = stop
          /\ task' = [task EXCEPT ![n] = "connecting"]
          /\ cur + 1 \in 1..Len(orderedMods) /\ cur \in Nat
          /\ n \in Name
      BY <2>1, Positions DEF Launch, hookVars
    <3> HIDE DEF n
    <3>2. \A i \in 1..cur : i \in 1..Len(orderedMods) /\ i # cur + 1
      BY <3>1, Positions
    <3>3. \A i \in 1..cur : orderedMods[i] # n
      BY <3>1, <3>2, OrderProperties DEF OrderInv, n
    <3>4. task[n] = "none"
      BY <3>1, <3>3 DEF RunInv, Launched
    <3>. QED  BY <3>1, <3>4, <1>1 DEF OnceOnly, Launched
  <2>. QED  BY <1>2, <1>3, <2>1 DEF RunStep, NewApp, CallRun, InitModule, Timeout, CheckInstance,
            ProvideModule, RunReturns, hookVars, taskVars
<1>4. CASE CompileTopology \/ BeginStop \/ EndStop \/ EndProcess \/ \E mods \in SUBSET Name : Register(mods)
  BY <1>2, <1>4 DEF CompileTopology, BeginStop, EndStop, EndProcess, Register, hookVars, taskVars
<1>5. ASSUME NEW n \in Name, Task(n)
      PROVE  OnceOnly
  <2>1. /\ UNCHANGED stop
        /\ task[n] # "none"
        /\ \E t \in {"connected", "provided", "ok", "failing", "failed", "panicked"} :
             task' = [task EXCEPT ![n] = t]
    BY <1>5 DEF Task, Connect, Provide, StartReturns, StartFails, StartPanics, ExitReturns,
       Starting, hookVars
  <2>. QED  BY <2>1, <1>1 DEF OnceOnly, Launched
<1>6. CASE StopModule
  <2> DEFINE n == orderedMods[hookIdx]
  <2>1. /\ hookIdx \in 1..Len(orderedMods)
        /\ n \in Name
    BY <1>6, Positions DEF StopModule
  <2>2. PICK how \in {"early", "clean", "failed"} : stop' = [stop EXCEPT ![n] = how]
    BY <1>6 DEF StopModule
  <2> HIDE DEF n
  <2>3. IsStartOrder(orderedMods)
    <3>1. orderedMods # <<>>
      BY <2>1
    <3>. QED  BY <3>1 DEF OrderInv, TypeOK
  <2>4. stop[n] = "no"
    <3>1. \A i \in 1..Len(orderedMods) : i > hookIdx => orderedMods[i] # n
      BY <2>1, <2>3, OrderProperties, Positions DEF n
    <3>. QED  BY <2>1, <3>1 DEF StopInv
  <2>5. UNCHANGED task
    BY <1>6 DEF StopModule
  <2>6. stop \in [Name -> {"no", "early", "clean", "failed"}]
    BY DEF TypeOK
  <2>. QED  BY <2>1, <2>2, <2>4, <2>5, <2>6 DEF OnceOnly, Launched
<1>. QED  BY <1>3, <1>4, <1>5, <1>6 DEF Next, Main, Around, Hook

\* No module is started twice and none is stopped twice.
THEOREM StartedAndStoppedOnce == Spec => [][OnceOnly]_vars
<1>1. IInv /\ [Next]_vars => [OnceOnly]_vars
  BY OnceOnlyStep
<1>. QED  BY <1>1, Invariant, PTL DEF Spec

-----------------------------------------------------------------------------
(* Why Run and the hook come to their ends *)

\* What Run has still to do: stages, Inits, launches, and what is left of the
\* wait for the module it has launched last.
Stage ==
  CASE pc = "new" -> 0
    [] pc = "config" -> 1
    [] pc = "init" -> 2
    [] pc \in {"start", "wait", "provide"} -> 3
    [] OTHER -> 4
ToInit == modules \ inited
ToLaunch == Len(orderedMods) - cur
Waiting ==
  CASE pc = "wait" /\ ~waitDone -> 3
    [] pc = "wait" /\ waitDone -> 2
    [] pc = "provide" -> 1
    [] OTHER -> 0

\* A step of Run lessens the first of the four that it changes.
RunAdvances ==
  \/ Stage' > Stage
  \/ UNCHANGED Stage /\ pc = "init" /\ ToInit' \subseteq ToInit /\ ToInit' # ToInit
  \/ UNCHANGED Stage /\ ToLaunch' \in Nat /\ ToLaunch' < ToLaunch
  \/ UNCHANGED <<Stage, ToLaunch>> /\ Waiting' < Waiting

\* Nobody else gives Run more to do.
RunKept ==
  /\ UNCHANGED <<Stage, ToLaunch>>
  /\ pc = "init" => UNCHANGED ToInit
  /\ Waiting' <= Waiting

LEMMA RunStepAdvances ==
  ASSUME IInv, Main
  PROVE  RunAdvances
<1>. USE DEF IInv
<1>1. CASE NewApp \/ CallRun \/ CompileTopology \/ RunReturns
  BY <1>1 DEF NewApp, CallRun, CompileTopology, RunReturns, RunAdvances, Stage
<1>2. ASSUME NEW n \in Name, InitModule(n)
      PROVE  RunAdvances
  <2>1. CASE pc' = "failed"
    BY <1>2, <2>1 DEF InitModule, RunAdvances, Stage
  <2>2. CASE inited' = inited \cup {n} /\ UNCHANGED pc
    <3>1. n \in ToInit /\ ToInit' = ToInit \ {n}
      BY <1>2, <2>2 DEF InitModule, ToInit
    <3>. QED  BY <1>2, <2>2, <3>1 DEF InitModule, RunAdvances, Stage
  <2>. QED  BY <1>2, <2>1, <2>2 DEF InitModule
<1>3. CASE Launch
  <2>1. ToLaunch' = Len(orderedMods) - (cur + 1) /\ pc = "start" /\ pc' = "wait"
        /\ cur < Len(orderedMods)
    BY <1>3 DEF Launch, ToLaunch
  <2>2. ToLaunch' \in Nat /\ ToLaunch' < ToLaunch
    BY <2>1, Positions DEF ToLaunch
  <2>. QED  BY <2>1, <2>2 DEF RunAdvances, Stage
<1>4. CASE Timeout \/ CheckInstance \/ ProvideModule
  <2>1. UNCHANGED ToLaunch
    BY <1>4 DEF Timeout, CheckInstance, ProvideModule, ToLaunch
  <2>. QED  BY <1>4, <2>1 DEF Timeout, CheckInstance, ProvideModule, RunAdvances, Stage, Waiting
<1>. QED  BY <1>1, <1>2, <1>3, <1>4 DEF Main, RunStep

LEMMA AroundKeepsRun ==
  ASSUME IInv, Around
  PROVE  RunKept
<1>. USE DEF IInv
<1>1. ASSUME NEW mods \in SUBSET Name, Register(mods)
      PROVE  RunKept
  BY <1>1 DEF Register, RunKept, Stage, ToLaunch, Waiting
<1>2. ASSUME NEW n \in Name, Task(n)
      PROVE  RunKept
  <2>1. /\ UNCHANGED <<pc, modules, inited, orderedMods, cur>>
        /\ waitDone => waitDone' = TRUE
    BY <1>2 DEF TypeOK, Task, Connect, Provide, StartReturns, StartFails, StartPanics, ExitReturns,
       CancelWait, mainVars
  <2>2. Waiting' <= Waiting
    BY <2>1 DEF Waiting
  <2>. QED  BY <2>1, <2>2 DEF RunKept, Stage, ToLaunch, ToInit
<1>3. CASE BeginStop \/ Hook \/ EndProcess
  BY <1>3 DEF BeginStop, Hook, StopModule, EndStop, EndProcess, mainVars, RunKept, Stage,
     ToLaunch, ToInit, Waiting
<1>. QED  BY <1>1, <1>2, <1>3 DEF Around

\* Run cannot go on for ever, whatever the modules' Start and Stop do: each of
\* its steps leaves it less to do, in an order that is well founded, and no
\* step of a goroutine, of the hook or of a signal gives it more (app.go:167).
THEOREM RunComesToItsEnd == Spec => [][(Main => RunAdvances) /\ (Around => RunKept)]_vars
<1>1. IInv /\ [Next]_vars => [(Main => RunAdvances) /\ (Around => RunKept)]_vars
  BY RunStepAdvances, AroundKeepsRun
<1>. QED  BY <1>1, Invariant, PTL DEF Spec

\* The hook counts down to its end, nothing else moves its index, and the order
\* it goes through does not change under it, even if Run is still busy.
HookAdvances ==
  hook = "running" =>
    /\ Hook => hook' = "done" \/ (hookIdx' \in Nat /\ hookIdx' < hookIdx)
    /\ ~Hook => UNCHANGED <<hook, hookIdx>>
    /\ hookIdx > 0 => UNCHANGED orderedMods

\* The AfterStop hook calls at most one Stop for each module of the order it
\* found when it began, and then it is done (app.go:72-85).
THEOREM HookComesToItsEnd == Spec => [][HookAdvances]_vars
<1>1. IInv /\ [Next]_vars => [HookAdvances]_vars
  <2>. SUFFICES ASSUME IInv, Next, hook = "running"
                PROVE  /\ Hook => hook' = "done" \/ (hookIdx' \in Nat /\ hookIdx' < hookIdx)
                       /\ ~Hook => UNCHANGED <<hook, hookIdx>>
                       /\ hookIdx > 0 => UNCHANGED orderedMods
    BY DEF HookAdvances
  <2>1. CASE Hook
    <3>1. UNCHANGED orderedMods
      BY <2>1 DEF Hook, StopModule, EndStop, mainVars
    <3>2. CASE StopModule
      BY <2>1, <3>1, <3>2, Positions DEF IInv, StopModule
    <3>3. CASE EndStop
      BY <2>1, <3>1, <3>3 DEF EndStop
    <3>. QED  BY <2>1, <3>2, <3>3 DEF Hook
  <2>2. CASE ~Hook
    <3>1. CASE Main
      <4>1. UNCHANGED <<hook, hookIdx>>
        BY <3>1 DEF Main, RunStep, NewApp, CallRun, InitModule, CompileTopology, Launch, Timeout,
           CheckInstance, ProvideModule, RunReturns, hookVars
      <4>2. CASE CompileTopology
        BY <2>2, <4>1, <4>2, BeforeOrder DEF CompileTopology, IInv
      <4>3. CASE RunStep
        BY <2>2, <4>1, <4>3 DEF RunStep, NewApp, CallRun, InitModule, Launch, Timeout,
           CheckInstance, ProvideModule, RunReturns
      <4>. QED  BY <3>1, <4>2, <4>3 DEF Main
    <3>2. CASE Around
      BY <2>2, <3>2 DEF Around, Register, Task, Connect, Provide, StartReturns, StartFails,
         StartPanics, ExitReturns, BeginStop, EndProcess, mainVars, hookVars
    <3>. QED  BY <3>1, <3>2 DEF Next
  <2>. QED  BY <2>1, <2>2
<1>. QED  BY <1>1, Invariant, PTL DEF Spec

-----------------------------------------------------------------------------
(* compileTopology step by step: module Lifecycle *)

TP == INSTANCE Topology_proofs WITH registered <- modules, deps <- DepList

\* The search of module Lifecycle is the one of module Topology, whose inductive
\* invariant therefore holds of it.
LEMMA SearchIsTP ==
  ASSUME Search!Next
  PROVE  TP!Next
BY DEF Search!Next, TP!Next, Search!PickRoot, TP!PickRoot, Search!Descend, TP!Descend,
   Search!Cycle, TP!Cycle, Search!Skip, TP!Skip, Search!Finish, TP!Finish, Search!Commit,
   TP!Commit, Search!Enter, TP!Enter, Search!Pending, TP!Pending, Search!NextDep, TP!NextDep,
   Search!Top, TP!Top, Search!Below, TP!Below

LEMMA SearchInvStep ==
  ASSUME TP!IInv, Search!Next \/ UNCHANGED <<modules, orderedMods, searchVars>>
  PROVE  TP!IInv'
<1>1. CASE Search!Next
  BY <1>1, SearchIsTP, TP!InvStep
<1>2. CASE UNCHANGED <<modules, orderedMods, searchVars>>
  <2>1. UNCHANGED TP!vars
    BY <1>2 DEF searchVars, TP!vars
  <2>. QED  BY <2>1, TP!InvStep
<1>. QED  BY <1>1, <1>2

LEMMA SearchInit == TP!Init => TP!IInv
BY TP!InvInit

LEMMA SearchInitNext == TP!Init' => TP!IInv'
BY SearchInit, PTL

\* A nonempty set of numbers has a least one.
LEMMA LeastNumber ==
  ASSUME NEW T \in SUBSET Nat, T # {}
  PROVE  \E x \in T : \A y \in T : x <= y
<1>1. PICK x \in T : \A y \in T : ~(<<y, x>> \in OpToRel(<, Nat))
  BY NatLessThanWellFounded, WFMin, Zenon
<1>2. ASSUME NEW y \in T
      PROVE  x <= y
  <2>1. y < x => <<y, x>> \in OpToRel(<, Nat)
    BY DEF OpToRel
  <2>2. ~(y < x)
    BY <2>1, <1>1, Zenon
  <2>3. x \in Nat /\ y \in Nat
    OBVIOUS
  <2>. QED  BY <2>2, <2>3
<1>. QED  BY <1>2

\* A module of a blocked set that stood first in a start order would have a
\* dependency, of that set or not registered, before it.
LEMMA BlockedMeansNoOrder ==
  ASSUME TypeOK, NEW S \in SUBSET modules, TP!Blocked(S)
  PROVE  StartOrders = {}
<1>. SUFFICES ASSUME NEW s \in StartOrders
              PROVE  FALSE
  OBVIOUS
<1>1. s \in Seq(modules) /\ IsStartOrder(s)
  BY OrdersAreSequences
<1>. DEFINE Blockers == { i \in 1..Len(s) : s[i] \in S }
<1>2. Blockers \in SUBSET Nat /\ Blockers # {}
  <2>1. PICK n \in S : TRUE
    BY DEF TP!Blocked
  <2>2. n \in Elems(s)
    BY <1>1 DEF IsStartOrder
  <2>3. PICK i \in 1..Len(s) : s[i] = n
    BY <2>2 DEF Elems
  <2>. QED  BY <2>3
<1>. HIDE DEF Blockers
<1>3. PICK i \in Blockers : \A j \in Blockers : i <= j
  BY <1>2, LeastNumber
<1>4. i \in 1..Len(s) /\ s[i] \in S /\ i \in Nat
  BY <1>3 DEF Blockers
<1>5. PICK d \in TP!DepSet(s[i]) : d \in S \/ d \notin modules
  BY <1>4 DEF TP!Blocked
<1>6. d \in DependsOn[s[i]]
  BY <1>4, <1>5, DepListAssumption DEF TP!DepSet, TP!Elems, Elems, TypeOK
<1>7. PICK j \in 1..(i - 1) : s[j] = d
  BY <1>1, <1>4, <1>6, OrderProperties
<1>8. j \in 1..Len(s) /\ j < i /\ j \in Nat
  BY <1>1, <1>4, <1>7, LenProperties
<1>9. j \in Blockers
  BY <1>1, <1>5, <1>7, <1>8, OrderProperties DEF Blockers
<1>. QED  BY <1>3, <1>4, <1>8, <1>9

\* A sequence with every module once is as long as there are modules.
LEMMA OrderLength ==
  ASSUME TypeOK, NEW s \in Seq(modules), IsStartOrder(s)
  PROVE  s \in StartOrders
<1>1. IsFiniteSet(modules)
  BY NameAssumption, FS_Subset DEF TypeOK
<1>2. PICK k \in Nat : k = Len(s)
  BY LenProperties
<1>3. s \in [1..k -> modules]
  BY <1>2, LenProperties
<1>4. s \in Injection(1..k, modules) /\ s \in Surjection(1..k, modules)
  BY <1>2, <1>3 DEF Injection, Surjection, IsInjective, IsStartOrder, Elems
<1>5. Cardinality(1..k) = Cardinality(modules)
  BY <1>1, <1>4, FS_Injection
<1>6. Cardinality(1..k) = k
  BY FS_Interval
<1>. QED  BY <1>3, <1>5, <1>6 DEF StartOrders

-----------------------------------------------------------------------------
(* The search stands for the single step of App *)

\* The search does not begin before Run; until then Register changes what it
\* starts from.
SearchInv ==
  /\ TP!IInv
  /\ pc \in {"new", "config"} => TP!Init

LInv == IInv /\ SearchInv

\* Steps of the search are invisible, until it commits an order or fails.
LEMMA SearchMaps ==
  ASSUME LInv, SearchStep
  PROVE  CompileTopology \/ UNCHANGED vars
<1>. USE DEF LInv, SearchInv, IInv
<1>1. /\ alive /\ pc = "init" /\ inited = modules
      /\ Search!Next
      /\ pc' = CASE result' = "running" -> "init"
                 [] result' = "ok" -> "start"
                 [] OTHER -> "failed"
      /\ UNCHANGED <<inited, cur, waitDone, late, taskVars, instances, hookVars, exiting, alive>>
  BY DEF SearchStep
<1>2. TP!IInv'
  BY <1>1, SearchInvStep
<1>3. modules' = modules /\ (result' # "ok" => orderedMods' = orderedMods)
  BY <1>1 DEF Search!Next, Search!PickRoot, Search!Descend, Search!Cycle, Search!Skip,
     Search!Finish, Search!Commit, Search!Enter
<1>4. result' \in {"running", "ok", "circular", "missing"}
  BY <1>2 DEF TP!IInv, TP!TypeOK
<1>5. CASE result' = "running"
  <2>1. pc' = "init"
    BY <1>1, <1>5
  <2>. QED  BY <2>1, <1>1, <1>3, <1>5 DEF vars, mainVars
<1>6. CASE result' = "ok"
  <2>1. pc' = "start"
    BY <1>1, <1>6
  <2>2. /\ orderedMods' = order' /\ TP!Elems(order)' = modules
        /\ orderedMods' \in Seq(Name)
        /\ \A i, j \in 1..Len(order') : order'[i] = order'[j] => i = j
        /\ TP!DepsFirst(order)'
    BY <1>2, <1>3, <1>6 DEF TP!IInv, TP!OrderInv, TP!Committed, TP!TypeOK
  <2>3. Elems(orderedMods') = modules
    BY <2>2 DEF TP!Elems, Elems
  <2>4. orderedMods' \in Seq(modules)
    BY <2>2, <2>3, SeqDef, LenProperties DEF Elems
  <2>5. ASSUME NEW i \in 1..Len(orderedMods'), NEW d \in DependsOn[orderedMods'[i]]
        PROVE  \E j \in 1..(i - 1) : orderedMods'[j] = d
    <3>1. orderedMods'[i] \in Name
      BY <2>2, ElementOfSeq
    <3>2. d \in TP!DepSet(orderedMods'[i])
      BY <3>1, DepListAssumption DEF TP!DepSet, TP!Elems, Elems
    <3>3. \A k \in 1..Len(order') : \A e \in TP!DepSet(order'[k]) :
             \E j \in 1..(k - 1) : order'[j] = e
      BY <2>2 DEF TP!DepsFirst, TP!DepSet, TP!Elems
    <3>. QED  BY <2>2, <3>2, <3>3
  <2>6. IsStartOrder(orderedMods')
    BY <2>2, <2>3, <2>5 DEF IsStartOrder
  <2>7. orderedMods' \in StartOrders
    BY <2>4, <2>6, OrderLength
  <2>. QED  BY <2>1, <2>7, <1>1, <1>3 DEF CompileTopology
<1>7. CASE result' \in {"circular", "missing"}
  <2>1. pc' = "failed"
    BY <1>1, <1>7
  <2>2. PICK S \in SUBSET modules : TP!Blocked(S)'
    BY <1>2, <1>3, <1>7 DEF TP!IInv, TP!ErrorBlocked
  <2>3. TP!Blocked(S)
    BY <2>2, <1>3 DEF TP!Blocked, TP!DepSet, TP!Elems
  <2>4. StartOrders = {}
    BY <2>3, BlockedMeansNoOrder
  <2>. QED  BY <2>1, <2>4, <1>1, <1>3, <1>7 DEF CompileTopology
<1>. QED  BY <1>4, <1>5, <1>6, <1>7

\* Every step of the lifecycle is a step of App or leaves its state alone.
LEMMA StepImplements ==
  ASSUME LInv, [LifecycleNext]_allVars
  PROVE  [Next]_vars
<1>1. CASE SearchStep
  BY <1>1, SearchMaps DEF Next, Main
<1>2. CASE RunStep \/ Around
  BY <1>2 DEF Next, Main
<1>3. CASE UNCHANGED allVars
  BY <1>3 DEF allVars
<1>. QED  BY <1>1, <1>2, <1>3 DEF LifecycleNext

LEMMA LInvStep ==
  ASSUME LInv, [LifecycleNext]_allVars
  PROVE  LInv'
<1>. USE DEF LInv, SearchInv
<1>1. IInv'
  BY StepImplements, InvStep
<1>2. CASE SearchStep
  <2>1. TP!IInv'
    BY <1>2, SearchInvStep DEF SearchStep
  <2>2. pc' \notin {"new", "config"}
    BY <1>2 DEF SearchStep
  <2>. QED  BY <1>1, <2>1, <2>2
<1>3. ASSUME NEW mods \in SUBSET Name, Register(mods), UNCHANGED searchVars
      PROVE  LInv'
  <2>1. TP!Init
    BY <1>3 DEF Register
  <2>2. modules' \in SUBSET Name /\ UNCHANGED <<orderedMods, searchVars>>
    BY <1>3 DEF Register, IInv, TypeOK
  <2>3. TP!Init'
    BY <2>1, <2>2 DEF TP!Init, searchVars
  <2>. QED  BY <1>1, <2>3, SearchInitNext
<1>4. CASE /\ UNCHANGED <<modules, orderedMods, searchVars>>
           /\ pc' \in {"new", "config"} => pc \in {"new", "config"}
  <2>1. TP!IInv'
    BY <1>4, SearchInvStep
  <2>2. TP!Init => TP!Init'
    BY <1>4 DEF TP!Init, searchVars
  <2>. QED  BY <1>1, <1>4, <2>1, <2>2
<1>5. CASE RunStep /\ UNCHANGED searchVars
  <2>1. /\ UNCHANGED <<modules, orderedMods, searchVars>>
        /\ pc' \in {"new", "config"} => pc \in {"new", "config"}
    BY <1>5 DEF RunStep, NewApp, CallRun, InitModule, Launch, Timeout, CheckInstance,
       ProvideModule, RunReturns
  <2>. QED  BY <2>1, <1>4
<1>6. ASSUME NEW n \in Name, Task(n), UNCHANGED searchVars
      PROVE  LInv'
  <2>1. UNCHANGED <<pc, modules, orderedMods, searchVars>>
    BY <1>6 DEF Task, Connect, Provide, StartReturns, StartFails, StartPanics, ExitReturns,
       mainVars
  <2>. QED  BY <2>1, <1>4
<1>7. CASE (BeginStop \/ Hook \/ EndProcess) /\ UNCHANGED searchVars
  <2>1. UNCHANGED <<pc, modules, orderedMods, searchVars>>
    BY <1>7 DEF BeginStop, Hook, StopModule, EndStop, EndProcess, mainVars
  <2>. QED  BY <2>1, <1>4
<1>8. CASE UNCHANGED allVars
  <2>1. UNCHANGED <<pc, modules, orderedMods, searchVars>>
    BY <1>8 DEF allVars, vars, mainVars
  <2>. QED  BY <2>1, <1>4
<1>. QED  BY <1>2, <1>3, <1>5, <1>6, <1>7, <1>8 DEF LifecycleNext, Around

LEMMA LInvInit == LifecycleInit => Init /\ LInv
<1>. SUFFICES ASSUME LifecycleInit
              PROVE  Init /\ LInv
  OBVIOUS
<1>1. TP!Init
  BY DepListAssumption DEF LifecycleInit, Init, TP!Init
<1>. QED  BY <1>1, SearchInit, InvInit DEF LifecycleInit, LInv, SearchInv

\* compileTopology, of which a signal or the end of the process may come between
\* any two steps, acts as one step that finds an order if there is one and fails
\* otherwise (app.go:176): the lifecycle with the search implements App (the
\* safety part; its fairness is checked by TLC).
THEOREM Implements == LifecycleSpec => Spec
<1>1. LifecycleInit => Init /\ LInv
  BY LInvInit
<1>2. LInv /\ [LifecycleNext]_allVars => LInv'
  BY LInvStep
<1>3. LInv /\ [LifecycleNext]_allVars => [Next]_vars
  BY StepImplements
<1>. QED  BY <1>1, <1>2, <1>3, PTL DEF LifecycleSpec, Spec

\* So whatever graph DependsOn describes, and wherever the search is interrupted,
\* modules are served, started and stopped in the order App promises.
THEOREM LifecycleCorrect ==
  LifecycleSpec => [](/\ TypeOK /\ DependencyServed /\ DependencyStartOver
                      /\ StopProtectsDependencies /\ NothingSkipped)
BY Implements, TypeCorrect, DependenciesServed, StartsInOrder, StopsInReverse,
   HookSkipsNothing, PTL

\* With the search in place, the goroutine of Run takes a step of App or one of
\* a search that leaves App's measure alone and its own measure smaller.
MainAdvances ==
  \/ RunAdvances
  \/ UNCHANGED <<Stage, ToInit, ToLaunch, Waiting>> /\ result' = "running" /\ TP!Advances

\* Between the steps of the search nothing lengthens it.
SearchKept == pc = "init" => UNCHANGED <<modules, searchVars>>

LEMMA SearchStepAdvances ==
  ASSUME LInv, SearchStep
  PROVE  MainAdvances
<1>1. TP!Advances
  BY SearchIsTP, TP!AdvanceStep DEF SearchStep, LInv, SearchInv
<1>2. CASE result' = "running"
  <2>1. UNCHANGED <<pc, modules, inited, orderedMods, cur, waitDone>>
    BY <1>2 DEF SearchStep, Search!Next, Search!PickRoot, Search!Descend, Search!Enter,
       Search!Cycle, Search!Skip, Search!Finish, Search!Commit
  <2>. QED  BY <1>1, <1>2, <2>1 DEF MainAdvances, Stage, ToInit, ToLaunch, Waiting
<1>3. CASE result' # "running"
  <2>1. pc = "init" /\ pc' \in {"start", "failed"}
    BY <1>3 DEF SearchStep
  <2>. QED  BY <2>1 DEF MainAdvances, RunAdvances, Stage
<1>. QED  BY <1>2, <1>3

\* Run comes to its end, compileTopology included: no step of its goroutine
\* leaves both measures as they were, and nothing that happens beside it raises
\* one of them (app.go:167, :204).
THEOREM LifecycleComesToItsEnd ==
  LifecycleSpec =>
    [][/\ SearchStep \/ (RunStep /\ UNCHANGED searchVars) => MainAdvances
       /\ Around /\ UNCHANGED searchVars => RunKept /\ SearchKept]_allVars
<1>. DEFINE A == /\ SearchStep \/ (RunStep /\ UNCHANGED searchVars) => MainAdvances
                 /\ Around /\ UNCHANGED searchVars => RunKept /\ SearchKept
<1>1. LifecycleInit => LInv
  BY LInvInit
<1>2. LInv /\ [LifecycleNext]_allVars => LInv'
  BY LInvStep
<1>3. LInv /\ [LifecycleNext]_allVars => [A]_allVars
  <2>. SUFFICES ASSUME LInv
                PROVE  A
    OBVIOUS
  <2>1. SearchStep => MainAdvances
    BY SearchStepAdvances
  <2>2. RunStep => MainAdvances
    BY RunStepAdvances DEF LInv, Main, MainAdvances
  <2>3. ASSUME Around, UNCHANGED searchVars
        PROVE  RunKept /\ SearchKept
    <3>1. pc = "init" => UNCHANGED modules
      BY <2>3 DEF Around, Register, Task, Connect, Provide, StartReturns, StartFails, StartPanics,
         ExitReturns, BeginStop, Hook, StopModule, EndStop, EndProcess, mainVars
    <3>. QED  BY <2>3, <3>1, AroundKeepsRun DEF LInv, SearchKept
  <2>. QED  BY <2>1, <2>2, <2>3
<1>. QED  BY <1>1, <1>2, <1>3, PTL DEF LifecycleSpec
=============================================================================
