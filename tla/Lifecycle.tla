------------------------------ MODULE Lifecycle ------------------------------
(***************************************************************************)
(* The application with compileTopology in full (framework/app.go): module *)
(* App, in which it is a single step, with the search of module Topology   *)
(* in that step's place.  The search runs on Run's goroutine; a signal may *)
(* start the AfterStop hook, and the process may end, between any two of   *)
(* its steps.                                                              *)
(***************************************************************************)
EXTENDS App

CONSTANT DepList        \* DepList[n]: the slice that DependsOn of n returns

ASSUME DepListAssumption ==
  /\ DepList \in [Name -> Seq(Name)]
  /\ DependsOn = [n \in Name |-> Elems(DepList[n])]

VARIABLES
  visited, stack, order, \* of the search, see module Topology
  result

searchVars == <<visited, stack, order, result>>
allVars == <<vars, searchVars>>

Search == INSTANCE Topology WITH registered <- modules, deps <- DepList

LifecycleInit ==
  /\ Init
  /\ visited = [n \in Name |-> 0]
  /\ stack = <<>>
  /\ order = <<>>
  /\ result = "running"

\* compileTopology is called once every module is initialised.  Its error ends
\* Run; otherwise Run begins to start the modules.
SearchStep ==
  /\ alive /\ pc = "init"
  /\ inited = modules
  /\ Search!Next
  /\ pc' = CASE result' = "running" -> "init"
             [] result' = "ok" -> "start"
             [] OTHER -> "failed"
  /\ UNCHANGED <<inited, cur, waitDone, late, taskVars, instances, hookVars, exiting, alive>>

LifecycleNext ==
  \/ SearchStep
  \/ (RunStep \/ Around) /\ UNCHANGED searchVars

LifecycleSpec == LifecycleInit /\ [][LifecycleNext]_allVars

\* As FairSpec of App: Run's goroutine and the hook keep stepping.
FairLifecycleSpec ==
  /\ LifecycleSpec
  /\ WF_allVars(SearchStep \/ (RunStep /\ UNCHANGED searchVars))
  /\ WF_allVars(Hook /\ UNCHANGED searchVars)

-----------------------------------------------------------------------------
\* The search may stand for the single step of App: to everybody else it is not
\* visible that compileTopology takes many steps, wherever a signal or the end
\* of the process comes between them, and it fails only if no order exists
\* (app.go:176).
ImplementsApp == FairSpec
=============================================================================
