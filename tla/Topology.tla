------------------------------ MODULE Topology ------------------------------
(***************************************************************************)
(* compileTopology (framework/app.go): the depth-first search that turns   *)
(* the registered modules and their DependsOn lists into App.orderedMods.  *)
(*                                                                         *)
(* The recursive closure dfs is an explicit stack of frames, one per       *)
(* active call.  Go iterates over App.modules in an unspecified order, so  *)
(* the root of each search is a nondeterministic choice.  Modules are      *)
(* identified by their names (the keys of App.modules).                    *)
(***************************************************************************)
EXTENDS Naturals, Sequences

CONSTANT Name             \* every name a module or a DependsOn list may use

VARIABLES
  registered,             \* keys of App.modules
  deps,                   \* deps[n]: what DependsOn returns, <<>> if not Dependable
  visited,                \* visited[n]: 0 unvisited, 1 in progress, 2 finished
  stack,                  \* active calls of dfs, the innermost one last
  order,                  \* the local slice "order"
  orderedMods,            \* App.orderedMods
  result                  \* "running", "ok", "circular" or "missing"

vars == <<registered, deps, visited, stack, order, orderedMods, result>>

Elems(s) == { s[i] : i \in 1..Len(s) }

DepSet(n) == Elems(deps[n])

\* A call dfs(name) that has already returned from its first "done" dependencies.
Frame == [name : Name, done : Nat]

Top == stack[Len(stack)]
Below == SubSeq(stack, 1, Len(stack) - 1)

OnStack == { stack[i].name : i \in 1..Len(stack) }

Init ==
  /\ registered \in SUBSET Name
  /\ deps \in [Name -> Seq(Name)]
  /\ visited = [n \in Name |-> 0]
  /\ stack = <<>>
  /\ order = <<>>
  /\ orderedMods = <<>>
  /\ result = "running"

-----------------------------------------------------------------------------
\* (variant: visited counts the visits)
EnterCounting(d) ==
  /\ visited' = [visited EXCEPT ![d] = @ + 1]
  /\ IF d \in registered
       THEN stack' = Append(stack, [name |-> d, done |-> 0]) /\ UNCHANGED result
       ELSE result' = "missing" /\ UNCHANGED stack
  /\ UNCHANGED <<registered, deps, order, orderedMods>>

\* Enter dfs(d) with visited[d] = 0: mark it, then look it up in App.modules.
Enter(d) ==
  /\ visited[d] = 0
  /\ visited' = [visited EXCEPT ![d] = 1]
  /\ IF d \in registered
       THEN stack' = Append(stack, [name |-> d, done |-> 0]) /\ UNCHANGED result
       ELSE result' = "missing" /\ UNCHANGED stack
  /\ UNCHANGED <<registered, deps, order, orderedMods>>

\* The range loop over App.modules picks an unvisited module.
PickRoot(n) ==
  /\ result = "running"
  /\ stack = <<>>
  /\ n \in registered
  /\ Enter(n)

\* The innermost call has a dependency left to visit.
Pending ==
  /\ result = "running"
  /\ stack # <<>>
  /\ Top.done < Len(deps[Top.name])

NextDep == deps[Top.name][Top.done + 1]

\* A dependency that is unvisited is entered ...
Descend == Pending /\ Enter(NextDep)

\* ... one that is in progress closes a cycle, and the error unwinds every call ...
Cycle ==
  /\ Pending
  /\ visited[NextDep] = 1
  /\ result' = "circular"
  /\ UNCHANGED <<registered, deps, visited, stack, order, orderedMods>>

\* (variant: only a module that is not in progress is reported as a cycle)
FinishedIsCycle ==
  /\ Pending
  /\ visited[NextDep] = 2
  /\ result' = "circular"
  /\ UNCHANGED <<registered, deps, visited, stack, order, orderedMods>>

\* (variant: the loop over the dependencies does not advance)
SkipStays ==
  /\ Pending
  /\ visited[NextDep] = 2
  /\ UNCHANGED vars

\* ... and one that is finished is skipped.
Skip ==
  /\ Pending
  /\ visited[NextDep] = 2
  /\ stack' = [stack EXCEPT ![Len(stack)] = [name |-> Top.name, done |-> Top.done + 1]]
  /\ UNCHANGED <<registered, deps, visited, order, orderedMods, result>>

\* (variant: the module is appended before its dependencies are visited)
FinishEarly ==
  /\ result = "running"
  /\ stack # <<>>
  /\ visited' = [visited EXCEPT ![Top.name] = 2]
  /\ order' = Append(order, Top.name)
  /\ stack' = Below
  /\ UNCHANGED <<registered, deps, orderedMods, result>>

\* Every dependency returned: the call marks its module finished, appends it
\* to the order and returns.  Its caller finds it finished and skips it.
Finish ==
  /\ result = "running"
  /\ stack # <<>>
  /\ Top.done = Len(deps[Top.name])
  /\ visited' = [visited EXCEPT ![Top.name] = 2]
  /\ order' = Append(order, Top.name)
  /\ stack' = Below
  /\ UNCHANGED <<registered, deps, orderedMods, result>>

\* (variant: the order is taken over once the first search is done)
CommitEarly ==
  /\ result = "running"
  /\ stack = <<>>
  /\ order # <<>>
  /\ orderedMods' = order
  /\ result' = "ok"
  /\ UNCHANGED <<registered, deps, visited, stack, order>>

\* Every module is visited: only now is App.orderedMods assigned.
Commit ==
  /\ result = "running"
  /\ stack = <<>>
  /\ \A n \in registered : visited[n] # 0
  /\ orderedMods' = order
  /\ result' = "ok"
  /\ UNCHANGED <<registered, deps, visited, stack, order>>

Next ==
  \/ \E n \in Name : PickRoot(n)
  \/ Descend
  \/ Cycle
  \/ Skip
  \/ Finish
  \/ Commit

Spec == Init /\ [][Next]_vars

\* compileTopology is sequential code on Run's goroutine: it keeps stepping.
FairSpec == Spec /\ WF_vars(Next)

-----------------------------------------------------------------------------
TypeOK ==
  /\ registered \in SUBSET Name
  /\ deps \in [Name -> Seq(Name)]
  /\ visited \in [Name -> {0, 1, 2}]
  /\ stack \in Seq(Frame)
  /\ order \in Seq(Name)
  /\ orderedMods \in Seq(Name)
  /\ result \in {"running", "ok", "circular", "missing"}

\* Every dependency of a module in the sequence stands before it.
DepsFirst(s) ==
  \A i \in 1..Len(s) : \A d \in DepSet(s[i]) : \E j \in 1..(i - 1) : s[j] = d

\* Once App.orderedMods is assigned it holds every registered module exactly
\* once, each after all of its dependencies: Run starts modules in this order
\* and the AfterStop hook stops them in the reverse order (app.go:72, :179).
TopologicalOrder ==
  result = "ok" =>
    /\ Elems(orderedMods) = registered
    /\ \A i, j \in 1..Len(orderedMods) : orderedMods[i] = orderedMods[j] => i = j
    /\ DepsFirst(orderedMods)

\* A set of registered modules none of which can be the first to start.
Blocked(S) ==
  /\ S # {}
  /\ S \subseteq registered
  /\ \A n \in S : \E d \in DepSet(n) : d \in S \/ d \notin registered

\* compileTopology fails exactly when no start order exists: an error is
\* reported only if some set of modules can never start, and success only if
\* there is none (app.go:211, :220, :245).
FailsIffBlocked ==
  /\ result \in {"circular", "missing"} => \E S \in SUBSET registered : Blocked(S)
  /\ result = "ok" => \A S \in SUBSET registered : ~Blocked(S)

\* Whatever the graph, the search ends: a cycle cannot make dfs recurse for ever.
Terminates == <>(result # "running")

\* The search implements the abstract start order: appending to "order" is
\* appending to the plan, an error is a rejection, all other steps stutter.
verdictMap ==
  CASE result = "running" -> "open"
    [] result = "ok" -> "accepted"
    [] OTHER -> "rejected"

Abstract == INSTANCE StartOrder WITH plan <- order, verdict <- verdictMap

\* Every run of compileTopology is a run of the abstract specification, its
\* fairness included.
ImplementsStartOrder == Abstract!Spec
=============================================================================
