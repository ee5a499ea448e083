----------------------------- MODULE StartOrder -----------------------------
(***************************************************************************)
(* What compileTopology (framework/app.go) promises: either an order in    *)
(* which the registered modules can be started, every module after all the *)
(* modules it declares in DependsOn, or a refusal when no such order       *)
(* exists.  Nothing is said of how the order is found.                     *)
(***************************************************************************)
EXTENDS Naturals, Sequences

CONSTANT Name          \* module names

VARIABLES
  registered,          \* the keys of App.modules
  deps,                \* what DependsOn returns, per name
  plan,                \* the start order, built front to back
  verdict              \* "open", "accepted" or "rejected"

vars == <<registered, deps, plan, verdict>>

Elems(s) == { s[i] : i \in 1..Len(s) }

DepSet(n) == Elems(deps[n])

(***************************************************************************)
(* A set of registered modules none of which can be the first of the set   *)
(* to start: each waits for another one of the set or for a module that    *)
(* was never registered.  A start order exists iff there is no such set.   *)
(***************************************************************************)
Blocked(S) ==
  /\ S # {}
  /\ S \subseteq registered
  /\ \A n \in S : \E d \in DepSet(n) : d \in S \/ d \notin registered

Init ==
  /\ registered \subseteq Name
  /\ deps \in [Name -> Seq(Name)]
  /\ plan = <<>>
  /\ verdict = "open"

Append1(n) ==
  /\ verdict = "open"
  /\ n \in registered \ Elems(plan)
  /\ DepSet(n) \subseteq Elems(plan)
  /\ plan' = Append(plan, n)
  /\ UNCHANGED <<registered, deps, verdict>>

Accept ==
  /\ verdict = "open"
  /\ registered = Elems(plan)
  /\ verdict' = "accepted"
  /\ UNCHANGED <<registered, deps, plan>>

Reject ==
  /\ verdict = "open"
  /\ \E S \in SUBSET registered : Blocked(S)
  /\ verdict' = "rejected"
  /\ UNCHANGED <<registered, deps, plan>>

Next == Accept \/ Reject \/ \E n \in Name : Append1(n)

Safety == Init /\ [][Next]_vars

\* A search for a start order is not abandoned.
Spec == Safety /\ WF_vars(Next)
=============================================================================
