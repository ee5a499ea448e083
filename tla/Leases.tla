------------------------------- MODULE Leases -------------------------------
(***************************************************************************)
(* What ServiceInfo (discovery/module.go) promises its users: a stored     *)
(* service is held for exactly Interval after it was last stored, and not  *)
(* a moment longer; a lookup returns a service held under that name, and   *)
(* none only when there is none.  Sweeping is not visible.                 *)
(***************************************************************************)
EXTENDS Integers

CONSTANTS Instance, Service, Interval, NoEntry

VARIABLES
  lease,               \* per instance: NoEntry, or its name and the time it was stored
  now,
  answer               \* the instances the last lookup returned

vars == <<lease, now, answer>>

Held(name) == { i \in Instance : lease[i] # NoEntry /\ lease[i].name = name }

Init ==
  /\ lease = [i \in Instance |-> NoEntry]
  /\ now \in Nat
  /\ answer = {}

Put(i, name) ==
  /\ lease' = [lease EXCEPT ![i] = [name |-> name, dt |-> now]]
  /\ UNCHANGED <<now, answer>>

Remove(i) ==
  /\ lease' = [lease EXCEPT ![i] = NoEntry]
  /\ UNCHANGED <<now, answer>>

Find(name) ==
  /\ IF Held(name) = {} THEN answer' = {}
                        ELSE \E i \in Held(name) : answer' = {i}
  /\ UNCHANGED <<lease, now>>

List ==
  /\ answer' = { i \in Instance : lease[i] # NoEntry }
  /\ UNCHANGED <<lease, now>>

\* Time moves on and ends the leases that are now older than Interval.
Pass ==
  /\ now' = now + 1
  /\ lease' = [i \in Instance |->
                 IF lease[i] # NoEntry /\ Interval > 0 /\ now + 1 - lease[i].dt > Interval
                   THEN NoEntry ELSE lease[i]]
  /\ UNCHANGED answer

Next ==
  \/ \E i \in Instance, name \in Service : Put(i, name)
  \/ \E i \in Instance : Remove(i)
  \/ \E name \in Service : Find(name)
  \/ List
  \/ Pass

Spec == Init /\ [][Next]_vars
=============================================================================
