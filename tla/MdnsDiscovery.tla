---------------------------- MODULE MdnsDiscovery ----------------------------
(***************************************************************************)
(* discovery/mdns/mdns.go: the cache of services heard of by multicast,    *)
(* and its stale-while-revalidate lookups.  Any number of callers of Find  *)
(* run beside three activities of the module: the consumer of arriving     *)
(* entries, the worker that queries for stale instances, and the expiry    *)
(* of removeCache.                                                         *)
(*                                                                         *)
(* An entry's age matters in three classes only: under staleAfter (5 min), *)
(* under purgeAfter (8 min), older.  Ageing, and the 5 s after which       *)
(* removeCache drops an entry, come at any time.  All instances are taken  *)
(* to have the name Find is called with.  The network is external: entries *)
(* arrive, or do not, whatever is asked.                                   *)
(***************************************************************************)
EXTENDS Naturals, Sequences, FiniteSets

CONSTANTS
  Instance,
  Finder,               \* goroutines that call Find
  QueueCap              \* capacity of lookupCh

ASSUME QueueCapAssumption == QueueCap \in Nat \ {0}

VARIABLES
  age,                  \* infoCache: "none", "fresh", "stale" or "dead" per instance
  lookupMap,            \* instances marked as being looked up
  lookupCh,             \* queue of the instances to look up
  removeCache,          \* instances that will be dropped from infoCache
  finder,               \* where each Find is, and the instance it loaded
  worker,               \* where the worker is, and its instance
  consumer,             \* the entry stored whose marker is to be deleted yet
  ctxDone,              \* is the context given to Start done?
  status                \* "new", "running" or "stopped" (lookupCh closed)

vars == <<age, lookupMap, lookupCh, removeCache, finder, worker, consumer, ctxDone, status>>

At(where, i) == [at |-> where, inst |-> i]

\* An activity that is at no step is at no instance.
Idle(where) == [at |-> where]

InQueue == { lookupCh[k] : k \in 1..Len(lookupCh) }

Init ==
  /\ age = [i \in Instance |-> "none"]
  /\ lookupMap = {}
  /\ lookupCh = <<>>
  /\ removeCache = {}
  /\ finder = [f \in Finder |-> Idle("idle")]
  /\ worker = Idle("off")
  /\ consumer = Idle("off")
  /\ ctxDone = FALSE
  /\ status = "new"

-----------------------------------------------------------------------------
(* Start and Stop *)

\* The two goroutines start, with a context that may be done already.  (They go on
\* if Browse then fails.  Without a resolver there are none: nothing is ever
\* stored, and Find has nothing to do.)
Start(done) ==
  /\ status = "new"
  /\ status' = "running"
  /\ ctxDone' = done
  /\ worker' = Idle("idle")
  /\ consumer' = Idle("idle")
  /\ UNCHANGED <<age, lookupMap, lookupCh, removeCache, finder>>

Cancel ==
  /\ status # "new"
  /\ ctxDone' = TRUE
  /\ UNCHANGED <<age, lookupMap, lookupCh, removeCache, finder, worker, consumer, status>>

\* Stop closes lookupCh.
Stop ==
  /\ status = "running"
  /\ status' = "stopped"
  /\ UNCHANGED <<age, lookupMap, lookupCh, removeCache, finder, worker, consumer, ctxDone>>

-----------------------------------------------------------------------------
(* Find *)

\* Find loads an entry and acts on its age: it returns a fresh one, and goes
\* on to purge a dead one or to have a stale one looked up.
Find(f) ==
  /\ status # "new"
  /\ finder[f].at = "idle"
  /\ \E i \in Instance :
       \/ age[i] = "dead"  /\ finder' = [finder EXCEPT ![f] = At("purge", i)]
       \/ age[i] = "stale" /\ finder' = [finder EXCEPT ![f] = At("mark", i)]
  /\ UNCHANGED <<age, lookupMap, lookupCh, removeCache, worker, consumer, ctxDone, status>>

\* Delete by name: whatever is stored under the name by now.
Purge(f) ==
  /\ finder[f].at = "purge"
  /\ age' = [age EXCEPT ![finder[f].inst] = "none"]
  /\ finder' = [finder EXCEPT ![f] = Idle("idle")]
  /\ UNCHANGED <<lookupMap, lookupCh, removeCache, worker, consumer, ctxDone, status>>

\* LoadOrStore: only who sets the marker goes on to signal the worker.
Mark(f) ==
  /\ finder[f].at = "mark"
  /\ IF finder[f].inst \in lookupMap
       THEN finder' = [finder EXCEPT ![f] = Idle("idle")] /\ UNCHANGED lookupMap
       ELSE /\ finder' = [finder EXCEPT ![f] = At("send", finder[f].inst)]
            /\ lookupMap' = lookupMap \cup {finder[f].inst}
  /\ UNCHANGED <<age, lookupCh, removeCache, worker, consumer, ctxDone, status>>

\* (variant: the send waits for room in the queue)
SendWaits(f) ==
  /\ finder[f].at = "send"
  /\ status # "stopped"
  /\ Len(lookupCh) < QueueCap
  /\ lookupCh' = Append(lookupCh, finder[f].inst)
  /\ finder' = [finder EXCEPT ![f] = Idle("idle")]
  /\ UNCHANGED <<age, lookupMap, removeCache, worker, consumer, ctxDone, status>>

\* (variant: a full queue leaves the marker set)
SendKeepsMarker(f) ==
  /\ finder[f].at = "send"
  /\ status # "stopped"
  /\ lookupCh' = IF Len(lookupCh) < QueueCap THEN Append(lookupCh, finder[f].inst) ELSE lookupCh
  /\ finder' = [finder EXCEPT ![f] = Idle("idle")]
  /\ UNCHANGED <<age, lookupMap, removeCache, worker, consumer, ctxDone, status>>

\* (variant: signals are kept in a list without a bound)
SendUnbounded(f) ==
  /\ finder[f].at = "send"
  /\ status # "stopped"
  /\ lookupCh' = Append(lookupCh, finder[f].inst)
  /\ finder' = [finder EXCEPT ![f] = Idle("idle")]
  /\ UNCHANGED <<age, lookupMap, removeCache, worker, consumer, ctxDone, status>>

\* The select sends if there is room, and otherwise takes the marker back.
Send(f) ==
  /\ finder[f].at = "send"
  /\ status # "stopped"
  /\ IF Len(lookupCh) < QueueCap
       THEN lookupCh' = Append(lookupCh, finder[f].inst) /\ UNCHANGED lookupMap
       ELSE lookupMap' = lookupMap \ {finder[f].inst} /\ UNCHANGED lookupCh
  /\ finder' = [finder EXCEPT ![f] = Idle("idle")]
  /\ UNCHANGED <<age, removeCache, worker, consumer, ctxDone, status>>

\* Sending on the channel Stop has closed panics, in the caller of Find.
SendPanics(f) ==
  /\ finder[f].at = "send"
  /\ status = "stopped"
  /\ finder' = [finder EXCEPT ![f] = Idle("panicked")]
  /\ UNCHANGED <<age, lookupMap, lookupCh, removeCache, worker, consumer, ctxDone, status>>

-----------------------------------------------------------------------------
(* The worker *)

\* A closed channel still yields what is in it.
Receive ==
  /\ worker.at = "idle"
  /\ lookupCh # <<>>
  /\ worker' = At("check", Head(lookupCh))
  /\ lookupCh' = Tail(lookupCh)
  /\ UNCHANGED <<age, lookupMap, removeCache, finder, consumer, ctxDone, status>>

\* An instance whose marker is gone was answered meanwhile: nothing to do.
Check ==
  /\ worker.at = "check"
  /\ worker' = IF worker.inst \in lookupMap THEN At("lookup", worker.inst) ELSE Idle("idle")
  /\ UNCHANGED <<age, lookupMap, lookupCh, removeCache, finder, consumer, ctxDone, status>>

\* The query is sent (entries, if any, arrive as they like), and whatever its
\* outcome the entry is due to be dropped in 5 s.
Lookup ==
  /\ worker.at = "lookup"
  /\ removeCache' = removeCache \cup {worker.inst}
  /\ worker' = At("unmark", worker.inst)
  /\ UNCHANGED <<age, lookupMap, lookupCh, finder, consumer, ctxDone, status>>

\* Stop has set the resolver to nil: the query panics, and nothing recovers it,
\* though the deferred Delete still runs.  (A worker that read the field before
\* may go on.)
LookupPanics ==
  /\ worker.at = "lookup"
  /\ status = "stopped"
  /\ lookupMap' = lookupMap \ {worker.inst}
  /\ worker' = Idle("panicked")
  /\ UNCHANGED <<age, lookupCh, removeCache, finder, consumer, ctxDone, status>>

\* The deferred Delete of the marker.
Unmark ==
  /\ worker.at = "unmark"
  /\ lookupMap' = lookupMap \ {worker.inst}
  /\ worker' = Idle("idle")
  /\ UNCHANGED <<age, lookupCh, removeCache, finder, consumer, ctxDone, status>>

WorkerLeaves ==
  /\ worker.at = "idle"
  /\ ctxDone \/ (status = "stopped" /\ lookupCh = <<>>)
  /\ worker' = Idle("gone")
  /\ UNCHANGED <<age, lookupMap, lookupCh, removeCache, finder, consumer, ctxDone, status>>

-----------------------------------------------------------------------------
(* The consumer, removeCache, and time *)

\* An entry arrives, from the browse or from a lookup, and is stored ...
Arrive(i) ==
  /\ consumer.at = "idle"
  /\ age' = [age EXCEPT ![i] = "fresh"]
  /\ consumer' = At("stored", i)
  /\ UNCHANGED <<lookupMap, lookupCh, removeCache, finder, worker, ctxDone, status>>

\* ... and its marker is deleted.
Answered ==
  /\ consumer.at = "stored"
  /\ lookupMap' = lookupMap \ {consumer.inst}
  /\ consumer' = Idle("idle")
  /\ UNCHANGED <<age, lookupCh, removeCache, finder, worker, ctxDone, status>>

\* The context is done, or zeroconf has closed the channel of entries, which it
\* may do at the end of a browse or lookup.
ConsumerLeaves ==
  /\ consumer.at = "idle"
  /\ consumer' = Idle("gone")
  /\ UNCHANGED <<age, lookupMap, lookupCh, removeCache, finder, worker, ctxDone, status>>

\* The 5 s of an instance in removeCache are over.
Drop(i) ==
  /\ i \in removeCache
  /\ removeCache' = removeCache \ {i}
  /\ age' = [age EXCEPT ![i] = "none"]
  /\ UNCHANGED <<lookupMap, lookupCh, finder, worker, consumer, ctxDone, status>>

Age(i) ==
  /\ \/ age[i] = "fresh" /\ age' = [age EXCEPT ![i] = "stale"]
     \/ age[i] = "stale" /\ age' = [age EXCEPT ![i] = "dead"]
  /\ UNCHANGED <<lookupMap, lookupCh, removeCache, finder, worker, consumer, ctxDone, status>>

-----------------------------------------------------------------------------
FindStep(f) == Purge(f) \/ Mark(f) \/ Send(f) \/ SendPanics(f)

WorkerStep == Receive \/ Check \/ Lookup \/ LookupPanics \/ Unmark \/ WorkerLeaves

ConsumerStep == Answered \/ ConsumerLeaves \/ \E i \in Instance : Arrive(i)

Next ==
  \/ \E done \in BOOLEAN : Start(done)
  \/ Cancel
  \/ Stop
  \/ \E f \in Finder : Find(f) \/ FindStep(f)
  \/ WorkerStep
  \/ ConsumerStep
  \/ \E i \in Instance : Drop(i) \/ Age(i)

Spec == Init /\ [][Next]_vars

-----------------------------------------------------------------------------
Places(places) == { At(p, i) : p \in places, i \in Instance }

TypeOK ==
  /\ age \in [Instance -> {"none", "fresh", "stale", "dead"}]
  /\ lookupMap \in SUBSET Instance
  /\ lookupCh \in Seq(Instance) /\ Len(lookupCh) <= QueueCap
  /\ removeCache \in SUBSET Instance
  /\ finder \in [Finder -> Places({"purge", "mark", "send"})
                             \cup {Idle("idle"), Idle("panicked")}]
  /\ worker \in Places({"check", "lookup", "unmark"})
                  \cup {Idle(p) : p \in {"off", "idle", "gone", "panicked"}}
  /\ consumer \in Places({"stored"}) \cup {Idle(p) : p \in {"off", "idle", "gone"}}
  /\ ctxDone \in BOOLEAN
  /\ status \in {"new", "running", "stopped"}

\* A marker always has someone who will take it back: a Find about to signal,
\* a place in the queue of a worker that has not left, or the worker itself.
\* A marker left behind would keep its instance from ever being looked up
\* again (mdns.go:138, :204).  Two Finds, the worker and the consumer delete
\* each other's markers; as long as the module runs, none is orphaned.
MarkerBacked ==
  status = "running" /\ ~ctxDone =>
    \A i \in lookupMap :
      \/ \E f \in Finder : finder[f] = At("send", i)
      \/ i \in InQueue /\ worker.at # "gone"
      \/ worker \in Places({"check", "lookup", "unmark"}) /\ worker.inst = i

\* Find never waits, whatever the worker does: its next step is possible with
\* the queue full, the worker gone or the module stopped (mdns.go:200-205).
FindNeverBlocks ==
  \A f \in Finder : finder[f].at \in {"purge", "mark", "send"} => ENABLED FindStep(f)

\* What mdns.go:19 says of removal: a service is dropped from the table when
\* nothing was heard of it for purgeAfter, so not while its entry is fresh.
KeptWhileFresh == [][\A i \in Instance : age[i] = "fresh" => age'[i] # "none"]_vars
=============================================================================
