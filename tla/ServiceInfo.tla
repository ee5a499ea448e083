---------------------------- MODULE ServiceInfo -----------------------------
(***************************************************************************)
(* ServiceInfo (discovery/module.go): the map of services every discovery  *)
(* module keeps, whose entries expire lazily and are swept by a goroutine  *)
(* once per interval.  Each operation holds the RWMutex throughout, so it  *)
(* is one step; time is counted in units that divide Interval.             *)
(***************************************************************************)
EXTENDS ServiceCache

CONSTANTS
  Instance,             \* keys of the map
  Service,              \* service names
  Interval,             \* timeInterval; 0: entries never expire, no sweeper
  NoEntry,
  MaxTime               \* bound on the clock, for model checking

ASSUME IntervalAssumption == Interval \in Nat
ASSUME MaxTimeAssumption == MaxTime \in Nat
ASSUME NoEntryAssumption == NoEntry \notin [name : Service, dt : Nat]

VARIABLES
  data,                 \* data[i]: NoEntry, or Info.Name and Info.DtUpdate
  now,                  \* time.Now()
  nextSweep,            \* when the sweeper's ticker fires next
  answer                \* the instances Load or All returned last

vars == <<data, now, nextSweep, answer>>

Entry == [name : Service, dt : Nat]

Expired(i) == IsExpired(now - data[i].dt, Interval)

Init ==
  /\ data = [i \in Instance |-> NoEntry]
  /\ now = 0
  /\ nextSweep = Interval
  /\ answer = {}

-----------------------------------------------------------------------------
\* (variant: Store records when the entry will expire)
StoreDeadline(i, name) ==
  /\ data' = [data EXCEPT ![i] = [name |-> name, dt |-> now + Interval]]
  /\ UNCHANGED <<now, nextSweep, answer>>

\* Store stamps the entry with the current time and replaces the old one.
Store(i, name) ==
  /\ data' = [data EXCEPT ![i] = [name |-> name, dt |-> now]]
  /\ UNCHANGED <<now, nextSweep, answer>>

Delete(i) ==
  /\ data' = [data EXCEPT ![i] = NoEntry]
  /\ UNCHANGED <<now, nextSweep, answer>>

\* (variant: the cleanup is left to the sweeper)
LoadAny(name) ==
  LET found == { i \in Instance : data[i] # NoEntry /\ data[i].name = name } IN
    /\ IF found = {} THEN answer' = {} ELSE \E i \in found : answer' = {i}
    /\ UNCHANGED <<data, now, nextSweep>>

\* Load ranges over the map, skips what is expired and stops at the first
\* entry with the name; Go's map order makes the choice arbitrary.
Load(name) ==
  LET found == { i \in Instance :
                   data[i] # NoEntry /\ ~Expired(i) /\ data[i].name = name } IN
    /\ IF found = {} THEN answer' = {} ELSE \E i \in found : answer' = {i}
    /\ UNCHANGED <<data, now, nextSweep>>

All ==
  /\ answer' = { i \in Instance : data[i] # NoEntry /\ ~Expired(i) }
  /\ UNCHANGED <<data, now, nextSweep>>

\* (variant: the sweeper waits two intervals between sweeps)
SweepRarely ==
  /\ Interval > 0 /\ now = nextSweep
  /\ data' = [i \in Instance |->
                IF data[i] # NoEntry /\ Expired(i) THEN NoEntry ELSE data[i]]
  /\ nextSweep' = now + 2 * Interval
  /\ UNCHANGED <<now, answer>>

\* The sweeper's goroutine, on each tick.
Sweep ==
  /\ Interval > 0 /\ now = nextSweep
  /\ data' = [i \in Instance |->
                IF data[i] # NoEntry /\ Expired(i) THEN NoEntry ELSE data[i]]
  /\ nextSweep' = now + Interval
  /\ UNCHANGED <<now, answer>>

\* The sweeper is not late by as much as a unit of time.
Tick ==
  /\ now < MaxTime
  /\ Interval > 0 => now < nextSweep
  /\ now' = now + 1
  /\ UNCHANGED <<data, nextSweep, answer>>

Next ==
  \/ \E i \in Instance, name \in Service : Store(i, name)
  \/ \E i \in Instance : Delete(i)
  \/ \E name \in Service : Load(name)
  \/ All
  \/ Sweep
  \/ Tick

Spec == Init /\ [][Next]_vars

-----------------------------------------------------------------------------
\* No entry is stamped in the future, and the next sweep is at most one
\* interval away.
TypeOK ==
  /\ data \in [Instance -> Entry \cup {NoEntry}]
  /\ \A i \in Instance : data[i] # NoEntry => data[i].dt <= now
  /\ now \in Nat
  /\ nextSweep \in Nat
  /\ Interval > 0 => now <= nextSweep /\ nextSweep <= now + Interval
  /\ answer \in SUBSET Instance

\* The map does not grow with dead services: an entry is gone at the latest
\* two intervals after it was last stored (module.go:164-175).
SweptInTime ==
  Interval > 0 =>
    \A i \in Instance : data[i] # NoEntry => now - data[i].dt <= 2 * Interval

\* An expired entry that is still in the map is as good as gone.
leaseMap == [i \in Instance |->
               IF data[i] # NoEntry /\ Expired(i) THEN NoEntry ELSE data[i]]

Abstract == INSTANCE Leases WITH lease <- leaseMap

\* Lazy expiry and sweeping together behave like leases that end on time:
\* no lookup returns an expired service or misses one that is held.
ImplementsLeases == Abstract!Spec
=============================================================================
