------------------------- MODULE ServiceInfo_proofs -------------------------
(***************************************************************************)
(* Proofs about ServiceInfo, for every set of instances and services and   *)
(* every interval, and for a clock without a useful bound (any MaxTime).   *)
(***************************************************************************)
EXTENDS ServiceInfo, TLAPS

\* Seen from the next sweep, no entry is older than two intervals: what makes
\* SweptInTime inductive.
SweepDue ==
  Interval > 0 =>
    \A i \in Instance : data[i] # NoEntry => nextSweep - data[i].dt <= 2 * Interval

IInv == TypeOK /\ SweepDue

LEMMA InitInv == Init => IInv
<1>. SUFFICES ASSUME Init
              PROVE  IInv
  OBVIOUS
<1>1. \A i \in Instance : data[i] = NoEntry
  BY DEF Init
<1>2. TypeOK
  BY <1>1, IntervalAssumption DEF Init, TypeOK
<1>. QED  BY <1>1, <1>2 DEF IInv, SweepDue

LEMMA StoreInv ==
  ASSUME IInv, NEW i \in Instance, NEW name \in Service, Store(i, name)
  PROVE  IInv'
<1>. DEFINE e == [name |-> name, dt |-> now]
<1>1. /\ now \in Nat /\ nextSweep \in Nat
      /\ Interval > 0 => now <= nextSweep /\ nextSweep <= now + Interval
      /\ data \in [Instance -> Entry \cup {NoEntry}]
      /\ Interval \in Nat
  BY IntervalAssumption DEF IInv, TypeOK
<1>2. e \in Entry /\ e.dt = now
  BY <1>1 DEF Entry
<1>3. /\ data' = [data EXCEPT ![i] = e]
      /\ UNCHANGED <<now, nextSweep, answer>>
  BY DEF Store
<1>. HIDE DEF e
<1>4. \A j \in Instance : data'[j] = IF j = i THEN e ELSE data[j]
  BY <1>1, <1>3
<1>5. data' \in [Instance -> Entry \cup {NoEntry}]
  BY <1>1, <1>2, <1>3
<1>6. \A j \in Instance : data'[j] # NoEntry => data'[j].dt <= now
  BY <1>1, <1>2, <1>4 DEF IInv, TypeOK
<1>7. TypeOK'
  BY <1>3, <1>5, <1>6 DEF IInv, TypeOK
<1>8. ASSUME Interval > 0, NEW j \in Instance, data'[j] # NoEntry
      PROVE  nextSweep - data'[j].dt <= 2 * Interval
  <2>1. CASE j = i
    BY <1>1, <1>2, <1>4, <1>8, <2>1
  <2>2. CASE j # i
    BY <1>4, <1>8, <2>2 DEF IInv, SweepDue
  <2>. QED  BY <2>1, <2>2
<1>9. SweepDue'
  BY <1>3, <1>8 DEF SweepDue
<1>. QED  BY <1>7, <1>9 DEF IInv

LEMMA SweepInv ==
  ASSUME IInv, Sweep
  PROVE  IInv'
<1>1. /\ now \in Nat /\ nextSweep \in Nat /\ Interval \in Nat /\ Interval > 0
      /\ now = nextSweep
      /\ nextSweep' = now + Interval
      /\ UNCHANGED <<now, answer>>
      /\ data \in [Instance -> Entry \cup {NoEntry}]
      /\ \A i \in Instance : data[i] # NoEntry => data[i].dt <= now
  BY IntervalAssumption DEF IInv, TypeOK, Sweep
<1>2. \A i \in Instance :
        data'[i] = IF data[i] # NoEntry /\ Expired(i) THEN NoEntry ELSE data[i]
  BY DEF Sweep
<1>3. data' \in [Instance -> Entry \cup {NoEntry}]
  BY <1>1 DEF Sweep
<1>4. TypeOK'
  BY <1>1, <1>2, <1>3 DEF IInv, TypeOK
<1>5. ASSUME NEW i \in Instance, data'[i] # NoEntry
      PROVE  nextSweep' - data'[i].dt <= 2 * Interval
  <2>1. data'[i] = data[i] /\ data[i] # NoEntry /\ ~Expired(i) /\ data[i] \in Entry
    BY <1>1, <1>2, <1>5
  <2>2. now - data[i].dt <= Interval /\ data[i].dt \in Nat
    BY <1>1, <2>1 DEF Expired, IsExpired, Entry
  <2>. QED  BY <1>1, <2>1, <2>2
<1>. QED  BY <1>4, <1>5 DEF IInv, SweepDue

LEMMA InvStep == IInv /\ [Next]_vars => IInv'
<1>. SUFFICES ASSUME IInv, [Next]_vars
              PROVE  IInv'
  OBVIOUS
<1>. USE IntervalAssumption
<1>1. ASSUME NEW i \in Instance, NEW name \in Service, Store(i, name)
      PROVE  IInv'
  BY <1>1, StoreInv
<1>2. ASSUME NEW i \in Instance, Delete(i)
      PROVE  IInv'
  <2>1. \A j \in Instance : data'[j] = NoEntry \/ data'[j] = data[j]
    BY <1>2 DEF Delete, IInv, TypeOK
  <2>2. data' \in [Instance -> Entry \cup {NoEntry}]
    BY <1>2 DEF Delete, IInv, TypeOK
  <2>. QED  BY <1>2, <2>1, <2>2 DEF Delete, IInv, TypeOK, SweepDue
<1>3. ASSUME NEW name \in Service, Load(name)
      PROVE  IInv'
  <2>1. answer' \in SUBSET Instance /\ UNCHANGED <<data, now, nextSweep>>
    BY <1>3 DEF Load
  <2>. QED  BY <2>1 DEF IInv, TypeOK, SweepDue
<1>4. CASE All
  <2>1. answer' \in SUBSET Instance /\ UNCHANGED <<data, now, nextSweep>>
    BY <1>4 DEF All
  <2>. QED  BY <2>1 DEF IInv, TypeOK, SweepDue
<1>5. CASE Sweep
  BY <1>5, SweepInv
<1>6. CASE Tick
  <2>1. ASSUME NEW i \in Instance, data[i] # NoEntry
        PROVE  data[i].dt <= now + 1
    BY <2>1 DEF IInv, TypeOK, Entry
  <2>2. TypeOK'
    BY <1>6, <2>1 DEF Tick, IInv, TypeOK
  <2>. QED  BY <1>6, <2>2 DEF Tick, IInv, SweepDue
<1>7. CASE UNCHANGED vars
  BY <1>7 DEF vars, IInv, TypeOK, SweepDue
<1>. QED  BY <1>1, <1>2, <1>3, <1>4, <1>5, <1>6, <1>7 DEF Next

THEOREM Invariant == Spec => []IInv
BY InitInv, InvStep, PTL DEF Spec

\* Type correctness, with the bounds on the stamps and on the next sweep.
THEOREM TypeCorrect == Spec => []TypeOK
<1>1. IInv => TypeOK
  BY DEF IInv
<1>. QED  BY <1>1, Invariant, PTL

\* An entry that is not refreshed leaves the map within two intervals.
THEOREM SweepBound == Spec => []SweptInTime
<1>1. IInv => SweptInTime
  <2>. SUFFICES ASSUME IInv, Interval > 0, NEW i \in Instance, data[i] # NoEntry
                PROVE  now - data[i].dt <= 2 * Interval
    BY DEF SweptInTime
  <2>1. /\ now \in Nat /\ nextSweep \in Nat /\ now <= nextSweep
        /\ data[i].dt \in Nat
        /\ nextSweep - data[i].dt <= 2 * Interval
    BY DEF IInv, TypeOK, SweepDue, Entry
  <2>. QED  BY <2>1, IntervalAssumption
<1>. QED  BY <1>1, Invariant, PTL

-----------------------------------------------------------------------------
(* Lazy expiry and sweeping implement leases *)

LEMMA StepImplements ==
  ASSUME IInv, [Next]_vars
  PROVE  [Abstract!Next]_(Abstract!vars)
<1>. USE IntervalAssumption DEF Abstract!vars
<1>0. /\ now \in Nat
      /\ data \in [Instance -> Entry \cup {NoEntry}]
      /\ \A i \in Instance : data[i] # NoEntry => data[i] \in Entry /\ data[i].dt <= now
      /\ \A e \in Entry : e # NoEntry /\ e.dt \in Nat /\ e.name \in Service
  BY NoEntryAssumption DEF IInv, TypeOK, Entry
<1>1. ASSUME NEW i \in Instance, NEW name \in Service, Store(i, name)
      PROVE  Abstract!Next
  <2>. DEFINE e == [name |-> name, dt |-> now]
  <2>1. e \in Entry /\ e.dt = now
    BY <1>0 DEF Entry
  <2>2. \A j \in Instance : data'[j] = IF j = i THEN e ELSE data[j]
    BY <1>0, <1>1 DEF Store
  <2>3. UNCHANGED <<now, answer>>
    BY <1>1 DEF Store
  <2>4. leaseMap' = [leaseMap EXCEPT ![i] = e]
    <3>. HIDE DEF e
    <3>1. ~IsExpired(now - e.dt, Interval)
      BY <1>0, <2>1 DEF IsExpired
    <3>2. ASSUME NEW j \in Instance
          PROVE  leaseMap'[j] = IF j = i THEN e ELSE leaseMap[j]
      <4>1. CASE j = i
        BY <1>0, <2>1, <2>2, <2>3, <3>1, <4>1 DEF leaseMap, Expired
      <4>2. CASE j # i
        BY <2>2, <2>3, <4>2 DEF leaseMap, Expired
      <4>. QED  BY <4>1, <4>2
    <3>3. /\ leaseMap = [j \in Instance |-> leaseMap[j]]
          /\ leaseMap' = [j \in Instance |-> leaseMap'[j]]
      BY DEF leaseMap
    <3>. HIDE DEF leaseMap
    <3>. QED  BY <3>2, <3>3
  <2>5. Abstract!Put(i, name)
    BY <2>3, <2>4 DEF Abstract!Put
  <2>. QED  BY <2>5 DEF Abstract!Next
<1>2. ASSUME NEW i \in Instance, Delete(i)
      PROVE  Abstract!Next
  <2>1. leaseMap' = [leaseMap EXCEPT ![i] = NoEntry]
    BY <1>0, <1>2 DEF Delete, leaseMap, Expired, IsExpired
  <2>2. Abstract!Remove(i)
    BY <1>2, <2>1 DEF Delete, Abstract!Remove
  <2>. QED  BY <2>2 DEF Abstract!Next
<1>3. ASSUME NEW name \in Service, Load(name)
      PROVE  Abstract!Next
  <2>1. Abstract!Held(name) =
          { i \in Instance : data[i] # NoEntry /\ ~Expired(i) /\ data[i].name = name }
    BY DEF Abstract!Held, leaseMap
  <2>2. leaseMap' = leaseMap
    BY <1>3 DEF Load, leaseMap, Expired
  <2>3. Abstract!Find(name)
    BY <1>3, <2>1, <2>2 DEF Load, Abstract!Find
  <2>. QED  BY <2>3 DEF Abstract!Next
<1>4. CASE All
  <2>1. { i \in Instance : leaseMap[i] # NoEntry } =
          { i \in Instance : data[i] # NoEntry /\ ~Expired(i) }
    BY DEF leaseMap
  <2>2. leaseMap' = leaseMap
    BY <1>4 DEF All, leaseMap, Expired
  <2>3. Abstract!List
    BY <1>4, <2>1, <2>2 DEF All, Abstract!List
  <2>. QED  BY <2>3 DEF Abstract!Next
<1>5. CASE Sweep
  <2>1. \A i \in Instance :
          data'[i] = IF data[i] # NoEntry /\ Expired(i) THEN NoEntry ELSE data[i]
    BY <1>5 DEF Sweep
  <2>2. UNCHANGED <<now, answer>>
    BY <1>5 DEF Sweep
  <2>3. leaseMap' = leaseMap
    BY <2>1, <2>2 DEF leaseMap, Expired, IsExpired
  <2>. QED  BY <2>2, <2>3
<1>6. CASE Tick
  <2>1. now' = now + 1 /\ UNCHANGED <<data, answer>>
    BY <1>6 DEF Tick
  <2>2. ASSUME NEW i \in Instance
        PROVE  leaseMap'[i] =
                 IF leaseMap[i] # NoEntry /\ Interval > 0 /\ now + 1 - leaseMap[i].dt > Interval
                   THEN NoEntry ELSE leaseMap[i]
    BY <1>0, <2>1 DEF leaseMap, Expired, IsExpired
  <2>3. leaseMap' =
          [i \in Instance |->
             IF leaseMap[i] # NoEntry /\ Interval > 0 /\ now + 1 - leaseMap[i].dt > Interval
               THEN NoEntry ELSE leaseMap[i]]
    BY <2>2 DEF leaseMap
  <2>4. Abstract!Pass
    BY <2>1, <2>3 DEF Abstract!Pass
  <2>. QED  BY <2>4 DEF Abstract!Next
<1>7. CASE UNCHANGED vars
  BY <1>7 DEF vars, leaseMap, Expired
<1>. QED  BY <1>1, <1>2, <1>3, <1>4, <1>5, <1>6, <1>7 DEF Next

\* ServiceInfo implements leases that end on time, for every interval.
THEOREM Implements == Spec => ImplementsLeases
<1>1. Init => Abstract!Init
  BY DEF Init, Abstract!Init, leaseMap
<1>2. IInv /\ [Next]_vars => [Abstract!Next]_(Abstract!vars)
  BY StepImplements
<1>. QED  BY <1>1, <1>2, Invariant, PTL DEF Spec, ImplementsLeases, Abstract!Spec
=============================================================================
