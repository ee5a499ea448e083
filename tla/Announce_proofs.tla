---------------------------- MODULE Announce_proofs ----------------------------
(***************************************************************************)
(* Announce, and the mqtt discovery in it, for any number of nodes and     *)
(* services and for all durations.                                         *)
(***************************************************************************)
EXTENDS Announce, TLAPS

-----------------------------------------------------------------------------
(* The inductive invariant *)

\* The stages of Stop: the loop has left or was launched too late to be waited
\* for, and only the last stage leaves a module without caches.
StopInv ==
  \A n \in Node :
    /\ stop[n] \in {"close", "drop", "ok", "failed"} => overtaken[n] \/ loop[n] = "gone"
    /\ ~caches[n] => stop[n] = "ok"
    /\ loop[n] \in {"list", "write"} /\ ~cli[n] => overtaken[n]
    /\ start[n] \in {"connected", "armed", "ok"} /\ ~cli[n] => stop[n] \in {"drop", "ok"}

\* What is on its way, being handled or cached was published no longer ago than
\* its own age allows.
AgeInv ==
  \A n \in Node, i \in Publisher :
    /\ Up(n) /\ transit[n][i] # None => pubAge[i] # None /\ pubAge[i] <= transit[n][i]
    /\ Up(n) /\ handling[n] = i => pubAge[i] # None /\ pubAge[i] <= MaxDelay
    /\ cacheAge[n][i] # None => pubAge[i] # None /\ pubAge[i] <= cacheAge[n][i] + MaxDelay

ModInv == TypeOK /\ StopInv /\ CrashExplained /\ AgeInv

IInv == TypesOK /\ ModInv

\* The durations are numbers.
LEMMA MaxPubAgeNat == MaxPubAge \in Nat /\ CacheTTL \in Nat /\ MaxDelay \in Nat /\ Period \in Nat
  BY TimesAssumption DEF MaxPubAge

\* A row without ages, and a table with one entry changed.
LEMMA NothingRow ==
  ASSUME NEW n \in Node
  PROVE  Nothing[n] = [i \in Publisher |-> None]
  BY DEF Nothing

LEMMA Entry ==
  ASSUME NEW S, NEW f \in [Node -> [Publisher -> S]], NEW n \in Node, NEW i \in Publisher,
         NEW v \in S
  PROVE  [f EXCEPT ![n][i] = v] \in [Node -> [Publisher -> S]]
  OBVIOUS

\* Ages begin at 0 and are counted up to their bound.
LEMMA Ages ==
  ASSUME NEW m \in Nat
  PROVE  0 \in 0..m /\ \A x \in 0..m : x # m => x + 1 \in 0..m
  OBVIOUS

\* Initially nobody has published anything.
LEMMA InitInv == AnnounceInit => IInv
<1> SUFFICES ASSUME AnnounceInit PROVE IInv
  OBVIOUS
<1>1. TypeOK
  BY MaxPubAgeNat DEF AnnounceInit, Init, TypeOK, Nothing
<1>2. StopInv /\ CrashExplained
  BY DEF AnnounceInit, Init, StopInv, CrashExplained
<1>3. AgeInv
  BY NoneAssumption DEF AnnounceInit, Init, AgeInv, Nothing
<1> QED
  BY <1>1, <1>2, <1>3 DEF IInv, ModInv, TypesOK, AnnounceInit

\* Start connects, or fails.
LEMMA ConnectInv ==
  ASSUME ModInv, NEW n \in Node, Up(n), Connect(n)
  PROVE  ModInv'
<1>1. TypeOK'
  <2>1. CASE start' = [start EXCEPT ![n] = "connected"] /\ cli' = [cli EXCEPT ![n] = TRUE]
    BY <2>1 DEF ModInv, TypeOK, loopVars, msgVars, Connect
  <2>2. CASE start' = [start EXCEPT ![n] = "failed"] /\ UNCHANGED cli
    BY <2>2 DEF ModInv, TypeOK, loopVars, msgVars, Connect
  <2> QED
    BY <2>1, <2>2 DEF Connect
<1>2. StopInv' /\ CrashExplained'
  BY DEF ModInv, TypeOK, StopInv, CrashExplained, Up, modVars, loopVars, msgVars, Connect
<1>3. AgeInv'
  BY MaxPubAgeNat, NoneAssumption, PublisherAssumption DEF ModInv, TypeOK, AgeInv, Up, modVars, loopVars, msgVars, Nothing, Connect
<1> QED
  BY <1>1, <1>2, <1>3 DEF ModInv

\* runCtx is made.
LEMMA ArmInv ==
  ASSUME ModInv, NEW n \in Node, Up(n), Arm(n)
  PROVE  ModInv'
<1>1. TypeOK'
  BY MaxPubAgeNat, NoneAssumption, PublisherAssumption DEF ModInv, TypeOK, modVars, loopVars, msgVars, Nothing, Arm
<1>2. StopInv' /\ CrashExplained'
  BY DEF ModInv, TypeOK, StopInv, CrashExplained, Up, modVars, loopVars, msgVars, Arm
<1>3. AgeInv'
  BY MaxPubAgeNat, NoneAssumption, PublisherAssumption DEF ModInv, TypeOK, AgeInv, Up, modVars, loopVars, msgVars, Nothing, Arm
<1> QED
  BY <1>1, <1>2, <1>3 DEF ModInv

\* A loop that is launched after Stop's wait was overtaken.
LEMMA LaunchInv ==
  ASSUME ModInv, NEW n \in Node, Up(n), Launch(n)
  PROVE  ModInv'
<1>1. TypeOK'
  BY MaxPubAgeNat, NoneAssumption, PublisherAssumption DEF ModInv, TypeOK, modVars, loopVars, msgVars, Nothing, Launch
<1>2. StopInv' /\ CrashExplained'
  BY DEF ModInv, TypeOK, StopInv, CrashExplained, Up, modVars, loopVars, msgVars, Launch
<1>3. AgeInv'
  BY MaxPubAgeNat, NoneAssumption, PublisherAssumption DEF ModInv, TypeOK, AgeInv, Up, modVars, loopVars, msgVars, Nothing, Launch
<1> QED
  BY <1>1, <1>2, <1>3 DEF ModInv

\* A service is registered.
LEMMA RegisterInv ==
  ASSUME ModInv, NEW n \in Node, Register(n)
  PROVE  ModInv'
<1>1. TypeOK'
  BY MaxPubAgeNat, NoneAssumption, PublisherAssumption DEF ModInv, TypeOK, modVars, loopVars, msgVars, Nothing, Register
<1>2. StopInv' /\ CrashExplained'
  BY DEF ModInv, TypeOK, StopInv, CrashExplained, Up, modVars, loopVars, msgVars, Register
<1>3. AgeInv'
  BY MaxPubAgeNat, NoneAssumption, PublisherAssumption DEF ModInv, TypeOK, AgeInv, Up, modVars, loopVars, msgVars, Nothing, Register
<1> QED
  BY <1>1, <1>2, <1>3 DEF ModInv

\* The context ends.
LEMMA CancelInv ==
  ASSUME ModInv, NEW n \in Node, Cancel(n)
  PROVE  ModInv'
<1>1. TypeOK'
  BY MaxPubAgeNat, NoneAssumption, PublisherAssumption DEF ModInv, TypeOK, modVars, loopVars, msgVars, Nothing, Cancel
<1>2. StopInv' /\ CrashExplained'
  BY DEF ModInv, TypeOK, StopInv, CrashExplained, Up, modVars, loopVars, msgVars, Cancel
<1>3. AgeInv'
  BY MaxPubAgeNat, NoneAssumption, PublisherAssumption DEF ModInv, TypeOK, AgeInv, Up, modVars, loopVars, msgVars, Nothing, Cancel
<1> QED
  BY <1>1, <1>2, <1>3 DEF ModInv

\* Stop begins.
LEMMA BeginStopInv ==
  ASSUME ModInv, NEW n \in Node, BeginStop(n)
  PROVE  ModInv'
<1>1. TypeOK'
  BY MaxPubAgeNat, NoneAssumption, PublisherAssumption DEF ModInv, TypeOK, modVars, loopVars, msgVars, Nothing, BeginStop
<1>2. StopInv' /\ CrashExplained'
  BY DEF ModInv, TypeOK, StopInv, CrashExplained, Up, modVars, loopVars, msgVars, BeginStop
<1>3. AgeInv'
  BY MaxPubAgeNat, NoneAssumption, PublisherAssumption DEF ModInv, TypeOK, AgeInv, Up, modVars, loopVars, msgVars, Nothing, BeginStop
<1> QED
  BY <1>1, <1>2, <1>3 DEF ModInv

\* Its wait is over when the loop has left, or is not there yet.
LEMMA WaitInv ==
  ASSUME ModInv, NEW n \in Node, Up(n), Wait(n)
  PROVE  ModInv'
<1>1. TypeOK'
  BY MaxPubAgeNat, NoneAssumption, PublisherAssumption DEF ModInv, TypeOK, modVars, loopVars, msgVars, Nothing, Wait
<1>2. StopInv' /\ CrashExplained'
  BY DEF ModInv, TypeOK, StopInv, CrashExplained, Up, modVars, loopVars, msgVars, Wait
<1>3. AgeInv'
  BY MaxPubAgeNat, NoneAssumption, PublisherAssumption DEF ModInv, TypeOK, AgeInv, Up, modVars, loopVars, msgVars, Nothing, Wait
<1> QED
  BY <1>1, <1>2, <1>3 DEF ModInv

\* The client is closed, with what was on its way.
LEMMA CloseInv ==
  ASSUME ModInv, NEW n \in Node, Up(n), Close(n)
  PROVE  ModInv'
<1>1. TypeOK'
  <2> DEFINE S == 0..MaxDelay \cup {None}
  <2> HIDE DEF S
  <2>1. transit \in [Node -> [Publisher -> S]] /\ None \in S
    BY DEF ModInv, TypeOK, S
  <2>2. Nothing[n] \in [Publisher -> S]
    BY NothingRow, <2>1
  <2>3. transit' = [transit EXCEPT ![n] = Nothing[n]] \/ UNCHANGED transit
    BY DEF Close
  <2>4. transit' \in [Node -> [Publisher -> S]]
    BY <2>1, <2>2, <2>3
  <2>5. \A m \in Node : cli'[m] => cli[m]
    BY DEF ModInv, TypeOK, Close
  <2>6. stop' \in [Node -> {"idle", "wait", "close", "drop", "ok", "failed"}]
        /\ cli' \in [Node -> BOOLEAN]
    BY DEF ModInv, TypeOK, Close
  <2> QED
    BY <2>4, <2>5, <2>6 DEF ModInv, TypeOK, loopVars, Close, S
<1>2. StopInv' /\ CrashExplained'
  BY DEF ModInv, TypeOK, StopInv, CrashExplained, Up, modVars, loopVars, msgVars, Close
<1>3. AgeInv'
  <2>1. \A m \in Node, i \in Publisher : transit'[m][i] \in {transit[m][i], None}
    <3>1. transit' = [transit EXCEPT ![n] = Nothing[n]] \/ UNCHANGED transit
      BY DEF Close
    <3>2. transit \in [Node -> [Publisher -> 0..MaxDelay \cup {None}]]
      BY DEF ModInv, TypeOK
    <3>3. \A i \in Publisher : Nothing[n][i] = None
      BY NothingRow
    <3> QED
      BY <3>1, <3>2, <3>3
  <2> QED
    BY <2>1 DEF ModInv, AgeInv, Up, Close
<1> QED
  BY <1>1, <1>2, <1>3 DEF ModInv

\* The caches are dropped.
LEMMA DropInv ==
  ASSUME ModInv, NEW n \in Node, Up(n), Drop(n)
  PROVE  ModInv'
<1>1. TypeOK'
  BY MaxPubAgeNat, NoneAssumption, PublisherAssumption DEF ModInv, TypeOK, modVars, loopVars, msgVars, Nothing, Drop
<1>2. StopInv' /\ CrashExplained'
  BY DEF ModInv, TypeOK, StopInv, CrashExplained, Up, modVars, loopVars, msgVars, Drop
<1>3. AgeInv'
  BY MaxPubAgeNat, NoneAssumption, PublisherAssumption DEF ModInv, TypeOK, AgeInv, Up, modVars, loopVars, msgVars, Nothing, Drop
<1> QED
  BY <1>1, <1>2, <1>3 DEF ModInv

\* The loop begins a round,
LEMMA BeginRoundInv ==
  ASSUME ModInv, NEW n \in Node, Up(n), BeginRound(n)
  PROVE  ModInv'
<1>1. TypeOK'
  BY MaxPubAgeNat, NoneAssumption, PublisherAssumption DEF ModInv, TypeOK, modVars, loopVars, msgVars, Nothing, BeginRound
<1>2. StopInv' /\ CrashExplained'
  BY DEF ModInv, TypeOK, StopInv, CrashExplained, Up, modVars, loopVars, msgVars, BeginRound
<1>3. AgeInv'
  BY MaxPubAgeNat, NoneAssumption, PublisherAssumption DEF ModInv, TypeOK, AgeInv, Up, modVars, loopVars, msgVars, Nothing, BeginRound
<1> QED
  BY <1>1, <1>2, <1>3 DEF ModInv

\* leaves,
LEMMA LeaveInv ==
  ASSUME ModInv, NEW n \in Node, Up(n), Leave(n)
  PROVE  ModInv'
<1>1. TypeOK'
  BY MaxPubAgeNat, NoneAssumption, PublisherAssumption DEF ModInv, TypeOK, modVars, loopVars, msgVars, Nothing, Leave
<1>2. StopInv' /\ CrashExplained'
  BY DEF ModInv, TypeOK, StopInv, CrashExplained, Up, modVars, loopVars, msgVars, Leave
<1>3. AgeInv'
  BY MaxPubAgeNat, NoneAssumption, PublisherAssumption DEF ModInv, TypeOK, AgeInv, Up, modVars, loopVars, msgVars, Nothing, Leave
<1> QED
  BY <1>1, <1>2, <1>3 DEF ModInv

\* checks that there is a client,
LEMMA CheckInv ==
  ASSUME ModInv, NEW n \in Node, Up(n), Check(n)
  PROVE  ModInv'
<1>1. TypeOK'
  BY MaxPubAgeNat, NoneAssumption, PublisherAssumption DEF ModInv, TypeOK, modVars, loopVars, msgVars, Nothing, Check
<1>2. StopInv' /\ CrashExplained'
  BY DEF ModInv, TypeOK, StopInv, CrashExplained, Up, modVars, loopVars, msgVars, Check
<1>3. AgeInv'
  BY MaxPubAgeNat, NoneAssumption, PublisherAssumption DEF ModInv, TypeOK, AgeInv, Up, modVars, loopVars, msgVars, Nothing, Check
<1> QED
  BY <1>1, <1>2, <1>3 DEF ModInv

\* lists the services, or finds that localRegs is gone,
LEMMA ListInv ==
  ASSUME ModInv, NEW n \in Node, Up(n), List(n)
  PROVE  ModInv'
<1>1. CASE caches[n]
  <2>1. /\ loop' = [loop EXCEPT ![n] = IF registered[n] THEN "write" ELSE "select"]
        /\ UNCHANGED <<toTick, modVars, msgVars, pubAge, crashed>>
        /\ loop[n] = "list"
    BY <1>1 DEF List
  <2>2. TypeOK'
    BY <2>1 DEF ModInv, TypeOK, modVars, msgVars
  <2>3. StopInv' /\ CrashExplained'
    BY <2>1 DEF ModInv, TypeOK, StopInv, CrashExplained, Up, modVars, msgVars
  <2>4. AgeInv'
    BY <2>1 DEF ModInv, TypeOK, AgeInv, Up, modVars, msgVars
  <2> QED
    BY <2>2, <2>3, <2>4 DEF ModInv
<1>2. CASE ~caches[n]
  <2>1. /\ crashed' = [crashed EXCEPT ![n] = "loop"]
        /\ UNCHANGED <<loop, toTick, modVars, msgVars, pubAge>>
        /\ loop[n] = "list"
    BY <1>2 DEF List
  <2>2. TypeOK'
    BY <2>1 DEF ModInv, TypeOK, modVars, msgVars
  <2>3. StopInv' /\ CrashExplained'
    BY <1>2, <2>1 DEF ModInv, TypeOK, StopInv, CrashExplained, Up, modVars, msgVars
  <2>4. AgeInv'
    BY <2>1 DEF ModInv, TypeOK, AgeInv, Up, modVars, msgVars
  <2> QED
    BY <2>2, <2>3, <2>4 DEF ModInv
<1> QED
  BY <1>1, <1>2

\* publishes: an age of 0 everywhere,
LEMMA WriteInv ==
  ASSUME ModInv, NEW n \in Node, Up(n), Write(n)
  PROVE  ModInv'
<1>1. TypeOK'
  <2>1. transit' \in [Node -> [Publisher -> 0..MaxDelay \cup {None}]]
    <3>1. ASSUME NEW w \in Node
          PROVE  /\ transit[w] \in [Publisher -> 0..MaxDelay \cup {None}]
                 /\ [transit[w] EXCEPT ![n] = 0] \in [Publisher -> 0..MaxDelay \cup {None}]
      <4>1. transit[w] \in [Publisher -> 0..MaxDelay \cup {None}]
        BY DEF ModInv, TypeOK
      <4>2. 0 \in 0..MaxDelay
        BY MaxPubAgeNat, Ages
      <4> QED
        BY <4>1, <4>2
    <3> QED
      BY <3>1 DEF Write
  <2>2. pubAge' \in [Publisher -> 0..MaxPubAge \cup {None}]
    <3>1. 0 \in 0..MaxPubAge
      BY MaxPubAgeNat, Ages
    <3> QED
      BY <3>1 DEF ModInv, TypeOK, Write
  <2>3. loop' = [loop EXCEPT ![n] = "select"] /\ loop[n] = "write"
    BY DEF Write
  <2> QED
    BY <2>1, <2>2, <2>3 DEF ModInv, TypeOK, modVars, Write
<1>2. StopInv' /\ CrashExplained'
  BY DEF ModInv, TypeOK, StopInv, CrashExplained, Up, modVars, loopVars, msgVars, Write
<1>3. AgeInv'
  BY MaxPubAgeNat, NoneAssumption, PublisherAssumption DEF ModInv, TypeOK, AgeInv, Up, modVars, loopVars, msgVars, Nothing, Write
<1> QED
  BY <1>1, <1>2, <1>3 DEF ModInv

\* or finds that the client is gone.
LEMMA WriteNilInv ==
  ASSUME ModInv, NEW n \in Node, Up(n), WriteNil(n)
  PROVE  ModInv'
<1>1. TypeOK'
  <2>1. CASE crashed' = [crashed EXCEPT ![n] = "loop"] /\ UNCHANGED loop
    BY <2>1 DEF ModInv, TypeOK, modVars, msgVars, WriteNil
  <2>2. CASE loop' = [loop EXCEPT ![n] = "select"] /\ UNCHANGED crashed
    BY <2>2 DEF ModInv, TypeOK, modVars, msgVars, WriteNil
  <2> QED
    BY <2>1, <2>2 DEF WriteNil
<1>2. StopInv' /\ CrashExplained'
  BY DEF ModInv, TypeOK, StopInv, CrashExplained, Up, modVars, loopVars, msgVars, WriteNil
<1>3. AgeInv'
  BY MaxPubAgeNat, NoneAssumption, PublisherAssumption DEF ModInv, TypeOK, AgeInv, Up, modVars, loopVars, msgVars, Nothing, WriteNil
<1> QED
  BY <1>1, <1>2, <1>3 DEF ModInv

\* A message is lost,
LEMMA LoseInv ==
  ASSUME ModInv, NEW n \in Node, NEW i \in Publisher, Up(n), Lose(n, i)
  PROVE  ModInv'
<1>1. TypeOK'
  <2>1. transit' \in [Node -> [Publisher -> 0..MaxDelay \cup {None}]]
    BY DEF ModInv, TypeOK, Lose
  <2>2. missed' \in [Node -> [Publisher -> 0..2]]
    <3> DEFINE m == IF missed[n][i] = 2 THEN 2 ELSE missed[n][i] + 1
    <3>1. missed[n][i] \in 0..2
      BY DEF ModInv, TypeOK
    <3>2. m \in 0..2 /\ missed' = [missed EXCEPT ![n][i] = m]
      BY <3>1 DEF Lose
    <3> QED
      BY <3>2, Entry DEF ModInv, TypeOK
  <2>3. seen' \in [Node -> SUBSET Publisher]
    BY DEF ModInv, TypeOK, Lose
  <2> QED
    BY <2>1, <2>2, <2>3 DEF ModInv, TypeOK, modVars, loopVars, Lose
<1>2. StopInv' /\ CrashExplained'
  BY DEF ModInv, TypeOK, StopInv, CrashExplained, Up, modVars, loopVars, msgVars, Lose
<1>3. AgeInv'
  BY MaxPubAgeNat, NoneAssumption, PublisherAssumption DEF ModInv, TypeOK, AgeInv, Up, modVars, loopVars, msgVars, Nothing, Lose
<1> QED
  BY <1>1, <1>2, <1>3 DEF ModInv

\* or handed over in time,
LEMMA DeliverInv ==
  ASSUME ModInv, NEW n \in Node, NEW i \in Publisher, Up(n), Deliver(n, i)
  PROVE  ModInv'
<1>1. TypeOK'
  BY MaxPubAgeNat, NoneAssumption, PublisherAssumption DEF ModInv, TypeOK, modVars, loopVars, msgVars, Nothing, Deliver
<1>2. StopInv' /\ CrashExplained'
  BY DEF ModInv, TypeOK, StopInv, CrashExplained, Up, modVars, loopVars, msgVars, Deliver
<1>3. AgeInv'
  BY MaxPubAgeNat, NoneAssumption, PublisherAssumption DEF ModInv, TypeOK, AgeInv, Up, modVars, loopVars, msgVars, Nothing, Deliver
<1> QED
  BY <1>1, <1>2, <1>3 DEF ModInv

\* and stored, or found too late.
LEMMA StoreInv ==
  ASSUME ModInv, NEW n \in Node, Up(n), Store(n)
  PROVE  ModInv'
<1>1. TypeOK'
  <2>1. CASE caches[n]
    <3> DEFINE i == handling[n]
    <3>1. i \in Publisher /\ 0 \in 0..CacheTTL /\ 0 \in 0..2
      BY MaxPubAgeNat, Ages DEF ModInv, TypeOK, Store
    <3>2. cacheAge' \in [Node -> [Publisher -> 0..CacheTTL \cup {None}]]
      <4>1. cacheAge' = [cacheAge EXCEPT ![n][i] = 0]
        BY <2>1 DEF Store
      <4>2. cacheAge \in [Node -> [Publisher -> 0..CacheTTL \cup {None}]]
        BY DEF ModInv, TypeOK
      <4> QED
        BY <3>1, <4>1, <4>2, Entry
    <3>3. missed' \in [Node -> [Publisher -> 0..2]]
      <4>1. missed' = [missed EXCEPT ![n][i] = 0]
        BY <2>1 DEF Store
      <4>2. missed \in [Node -> [Publisher -> 0..2]]
        BY DEF ModInv, TypeOK
      <4> QED
        BY <3>1, <4>1, <4>2, Entry
    <3>4. seen' \in [Node -> SUBSET Publisher]
      <4>1. seen' = [seen EXCEPT ![n] = seen[n] \cup {i}]
        BY <2>1 DEF Store
      <4>2. seen \in [Node -> SUBSET Publisher]
        BY DEF ModInv, TypeOK
      <4> QED
        BY <3>1, <4>1, <4>2
    <3>5. handling' \in [Node -> Publisher \cup {None}] /\ UNCHANGED crashed
      BY <2>1 DEF ModInv, TypeOK, Store
    <3> QED
      BY <3>2, <3>3, <3>4, <3>5 DEF ModInv, TypeOK, modVars, loopVars, Store
  <2>2. CASE ~caches[n]
    <3>1. crashed' = [crashed EXCEPT ![n] = "handler"] /\ UNCHANGED <<cacheAge, missed, seen>>
      BY <2>2 DEF Store
    <3> QED
      BY <3>1 DEF ModInv, TypeOK, modVars, loopVars, Store
  <2> QED
    BY <2>1, <2>2
<1>2. StopInv' /\ CrashExplained'
  BY DEF ModInv, TypeOK, StopInv, CrashExplained, Up, modVars, loopVars, msgVars, Store
<1>3. AgeInv'
  BY MaxPubAgeNat, NoneAssumption, PublisherAssumption DEF ModInv, TypeOK, AgeInv, Up, modVars, loopVars, msgVars, Nothing, Store
<1> QED
  BY <1>1, <1>2, <1>3 DEF ModInv

\* Everything gets older, what was published too.
LEMMA TickInv ==
  ASSUME ModInv, Tick
  PROVE  ModInv'
<1>1. TypeOK'
  <2>1. toTick' \in [Node -> 0..Period]
    BY MaxPubAgeNat DEF ModInv, TypeOK, Tick
  <2>2. transit' \in [Node -> [Publisher -> 0..MaxDelay \cup {None}]]
    <3>1. ASSUME NEW n \in Node, NEW i \in Publisher
          PROVE  transit[n][i] \notin {None, MaxDelay} => transit[n][i] + 1 \in 0..MaxDelay
      <4>1. transit[n][i] \in 0..MaxDelay \cup {None}
        BY DEF ModInv, TypeOK
      <4> QED
        BY <4>1, MaxPubAgeNat, Ages
    <3>2. ASSUME NEW n \in Node, NEW i \in Publisher
          PROVE  transit[n][i] \in 0..MaxDelay \cup {None}
      BY DEF ModInv, TypeOK
    <3> QED
      BY <3>1, <3>2 DEF Tick
  <2>3. pubAge' \in [Publisher -> 0..MaxPubAge \cup {None}]
    <3>1. ASSUME NEW i \in Publisher
          PROVE  /\ pubAge[i] \in 0..MaxPubAge \cup {None}
                 /\ pubAge[i] \notin {None, MaxPubAge} => pubAge[i] + 1 \in 0..MaxPubAge
      <4>1. pubAge[i] \in 0..MaxPubAge \cup {None}
        BY DEF ModInv, TypeOK
      <4> QED
        BY <4>1, MaxPubAgeNat, Ages
    <3> QED
      BY <3>1 DEF Tick
  <2>4. cacheAge' \in [Node -> [Publisher -> 0..CacheTTL \cup {None}]]
    <3>1. ASSUME NEW n \in Node, NEW i \in Publisher
          PROVE  Aged(cacheAge[n][i]) \in 0..CacheTTL \cup {None}
      <4>1. cacheAge[n][i] \in 0..CacheTTL \cup {None}
        BY DEF ModInv, TypeOK
      <4> QED
        BY <4>1, TimesAssumption DEF Aged, IsExpired
    <3> QED
      BY <3>1 DEF Tick
  <2> QED
    BY <2>1, <2>2, <2>3, <2>4 DEF ModInv, TypeOK, modVars, Tick
<1>2. StopInv' /\ CrashExplained'
  BY DEF ModInv, TypeOK, StopInv, CrashExplained, Up, modVars, loopVars, msgVars, Tick, MayWait, Aged, IsExpired
<1>3. AgeInv'
  BY MaxPubAgeNat, NoneAssumption, PublisherAssumption DEF ModInv, TypeOK, AgeInv, Up, modVars, loopVars, msgVars, Nothing, Tick, MayWait, Aged, IsExpired
<1> QED
  BY <1>1, <1>2, <1>3 DEF ModInv

-----------------------------------------------------------------------------
(* The specification *)

\* A step that leaves the module alone.
LEMMA ModStutter ==
  ASSUME ModInv, UNCHANGED vars
  PROVE  ModInv'
<1>1. TypeOK'
  BY DEF vars, modVars, loopVars, msgVars, ModInv, TypeOK
<1>2. StopInv' /\ CrashExplained'
  BY DEF vars, modVars, loopVars, msgVars, ModInv, StopInv, CrashExplained
<1>3. AgeInv'
  BY DEF vars, modVars, loopVars, msgVars, ModInv, AgeInv, Up
<1> QED
  BY <1>1, <1>2, <1>3 DEF ModInv

\* Steps of the module itself.
LEMMA ModuleStepInv ==
  ASSUME ModInv, NEW n \in Node, Up(n), ModuleStep(n)
  PROVE  ModInv'
<1>1. CASE Connect(n) \/ Arm(n) \/ Launch(n)
  BY <1>1, ConnectInv, ArmInv, LaunchInv
<1>2. CASE StopStep(n)
  BY <1>2, WaitInv, CloseInv, DropInv DEF StopStep
<1>3. CASE Loop(n)
  BY <1>3, BeginRoundInv, LeaveInv, CheckInv, ListInv, WriteInv, WriteNilInv DEF Loop
<1>4. CASE Handler(n)
  BY <1>4, StoreInv, DeliverInv DEF Handler
<1>5. CASE \E i \in Publisher : Lose(n, i)
  BY <1>5, LoseInv
<1> QED
  BY <1>1, <1>2, <1>3, <1>4, <1>5 DEF ModuleStep

\* Steps of the server touch the module by Register only.
LEMMA ServerInv ==
  ASSUME ModInv, Server \/ StopServer
  PROVE  ModInv'
<1>1. Host \in Node
  BY HostAssumption, PublisherAssumption
<1>2. UNCHANGED vars \/ Register(Host)
  BY DEF Server, Make, RegisterService, Listen, StopServer
<1> QED
  BY <1>1, <1>2, ModStutter, RegisterInv

\* Every step keeps the invariant.
LEMMA StepInv == IInv /\ [AnnounceNext]_allVars => IInv'
<1> SUFFICES ASSUME IInv, [AnnounceNext]_allVars
             PROVE  IInv'
  OBVIOUS
<1>1. ModInv'
  <2>1. CASE \E n \in Node : /\ Up(n)
                             /\ ModuleStep(n) \/ Cancel(n) \/ StopDiscovery(n)
    BY <2>1, ModuleStepInv, CancelInv, BeginStopInv DEF IInv, StopDiscovery
  <2>2. CASE Tick
    BY <2>2, TickInv DEF IInv
  <2>3. CASE Server \/ StopServer
    BY <2>3, ServerInv DEF IInv
  <2>4. CASE UNCHANGED vars
    BY <2>4, ModStutter DEF IInv
  <2> QED
    BY <2>1, <2>2, <2>3, <2>4 DEF AnnounceNext, allVars
<1>2. /\ announces' \in BOOLEAN
      /\ srv' \in {"idle", "made", "announced", "listening", "ended", "panicked"}
      /\ hook' \in {"idle", "unmade", "stopped"}
  <2>1. CASE UNCHANGED srvVars
    BY <2>1 DEF IInv, TypesOK, srvVars
  <2>2. CASE Server
    BY <2>2 DEF IInv, TypesOK, Server, Make, RegisterService, Listen
  <2>3. CASE StopServer
    BY <2>3 DEF IInv, TypesOK, StopServer
  <2> QED
    BY <2>1, <2>2, <2>3 DEF AnnounceNext, StopDiscovery, allVars
<1> QED
  BY <1>1, <1>2 DEF IInv, TypesOK, ModInv

\* The invariant holds throughout.
THEOREM Invariant == AnnounceSpec => []IInv
  BY InitInv, StepInv, PTL DEF AnnounceSpec

\* Type correctness: in particular no entry is kept past the time to live.
THEOREM TypeCorrect == AnnounceSpec => []TypesOK
<1>1. IInv => TypesOK
  BY DEF IInv
<1> QED
  BY <1>1, Invariant, PTL

\* The process ends by a nil dereference in two ways only (mqtt.go:139, :147).
THEOREM CrashesExplained == AnnounceSpec => []CrashExplained
<1>1. IInv => CrashExplained
  BY DEF IInv, ModInv
<1> QED
  BY <1>1, Invariant, PTL

\* The age of an entry and of the message it came with bound that of the service.
LEMMA FreshState == IInv => Fresh
<1> SUFFICES ASSUME IInv, NEW n \in Node, NEW i \in Publisher, cacheAge[n][i] # None
             PROVE  pubAge[i] # None /\ pubAge[i] <= CacheTTL + MaxDelay
  BY DEF Fresh, Found
<1>1. pubAge[i] # None /\ pubAge[i] <= cacheAge[n][i] + MaxDelay
  BY DEF IInv, ModInv, AgeInv
<1>2. cacheAge[n][i] \in 0..CacheTTL \cup {None} /\ pubAge[i] \in 0..MaxPubAge \cup {None}
  BY DEF IInv, ModInv, TypeOK
<1>3. cacheAge[n][i] \in 0..CacheTTL /\ pubAge[i] \in 0..MaxPubAge
  BY <1>1, <1>2
<1> QED
  BY <1>1, <1>3, MaxPubAgeNat

\* A found service was published no longer ago than the time to live of infoCache
\* and the delay of a message (mqtt.go:87).
THEOREM FreshWhenFound == AnnounceSpec => []Fresh
  BY FreshState, Invariant, PTL

-----------------------------------------------------------------------------
(* Rounds and losses *)

\* A service that is announced is announced every Period.
RoundInv ==
  \A i \in Publisher :
    /\ loop[i] # "select" => toTick[i] = Period
    /\ pubAge[i] # None => start[i] = "ok"
    /\ Running(i) => loop[i] \in {"publish", "list", "write", "select"}
    /\ Running(i) /\ loop[i] = "write" => registered[i]
    /\ Running(i) /\ pubAge[i] # None =>
         /\ registered[i]
         /\ loop[i] \in {"publish", "list", "write"} => pubAge[i] = Period
         /\ loop[i] = "select" => pubAge[i] = Period - toTick[i]

\* Has n still to store the last message from i?
Pending(n, i) == transit[n][i] # None \/ handling[n] = i

\* An entry is older than the last message by a Period for each one missed, and
\* one for the message that is pending.
LagInv(n, i) ==
  /\ cacheAge[n][i] # None
  /\ missed[n][i] \in {0, 1}
  /\ missed[n][i] = 0 /\ ~Pending(n, i) => cacheAge[n][i] <= pubAge[i]
  /\ missed[n][i] = 0 /\ Pending(n, i) => cacheAge[n][i] <= pubAge[i] + Period
  /\ missed[n][i] = 1 /\ ~Pending(n, i) => cacheAge[n][i] <= pubAge[i] + Period
  /\ missed[n][i] = 1 /\ Pending(n, i) => cacheAge[n][i] <= pubAge[i] + 2 * Period

Listening(n) == Up(n) /\ stop[n] = "idle"

SeenInv ==
  \A n \in Node, i \in Publisher :
    /\ handling[n] # None => start[n] \notin {"idle", "failed"}
    /\ n \notin Watcher => transit[n][i] = None /\ handling[n] = None /\ i \notin seen[n]
    /\ i \in seen[n] => start[n] \notin {"idle", "failed"} /\ pubAge[i] # None
    /\ i \in seen[n] /\ Listening(n) /\ Running(i) => LagInv(n, i)

TimeInv == ModInv /\ RoundInv /\ SeenInv

\* Start connects.
LEMMA ConnectTime ==
  ASSUME TimeInv, ModInv', 2 * Period + MaxDelay <= CacheTTL,
         NEW n \in Node, Up(n), Connect(n)
  PROVE  TimeInv'
<1>1. RoundInv'
  BY MaxPubAgeNat, NoneAssumption, PublisherAssumption
  DEF TimeInv, ModInv, TypeOK, StopInv, RoundInv, Running, Up, modVars, loopVars, msgVars, Connect
<1>2. SeenInv'
  BY MaxPubAgeNat, NoneAssumption, PublisherAssumption
  DEF TimeInv, ModInv, TypeOK, StopInv, AgeInv, RoundInv, SeenInv, LagInv, Pending, Listening,
      Running, Up, modVars, loopVars, msgVars, Connect
<1> QED
  BY <1>1, <1>2 DEF TimeInv

\* runCtx is made.
LEMMA ArmTime ==
  ASSUME TimeInv, ModInv', 2 * Period + MaxDelay <= CacheTTL,
         NEW n \in Node, Up(n), Arm(n)
  PROVE  TimeInv'
<1>1. RoundInv'
  BY MaxPubAgeNat, NoneAssumption, PublisherAssumption
  DEF TimeInv, ModInv, TypeOK, StopInv, RoundInv, Running, Up, modVars, loopVars, msgVars, Arm
<1>2. SeenInv'
  BY MaxPubAgeNat, NoneAssumption, PublisherAssumption
  DEF TimeInv, ModInv, TypeOK, StopInv, AgeInv, RoundInv, SeenInv, LagInv, Pending, Listening,
      Running, Up, modVars, loopVars, msgVars, Arm
<1> QED
  BY <1>1, <1>2 DEF TimeInv

\* The loop is launched: nothing has been published yet.
LEMMA LaunchTime ==
  ASSUME TimeInv, ModInv', 2 * Period + MaxDelay <= CacheTTL,
         NEW n \in Node, Up(n), Launch(n)
  PROVE  TimeInv'
<1>1. RoundInv'
  BY MaxPubAgeNat, NoneAssumption, PublisherAssumption
  DEF TimeInv, ModInv, TypeOK, StopInv, RoundInv, Running, Up, modVars, loopVars, msgVars, Launch
<1>2. SeenInv'
  BY MaxPubAgeNat, NoneAssumption, PublisherAssumption
  DEF TimeInv, ModInv, TypeOK, StopInv, AgeInv, RoundInv, SeenInv, LagInv, Pending, Listening,
      Running, Up, modVars, loopVars, msgVars, Launch
<1> QED
  BY <1>1, <1>2 DEF TimeInv

\* A service is registered.
LEMMA RegisterTime ==
  ASSUME TimeInv, ModInv', 2 * Period + MaxDelay <= CacheTTL,
         NEW n \in Node, Register(n)
  PROVE  TimeInv'
<1>1. RoundInv'
  BY MaxPubAgeNat, NoneAssumption, PublisherAssumption
  DEF TimeInv, ModInv, TypeOK, StopInv, RoundInv, Running, Up, modVars, loopVars, msgVars, Register
<1>2. SeenInv'
  BY MaxPubAgeNat, NoneAssumption, PublisherAssumption
  DEF TimeInv, ModInv, TypeOK, StopInv, AgeInv, RoundInv, SeenInv, LagInv, Pending, Listening,
      Running, Up, modVars, loopVars, msgVars, Register
<1> QED
  BY <1>1, <1>2 DEF TimeInv

\* The context ends.
LEMMA CancelTime ==
  ASSUME TimeInv, ModInv', 2 * Period + MaxDelay <= CacheTTL,
         NEW n \in Node, Cancel(n)
  PROVE  TimeInv'
<1>1. RoundInv'
  BY MaxPubAgeNat, NoneAssumption, PublisherAssumption
  DEF TimeInv, ModInv, TypeOK, StopInv, RoundInv, Running, Up, modVars, loopVars, msgVars, Cancel
<1>2. SeenInv'
  BY MaxPubAgeNat, NoneAssumption, PublisherAssumption
  DEF TimeInv, ModInv, TypeOK, StopInv, AgeInv, RoundInv, SeenInv, LagInv, Pending, Listening,
      Running, Up, modVars, loopVars, msgVars, Cancel
<1> QED
  BY <1>1, <1>2 DEF TimeInv

\* Stop begins: the node listens no longer.
LEMMA BeginStopTime ==
  ASSUME TimeInv, ModInv', 2 * Period + MaxDelay <= CacheTTL,
         NEW n \in Node, BeginStop(n)
  PROVE  TimeInv'
<1>1. RoundInv'
  BY MaxPubAgeNat, NoneAssumption, PublisherAssumption
  DEF TimeInv, ModInv, TypeOK, StopInv, RoundInv, Running, Up, modVars, loopVars, msgVars, BeginStop
<1>2. SeenInv'
  BY MaxPubAgeNat, NoneAssumption, PublisherAssumption
  DEF TimeInv, ModInv, TypeOK, StopInv, AgeInv, RoundInv, SeenInv, LagInv, Pending, Listening,
      Running, Up, modVars, loopVars, msgVars, BeginStop
<1> QED
  BY <1>1, <1>2 DEF TimeInv

\* The wait is over.
LEMMA WaitTime ==
  ASSUME TimeInv, ModInv', 2 * Period + MaxDelay <= CacheTTL,
         NEW n \in Node, Up(n), Wait(n)
  PROVE  TimeInv'
<1>1. RoundInv'
  BY MaxPubAgeNat, NoneAssumption, PublisherAssumption
  DEF TimeInv, ModInv, TypeOK, StopInv, RoundInv, Running, Up, modVars, loopVars, msgVars, Wait
<1>2. SeenInv'
  BY MaxPubAgeNat, NoneAssumption, PublisherAssumption
  DEF TimeInv, ModInv, TypeOK, StopInv, AgeInv, RoundInv, SeenInv, LagInv, Pending, Listening,
      Running, Up, modVars, loopVars, msgVars, Wait
<1> QED
  BY <1>1, <1>2 DEF TimeInv

\* The client is closed, of a node that listens no longer.
LEMMA CloseTime ==
  ASSUME TimeInv, ModInv', 2 * Period + MaxDelay <= CacheTTL,
         NEW n \in Node, Up(n), Close(n)
  PROVE  TimeInv'
<1>1. RoundInv'
  BY MaxPubAgeNat, NoneAssumption, PublisherAssumption
  DEF TimeInv, ModInv, TypeOK, StopInv, RoundInv, Running, Up, modVars, loopVars, msgVars, Close
<1>2. stop[n] = "close" /\ stop'[n] # "idle" /\ \A m \in Node \ {n} : stop'[m] = stop[m]
  BY DEF TimeInv, ModInv, TypeOK, Close
<1>3. \A m \in Node, i \in Publisher : transit'[m][i] \in {None, transit[m][i]}
  <2>1. transit \in [Node -> [Publisher -> 0..MaxDelay \cup {None}]]
    BY DEF TimeInv, ModInv, TypeOK
  <2>2. \A i \in Publisher : Nothing[n][i] = None
    BY NothingRow
  <2>3. transit' \in {transit, [transit EXCEPT ![n] = Nothing[n]]}
    BY DEF Close
  <2> QED
    BY <2>1, <2>2, <2>3
<1>4. \A m \in Node \ {n} : transit'[m] = transit[m]
  BY DEF TimeInv, ModInv, TypeOK, Close
<1>5. UNCHANGED <<start, ctxDone, loop, handling, cacheAge, missed, seen, pubAge, crashed>>
  BY DEF Close, loopVars
<1>6. ASSUME NEW m \in Node, Listening(m)' PROVE m # n /\ Listening(m)
  BY <1>2, <1>5, <1>6 DEF Listening, Up
<1>7. \A i \in Publisher : Running(i)' => Running(i)
  BY <1>2, <1>5, PublisherAssumption DEF Running, Up
<1>8. SeenInv'
  BY <1>3, <1>4, <1>5, <1>6, <1>7 DEF TimeInv, SeenInv, LagInv, Pending
<1> QED
  BY <1>1, <1>8 DEF TimeInv

\* The caches are dropped.
LEMMA DropTime ==
  ASSUME TimeInv, ModInv', 2 * Period + MaxDelay <= CacheTTL,
         NEW n \in Node, Up(n), Drop(n)
  PROVE  TimeInv'
<1>1. RoundInv'
  BY MaxPubAgeNat, NoneAssumption, PublisherAssumption
  DEF TimeInv, ModInv, TypeOK, StopInv, RoundInv, Running, Up, modVars, loopVars, msgVars, Drop
<1>2. SeenInv'
  BY MaxPubAgeNat, NoneAssumption, PublisherAssumption
  DEF TimeInv, ModInv, TypeOK, StopInv, AgeInv, RoundInv, SeenInv, LagInv, Pending, Listening,
      Running, Up, modVars, loopVars, msgVars, Drop
<1> QED
  BY <1>1, <1>2 DEF TimeInv

\* A round begins, exactly a Period after the last one.
LEMMA BeginRoundTime ==
  ASSUME TimeInv, ModInv', 2 * Period + MaxDelay <= CacheTTL,
         NEW n \in Node, Up(n), BeginRound(n)
  PROVE  TimeInv'
<1>1. RoundInv'
  BY MaxPubAgeNat, NoneAssumption, PublisherAssumption
  DEF TimeInv, ModInv, TypeOK, StopInv, RoundInv, Running, Up, modVars, loopVars, msgVars, BeginRound
<1>2. SeenInv'
  BY MaxPubAgeNat, NoneAssumption, PublisherAssumption
  DEF TimeInv, ModInv, TypeOK, StopInv, AgeInv, RoundInv, SeenInv, LagInv, Pending, Listening,
      Running, Up, modVars, loopVars, msgVars, BeginRound
<1> QED
  BY <1>1, <1>2 DEF TimeInv

\* The loop leaves.
LEMMA LeaveTime ==
  ASSUME TimeInv, ModInv', 2 * Period + MaxDelay <= CacheTTL,
         NEW n \in Node, Up(n), Leave(n)
  PROVE  TimeInv'
<1>1. RoundInv'
  BY MaxPubAgeNat, NoneAssumption, PublisherAssumption
  DEF TimeInv, ModInv, TypeOK, StopInv, RoundInv, Running, Up, modVars, loopVars, msgVars, Leave
<1>2. SeenInv'
  BY MaxPubAgeNat, NoneAssumption, PublisherAssumption
  DEF TimeInv, ModInv, TypeOK, StopInv, AgeInv, RoundInv, SeenInv, LagInv, Pending, Listening,
      Running, Up, modVars, loopVars, msgVars, Leave
<1> QED
  BY <1>1, <1>2 DEF TimeInv

\* publishAll finds its client and caches.
LEMMA CheckTime ==
  ASSUME TimeInv, ModInv', 2 * Period + MaxDelay <= CacheTTL,
         NEW n \in Node, Up(n), Check(n)
  PROVE  TimeInv'
<1>1. RoundInv'
  BY MaxPubAgeNat, NoneAssumption, PublisherAssumption
  DEF TimeInv, ModInv, TypeOK, StopInv, RoundInv, Running, Up, modVars, loopVars, msgVars, Check
<1>2. SeenInv'
  BY MaxPubAgeNat, NoneAssumption, PublisherAssumption
  DEF TimeInv, ModInv, TypeOK, StopInv, AgeInv, RoundInv, SeenInv, LagInv, Pending, Listening,
      Running, Up, modVars, loopVars, msgVars, Check
<1> QED
  BY <1>1, <1>2 DEF TimeInv

\* The services are listed.
LEMMA ListTime ==
  ASSUME TimeInv, ModInv', 2 * Period + MaxDelay <= CacheTTL,
         NEW n \in Node, Up(n), List(n)
  PROVE  TimeInv'
<1>1. RoundInv'
  BY MaxPubAgeNat, NoneAssumption, PublisherAssumption
  DEF TimeInv, ModInv, TypeOK, StopInv, RoundInv, Running, Up, modVars, loopVars, msgVars, List
<1>2. SeenInv'
  BY MaxPubAgeNat, NoneAssumption, PublisherAssumption
  DEF TimeInv, ModInv, TypeOK, StopInv, AgeInv, RoundInv, SeenInv, LagInv, Pending, Listening,
      Running, Up, modVars, loopVars, msgVars, List
<1> QED
  BY <1>1, <1>2 DEF TimeInv

\* A message is sent.  The one before has arrived or was lost: MaxDelay < Period.
LEMMA WriteTime ==
  ASSUME TimeInv, ModInv', 2 * Period + MaxDelay <= CacheTTL,
         NEW n \in Node, Up(n), Write(n)
  PROVE  TimeInv'
<1>1. RoundInv'
  BY MaxPubAgeNat, NoneAssumption, PublisherAssumption
  DEF TimeInv, ModInv, TypeOK, StopInv, RoundInv, Running, Up, modVars, loopVars, msgVars, Write
<1>2. SUFFICES ASSUME NEW m \in Node, NEW i \in Publisher PROVE SeenInv!(m, i)'
  BY <1>1 DEF TimeInv, SeenInv
<1>3. UNCHANGED <<modVars, handling, cacheAge, missed, seen, crashed>>
  BY DEF Write
<1>4. pubAge'[i] = IF i = n THEN 0 ELSE pubAge[i]
  BY DEF TimeInv, ModInv, TypeOK, Write
<1>5. transit'[m][i] = IF i = n /\ m \in Watcher /\ cli[m] THEN 0 ELSE transit[m][i]
  BY DEF TimeInv, ModInv, TypeOK, Write
<1>6. i \in seen'[m] /\ Listening(m)' /\ Running(i)' => LagInv(m, i)'
  <2> SUFFICES ASSUME i \in seen[m], Listening(m), Running(i) PROVE LagInv(m, i)'
    BY <1>3 DEF Listening, Running, Up, modVars
  <2>1. LagInv(m, i)
    BY DEF TimeInv, SeenInv
  <2>2. CASE i # n
    BY <2>1, <2>2, <1>3, <1>4, <1>5 DEF LagInv, Pending
  <2>3. CASE i = n
    <3>1. pubAge[i] = Period
      BY <2>3 DEF TimeInv, SeenInv, RoundInv, Write
    <3>2. ~Pending(m, i)
      <4>1. transit[m][i] # None => transit[m][i] \in Nat /\ transit[m][i] <= MaxDelay
        BY DEF TimeInv, ModInv, TypeOK
      <4>2. transit[m][i] # None => pubAge[i] <= transit[m][i]
        BY DEF TimeInv, ModInv, AgeInv, Listening
      <4>3. handling[m] = i => pubAge[i] <= MaxDelay
        BY DEF TimeInv, ModInv, AgeInv, Listening
      <4> QED
        BY <4>1, <4>2, <4>3, <3>1, TimesAssumption DEF Pending
    <3>3. m \in Watcher /\ cli[m]
      <4>1. start[m] \in {"connected", "armed", "ok"}
        BY DEF TimeInv, ModInv, TypeOK, SeenInv
      <4> QED
        BY <4>1 DEF TimeInv, ModInv, StopInv, SeenInv, Listening
    <3>4. Pending(m, i)' /\ pubAge'[i] = 0
      BY <2>3, <3>3, <1>4, <1>5, NoneAssumption DEF Pending
    <3>5. cacheAge[m][i] # None /\ cacheAge[m][i] \in Nat
      BY <2>1 DEF LagInv, TimeInv, ModInv, TypeOK
    <3> QED
      BY <2>1, <3>1, <3>2, <3>4, <3>5, <1>3, TimesAssumption DEF LagInv
  <2> QED
    BY <2>2, <2>3
<1> QED
  BY <1>3, <1>4, <1>5, <1>6, NoneAssumption DEF TimeInv, SeenInv, modVars

\* Only a node that is being stopped is without its client.
LEMMA WriteNilTime ==
  ASSUME TimeInv, ModInv', 2 * Period + MaxDelay <= CacheTTL,
         NEW n \in Node, Up(n), WriteNil(n)
  PROVE  TimeInv'
<1>1. ~Running(n)
  BY DEF TimeInv, ModInv, StopInv, Running, WriteNil
<1>2. /\ loop'[n] \in {loop[n], "select"} /\ \A m \in Node \ {n} : loop'[m] = loop[m]
      /\ \A m \in Node : Up(m)' => Up(m)
      /\ toTick' = toTick
  BY DEF TimeInv, ModInv, TypeOK, Up, loopVars, WriteNil
<1>3. UNCHANGED <<modVars, msgVars, pubAge>>
  BY DEF WriteNil
<1>4. \A m \in Node : Running(m)' => Running(m) /\ m # n
  BY <1>1, <1>2, <1>3 DEF Running, modVars
<1>5. n \in Publisher => toTick[n] = Period
  BY DEF TimeInv, RoundInv, WriteNil
<1>6. RoundInv'
  BY <1>2, <1>3, <1>4, <1>5, PublisherAssumption DEF TimeInv, RoundInv, modVars
<1>7. SeenInv'
  BY <1>2, <1>3, <1>4, PublisherAssumption
  DEF TimeInv, SeenInv, LagInv, Pending, Listening, modVars, msgVars
<1> QED
  BY <1>6, <1>7 DEF TimeInv

\* A message is lost: the entry is a Period older than the next one finds it.
LEMMA LoseTime ==
  ASSUME TimeInv, ModInv', 2 * Period + MaxDelay <= CacheTTL,
         NEW n \in Node, NEW j \in Publisher, Up(n), Lose(n, j)
  PROVE  TimeInv'
<1>1. RoundInv'
  BY MaxPubAgeNat, NoneAssumption, PublisherAssumption
  DEF TimeInv, ModInv, TypeOK, StopInv, RoundInv, Running, Up, modVars, loopVars, msgVars, Lose
<1>2. SeenInv'
  BY MaxPubAgeNat, NoneAssumption, PublisherAssumption
  DEF TimeInv, ModInv, TypeOK, StopInv, AgeInv, RoundInv, SeenInv, LagInv, Pending, Listening,
      Running, Up, modVars, loopVars, msgVars, Lose
<1> QED
  BY <1>1, <1>2 DEF TimeInv

\* The handler is called.
LEMMA DeliverTime ==
  ASSUME TimeInv, ModInv', 2 * Period + MaxDelay <= CacheTTL,
         NEW n \in Node, NEW j \in Publisher, Up(n), Deliver(n, j)
  PROVE  TimeInv'
<1>1. RoundInv'
  BY MaxPubAgeNat, NoneAssumption, PublisherAssumption
  DEF TimeInv, ModInv, TypeOK, StopInv, RoundInv, Running, Up, modVars, loopVars, msgVars, Deliver
<1>2. SeenInv'
  BY MaxPubAgeNat, NoneAssumption, PublisherAssumption
  DEF TimeInv, ModInv, TypeOK, StopInv, AgeInv, RoundInv, SeenInv, LagInv, Pending, Listening,
      Running, Up, modVars, loopVars, msgVars, Deliver
<1> QED
  BY <1>1, <1>2 DEF TimeInv

\* The entry is refreshed.
LEMMA StoreTime ==
  ASSUME TimeInv, ModInv', 2 * Period + MaxDelay <= CacheTTL,
         NEW n \in Node, Up(n), Store(n)
  PROVE  TimeInv'
<1>1. RoundInv'
  BY MaxPubAgeNat, NoneAssumption, PublisherAssumption
  DEF TimeInv, ModInv, TypeOK, StopInv, RoundInv, Running, Up, modVars, loopVars, msgVars, Store
<1>2. SeenInv'
  BY MaxPubAgeNat, NoneAssumption, PublisherAssumption
  DEF TimeInv, ModInv, TypeOK, StopInv, AgeInv, RoundInv, SeenInv, LagInv, Pending, Listening,
      Running, Up, modVars, loopVars, msgVars, Store
<1> QED
  BY <1>1, <1>2 DEF TimeInv

\* Time passes: no entry that two messages in a row have not missed reaches the time to live.
LEMMA TickTime ==
  ASSUME TimeInv, ModInv', 2 * Period + MaxDelay <= CacheTTL,
         Tick
  PROVE  TimeInv'
<1>1. UNCHANGED <<modVars, loop, handling, missed, seen, crashed>>
  BY DEF Tick
<1>2. ASSUME NEW i \in Publisher, Running(i), pubAge[i] # None
      PROVE  /\ loop[i] = "select"
             /\ toTick[i] \in 1..Period
             /\ pubAge[i] = Period - toTick[i]
             /\ toTick'[i] = toTick[i] - 1
             /\ pubAge'[i] = pubAge[i] + 1
  <2>1. i \in Node /\ loop[i] = "select" /\ toTick[i] > 0
    BY <1>2, PublisherAssumption DEF Tick, MayWait, Running, TimeInv, RoundInv
  <2>2. toTick[i] \in 1..Period
    BY <2>1, TimesAssumption DEF TimeInv, ModInv, TypeOK
  <2>3. pubAge[i] = Period - toTick[i]
    BY <1>2, <2>1 DEF TimeInv, RoundInv
  <2>4. pubAge[i] \in Nat /\ pubAge[i] # MaxPubAge /\ pubAge[i] # None
    BY <1>2, <2>2, <2>3, TimesAssumption DEF MaxPubAge
  <2>5. toTick'[i] = toTick[i] - 1
    BY <2>1 DEF Tick
  <2>6. pubAge'[i] = pubAge[i] + 1
    BY <2>4 DEF Tick
  <2> QED
    BY <2>1, <2>2, <2>3, <2>5, <2>6
<1>3. \A i \in Publisher : pubAge'[i] = None <=> pubAge[i] = None
  <2>1. ASSUME NEW i \in Publisher, pubAge[i] # None PROVE pubAge[i] \in Nat
    BY <2>1, MaxPubAgeNat DEF TimeInv, ModInv, TypeOK
  <2> QED
    BY <2>1, NoneAssumption DEF Tick
<1>4. \A i \in Publisher : Running(i)' <=> Running(i)
  BY <1>1 DEF Running, Up, modVars
<1>5. RoundInv'
  <2> SUFFICES ASSUME NEW i \in Publisher PROVE RoundInv!(i)'
    BY DEF RoundInv
  <2>1. loop[i] # "select" => toTick'[i] = Period
    BY PublisherAssumption DEF TimeInv, RoundInv, Tick
  <2> QED
    BY <1>1, <1>2, <1>3, <1>4, <2>1, TimesAssumption DEF TimeInv, RoundInv, modVars
<1>6. SUFFICES ASSUME NEW n \in Node, NEW i \in Publisher PROVE SeenInv!(n, i)'
  BY <1>5 DEF TimeInv, SeenInv
<1>7. transit'[n][i] = None <=> transit[n][i] = None
  <2>1. transit[n][i] # None => transit[n][i] \in Nat
    BY MaxPubAgeNat DEF TimeInv, ModInv, TypeOK
  <2> QED
    BY <2>1, NoneAssumption DEF Tick
<1>8. i \in seen'[n] /\ Listening(n)' /\ Running(i)' => LagInv(n, i)'
  <2> SUFFICES ASSUME i \in seen[n], Listening(n), Running(i) PROVE LagInv(n, i)'
    BY <1>1 DEF Listening, Running, Up, modVars
  <2>1. LagInv(n, i) /\ pubAge[i] # None
    BY DEF TimeInv, SeenInv
  <2>2. handling[n] # i /\ (Pending(n, i)' <=> Pending(n, i))
    BY <1>1, <1>7, NoneAssumption DEF Tick, MayWait, Listening, Pending
  <2>3. pubAge[i] \in 0..(Period - 1) /\ pubAge'[i] = pubAge[i] + 1
    BY <1>2, <2>1, TimesAssumption
  <2>4. Pending(n, i) => pubAge[i] < MaxDelay
    <3> SUFFICES ASSUME Pending(n, i) PROVE pubAge[i] < MaxDelay
      OBVIOUS
    <3>1. transit[n][i] # None
      BY <2>2 DEF Pending
    <3>2. transit[n][i] \in 0..MaxDelay
      BY <3>1 DEF TimeInv, ModInv, TypeOK
    <3>3. transit[n][i] # MaxDelay
      BY DEF Tick, MayWait, Listening
    <3>4. pubAge[i] <= transit[n][i]
      BY <3>1 DEF TimeInv, ModInv, AgeInv, Listening
    <3> QED
      BY <3>2, <3>3, <3>4, <2>3, TimesAssumption
  <2>5. cacheAge[n][i] \in Nat /\ cacheAge[n][i] # None
    BY <2>1, MaxPubAgeNat DEF LagInv, TimeInv, ModInv, TypeOK
  <2>6. cacheAge[n][i] + 1 <= CacheTTL
    BY <2>1, <2>3, <2>4, <2>5, TimesAssumption DEF LagInv
  <2>7. cacheAge'[n][i] = cacheAge[n][i] + 1
    <3>1. Aged(cacheAge[n][i]) = cacheAge[n][i] + 1
      BY <2>5, <2>6, TimesAssumption DEF Aged, IsExpired
    <3> QED
      BY <3>1 DEF Tick
  <2>8. cacheAge'[n][i] # None
    BY <2>5, <2>7, NoneAssumption
  <2> QED
    BY <2>1, <2>2, <2>3, <2>5, <2>7, <2>8, <1>1, TimesAssumption DEF LagInv
<1> QED
  BY <1>1, <1>3, <1>7, <1>8 DEF TimeInv, SeenInv, modVars

\* Steps that leave the module alone.
LEMMA TimeStutter ==
  ASSUME TimeInv, ModInv', UNCHANGED vars
  PROVE  TimeInv'
<1>1. UNCHANGED <<start, loop, toTick, ctxDone, cli, stop, registered, transit, handling,
                  cacheAge, pubAge, missed, seen, crashed>>
  BY DEF vars, modVars, loopVars, msgVars
<1> QED
  BY <1>1 DEF TimeInv, RoundInv, SeenInv, LagInv, Pending, Listening, Running, Up

\* Initially nobody has seen anything.
LEMMA InitTime == AnnounceInit => TimeInv
<1> SUFFICES ASSUME AnnounceInit PROVE TimeInv
  OBVIOUS
<1>1. ModInv
  BY InitInv DEF IInv
<1>2. RoundInv
  BY PublisherAssumption, NoneAssumption DEF AnnounceInit, Init, RoundInv, Running
<1>3. SeenInv
  BY NoneAssumption DEF AnnounceInit, Init, SeenInv, Nothing
<1> QED
  BY <1>1, <1>2, <1>3 DEF TimeInv

\* Every step keeps the invariant.
LEMMA StepTime ==
  ASSUME 2 * Period + MaxDelay <= CacheTTL, TimeInv, ModInv', [AnnounceNext]_allVars
  PROVE  TimeInv'
<1>1. ASSUME NEW n \in Node, Up(n), ModuleStep(n) PROVE TimeInv'
  <2>1. CASE Connect(n) \/ Arm(n) \/ Launch(n)
    BY <1>1, <2>1, ConnectTime, ArmTime, LaunchTime
  <2>2. CASE StopStep(n)
    BY <1>1, <2>2, WaitTime, CloseTime, DropTime DEF StopStep
  <2>3. CASE Loop(n)
    BY <1>1, <2>3, BeginRoundTime, LeaveTime, CheckTime, ListTime, WriteTime, WriteNilTime
      DEF Loop
  <2>4. CASE Handler(n)
    BY <1>1, <2>4, StoreTime, DeliverTime DEF Handler
  <2>5. CASE \E i \in Publisher : Lose(n, i)
    BY <1>1, <2>5, LoseTime
  <2> QED
    BY <1>1, <2>1, <2>2, <2>3, <2>4, <2>5 DEF ModuleStep
<1>2. ASSUME NEW n \in Node, Cancel(n) \/ StopDiscovery(n) PROVE TimeInv'
  BY <1>2, CancelTime, BeginStopTime DEF StopDiscovery
<1>3. CASE Tick
  BY <1>3, TickTime
<1>4. CASE Server \/ StopServer
  <2>1. Host \in Node
    BY HostAssumption, PublisherAssumption
  <2>2. UNCHANGED vars \/ Register(Host)
    BY <1>4 DEF Server, Make, RegisterService, Listen, StopServer
  <2> QED
    BY <2>1, <2>2, TimeStutter, RegisterTime
<1>5. CASE UNCHANGED vars
  BY <1>5, TimeStutter
<1> QED
  BY <1>1, <1>2, <1>3, <1>4, <1>5 DEF AnnounceNext, allVars

\* If the time to live covers two periods and the delay of a message, a service
\* that is still announced stays found although messages are lost, as long as
\* no two in a row are (mqtt.go:87).
THEOREM AnnouncedStaysFound ==
  ASSUME 2 * Period + MaxDelay <= CacheTTL
  PROVE  AnnounceSpec => []StaysFound
<1>1. AnnounceInit => TimeInv
  BY InitTime
<1>2. TimeInv /\ IInv' /\ [AnnounceNext]_allVars => TimeInv'
  BY StepTime DEF IInv
<1>3. TimeInv => StaysFound
  BY DEF TimeInv, SeenInv, LagInv, Listening, Running, StaysFound, Found
<1> QED
  BY <1>1, <1>2, <1>3, Invariant, PTL DEF AnnounceSpec

-----------------------------------------------------------------------------
(* The end of a Stop *)

\* The ticker of a loop that is not in its select has its whole period left.
TickerInv == \A n \in Node : loop[n] # "select" => toTick[n] = Period

\* The steps that the loop, and Stop, are away from their ends.  A select whose
\* ticker has fired may still begin a round, and Start may still launch the loop.
LoopLeft(n) ==
  CASE loop[n] = "off"                        -> 6
    [] loop[n] = "select" /\ toTick[n] = 0    -> 5
    [] loop[n] = "publish"                    -> 4
    [] loop[n] = "list"                       -> 3
    [] loop[n] = "write"                      -> 2
    [] loop[n] = "select" /\ toTick[n] # 0    -> 1
    [] loop[n] = "gone"                       -> 0

StopLeft(n) ==
  CASE stop[n] = "wait"  -> 3
    [] stop[n] = "close" -> 2
    [] stop[n] = "drop"  -> 1
    [] OTHER             -> 0

Ending(n) == Up(n) /\ stop[n] # "idle" /\ ctxDone[n]

\* Neither of the two takes a step back, nor is the cancellation undone.
EndsNearer(n) ==
  /\ ctxDone'[n] /\ stop'[n] # "idle"
  /\ \/ ~Up(n)'
     \/ stop'[n] = stop[n] /\ loop'[n] = loop[n] /\ toTick'[n] = toTick[n]
     \/ stop'[n] = stop[n] /\ LoopLeft(n)' < LoopLeft(n)
     \/ StopLeft(n)' < StopLeft(n) /\ loop'[n] = loop[n] /\ toTick'[n] = toTick[n]

\* Where n is in Stop and in its loop.
StopState(n) == <<stop[n], loop[n], toTick[n], ctxDone[n]>>

LEMMA TickerStep ==
  ASSUME TypeOK, TickerInv, [AnnounceNext]_allVars
  PROVE  TickerInv'
<1> USE DEF TypeOK, TickerInv, modVars, loopVars, msgVars
<1>1. ASSUME NEW m \in Node, Loop(m) PROVE TickerInv'
  BY <1>1 DEF Loop, BeginRound, Leave, Check, List, Write, WriteNil
<1>2. ASSUME NEW m \in Node,
             \/ Connect(m) \/ Arm(m) \/ StopStep(m) \/ Handler(m) \/ Cancel(m) \/ BeginStop(m)
             \/ Register(m) \/ \E i \in Publisher : Lose(m, i)
      PROVE  UNCHANGED loopVars
  BY <1>2 DEF Connect, Arm, StopStep, Wait, Close, Drop, Handler, Store, Deliver, Cancel,
              BeginStop, Register, Lose
<1>3. ASSUME NEW m \in Node, Launch(m) PROVE TickerInv'
  BY <1>3 DEF Launch
<1>4. CASE Tick
  BY <1>4 DEF Tick
<1>5. CASE Server \/ StopServer
  <2>1. Host \in Node
    BY HostAssumption, PublisherAssumption
  <2>2. UNCHANGED vars \/ Register(Host)
    BY <1>5 DEF Server, Make, RegisterService, Listen, StopServer
  <2> QED
    BY <1>2, <2>1, <2>2 DEF vars
<1> QED
  BY <1>1, <1>2, <1>3, <1>4, <1>5 DEF AnnounceNext, ModuleStep, StopDiscovery, allVars, vars

\* What becomes of n in the steps of its own module.
LEMMA EndingSteps ==
  ASSUME TypeOK, TickerInv, NEW n \in Node, Ending(n),
         ModuleStep(n) \/ Cancel(n) \/ BeginStop(n)
  PROVE  EndsNearer(n)
<1> USE DEF TypeOK, Up, Ending, EndsNearer, modVars, loopVars, msgVars
<1>1. Period \in Nat /\ Period # 0
  BY TimesAssumption
<1>2. CASE Connect(n) \/ Arm(n) \/ Handler(n) \/ \E i \in Publisher : Lose(n, i)
  BY <1>2 DEF Connect, Arm, Handler, Store, Deliver, Lose
<1>3. CASE Launch(n)
  BY <1>1, <1>3 DEF Launch, LoopLeft, TickerInv
<1>4. CASE StopStep(n)
  BY <1>4 DEF StopStep, Wait, Close, Drop, StopLeft
<1>5. CASE Loop(n)
  <2>1. CASE BeginRound(n)
    BY <1>1, <2>1 DEF BeginRound, LoopLeft
  <2>2. CASE Leave(n)
    BY <1>1, <2>2 DEF Leave, LoopLeft
  <2>3. CASE Check(n)
    BY <1>1, <2>3 DEF Check, LoopLeft, TickerInv
  <2>4. CASE Write(n)
    BY <1>1, <2>4 DEF Write, LoopLeft, TickerInv
  <2>5. CASE WriteNil(n)
    BY <1>1, <2>5 DEF WriteNil, LoopLeft, TickerInv
  <2>6. CASE List(n)
    BY <1>1, <2>6 DEF List, LoopLeft, TickerInv
  <2> QED
    BY <1>5, <2>1, <2>2, <2>3, <2>4, <2>5, <2>6 DEF Loop
<1>6. ~Cancel(n) /\ ~BeginStop(n)
  BY DEF Cancel, BeginStop
<1> QED
  BY <1>2, <1>3, <1>4, <1>5, <1>6 DEF ModuleStep

\* The other nodes have no part in it.
LEMMA EndingOthers ==
  ASSUME TypeOK, NEW n \in Node, NEW m \in Node \ {n},
         ModuleStep(m) \/ Cancel(m) \/ BeginStop(m)
  PROVE  StopState(n)' = StopState(n)
<1> USE DEF TypeOK, StopState, modVars, loopVars, msgVars
<1>1. CASE Connect(m) \/ Arm(m) \/ Launch(m) \/ Handler(m) \/ \E i \in Publisher : Lose(m, i)
  BY <1>1 DEF Connect, Arm, Launch, Handler, Store, Deliver, Lose
<1>2. CASE StopStep(m)
  BY <1>2 DEF StopStep, Wait, Close, Drop
<1>3. CASE Loop(m)
  BY <1>3 DEF Loop, BeginRound, Leave, Check, List, Write, WriteNil
<1>4. CASE Cancel(m) \/ BeginStop(m)
  BY <1>4 DEF Cancel, BeginStop
<1> QED
  BY <1>1, <1>2, <1>3, <1>4 DEF ModuleStep

LEMMA EndingStep ==
  ASSUME TypeOK, TickerInv, [AnnounceNext]_allVars, NEW n \in Node, Ending(n)
  PROVE  EndsNearer(n)
<1>1. StopState(n)' = StopState(n) => EndsNearer(n)
  BY DEF StopState, EndsNearer, Ending
<1>2. ASSUME NEW m \in Node, ModuleStep(m) \/ Cancel(m) \/ StopDiscovery(m)
      PROVE  EndsNearer(n)
  BY <1>1, <1>2, EndingSteps, EndingOthers DEF StopDiscovery
<1>3. CASE Tick
  <2>1. ~(loop[n] = "select")
    BY <1>3 DEF Tick, MayWait, Ending
  <2> QED
    BY <1>1, <1>3, <2>1 DEF Tick, TypeOK, StopState, modVars
<1>4. CASE Server \/ StopServer
  BY <1>1, <1>4 DEF Server, Make, RegisterService, Register, Listen, StopServer, vars, modVars,
                    loopVars, StopState
<1>5. CASE UNCHANGED allVars
  BY <1>1, <1>5 DEF allVars, vars, modVars, loopVars, StopState
<1> QED
  BY <1>2, <1>3, <1>4, <1>5 DEF AnnounceNext

\* The bound behind StopEnds: once the context is done, a Stop of discovery is
\* three steps away from its end, and the loop it may wait for at most six,
\* whatever the broker, the other nodes and a Start that comes late do
\* (mqtt.go:135-150, :176-189).
THEOREM StopComesToItsEnd ==
  AnnounceSpec => [][\A n \in Node : Ending(n) => EndsNearer(n)]_allVars
<1>1. AnnounceInit => TickerInv
  BY DEF AnnounceInit, Init, TickerInv
<1>2. IInv /\ TickerInv /\ [AnnounceNext]_allVars => TickerInv'
  BY TickerStep DEF IInv, ModInv
<1>3. IInv /\ TickerInv /\ [AnnounceNext]_allVars =>
        [\A n \in Node : Ending(n) => EndsNearer(n)]_allVars
  BY EndingStep DEF IInv, ModInv
<1> QED
  BY <1>1, <1>2, <1>3, Invariant, PTL DEF AnnounceSpec

-----------------------------------------------------------------------------
(* Forgetting *)

\* silent[i]: for how long node i has been unable to announce its service.
VARIABLE silent

Silent(i) == loop[i] = "gone" \/ ~Up(i)

SilentInit == AnnounceInit /\ silent = [i \in Publisher |-> 0]

SilentNext ==
  /\ AnnounceNext
  /\ silent' = [i \in Publisher |->
                  CASE ~Silent(i) -> 0
                    [] Silent(i) /\ Tick -> silent[i] + 1
                    [] OTHER -> silent[i]]

SilentSpec == SilentInit /\ [][SilentNext]_<<allVars, silent>>

\* Nothing is published in the meantime.
SilentInv ==
  /\ silent \in [Publisher -> Nat]
  /\ \A i \in Publisher : pubAge[i] # None => pubAge[i] >= silent[i] \/ pubAge[i] = MaxPubAge

\* Only a Write makes a service young again, and only Tick older.
LEMMA OnlyWritePublishes ==
  ASSUME TypeOK, AnnounceNext, NEW i \in Publisher, Silent(i)
  PROVE  \/ ~Tick /\ pubAge'[i] = pubAge[i]
         \/ Tick /\ pubAge'[i] = IF pubAge[i] \in {None, MaxPubAge} THEN pubAge[i] ELSE pubAge[i] + 1
<1> USE DEF TypeOK, modVars, loopVars, msgVars
<1>1. ASSUME NEW m \in Node, Up(m), Write(m)
      PROVE  pubAge'[i] = pubAge[i]
  BY <1>1 DEF Write, Silent
<1>2. ASSUME NEW m \in Node, ModuleStep(m) \/ Cancel(m) \/ BeginStop(m), ~Write(m)
      PROVE  UNCHANGED pubAge
  BY <1>2 DEF ModuleStep, Connect, Arm, Launch, StopStep, Wait, Close, Drop, Loop, BeginRound,
              Leave, Check, List, WriteNil, Handler, Store, Deliver, Lose, Cancel, BeginStop
<1>3. ASSUME Server \/ StopServer
      PROVE  UNCHANGED pubAge
  BY <1>3 DEF Server, Make, RegisterService, Register, Listen, StopServer, vars
<1>4. CASE Tick
  BY <1>4 DEF Tick
<1>5. CASE ~Tick
  BY <1>1, <1>2, <1>3, <1>5 DEF AnnounceNext, StopDiscovery
<1> QED
  BY <1>4, <1>5

LEMMA SilentStep ==
  ASSUME IInv, SilentInv, SilentNext
  PROVE  SilentInv'
<1>1. ASSUME NEW i \in Publisher
      PROVE  /\ silent'[i] \in Nat
             /\ pubAge'[i] # None => pubAge'[i] >= silent'[i] \/ pubAge'[i] = MaxPubAge
  <2>1. /\ silent[i] \in Nat
        /\ pubAge[i] \in 0..MaxPubAge \cup {None} /\ pubAge'[i] \in 0..MaxPubAge \cup {None}
    <3>1. IInv'
      BY StepInv DEF SilentNext
    <3> QED
      BY <3>1 DEF SilentInv, IInv, ModInv, TypeOK
  <2>2. CASE ~Silent(i)
    BY <2>1, <2>2, MaxPubAgeNat DEF SilentNext
  <2>3. CASE Silent(i) /\ Tick
    <3>1. pubAge'[i] = IF pubAge[i] \in {None, MaxPubAge} THEN pubAge[i] ELSE pubAge[i] + 1
      BY <2>3, OnlyWritePublishes DEF SilentNext, IInv, ModInv
    <3>2. silent'[i] = silent[i] + 1
      BY <2>3 DEF SilentNext
    <3> QED
      BY <2>1, <3>1, <3>2, MaxPubAgeNat DEF SilentInv
  <2>4. CASE Silent(i) /\ ~Tick
    <3>1. pubAge'[i] = pubAge[i]
      BY <2>4, OnlyWritePublishes DEF SilentNext, IInv, ModInv
    <3>2. silent'[i] = silent[i]
      BY <2>4 DEF SilentNext
    <3> QED
      BY <2>1, <3>1, <3>2 DEF SilentInv
  <2> QED
    BY <2>2, <2>3, <2>4
<1> QED
  BY <1>1 DEF SilentInv, SilentNext

\* The bound behind GoneIsForgotten: no process finds a service for longer than
\* the time to live of infoCache and the delay of a message after the loop that
\* announced it has left or its process has ended, although nothing withdraws it
\* (mqtt.go:87, :182).  The bound is exact: TLC finds a service that long after.
THEOREM GoneForgottenInTime ==
  SilentSpec => [](\A n \in Node, i \in Publisher : Found(n, i) => silent[i] <= CacheTTL + MaxDelay)
<1>1. AnnounceInit => IInv
  BY InitInv
<1>2. SilentInit => SilentInv
  BY DEF SilentInit, AnnounceInit, Init, SilentInv
<1>3. IInv /\ [SilentNext]_<<allVars, silent>> => IInv'
  <2> SUFFICES ASSUME IInv, [SilentNext]_<<allVars, silent>>
               PROVE  [AnnounceNext]_allVars
    BY StepInv
  <2> QED
    BY DEF SilentNext
<1>4. IInv /\ SilentInv /\ [SilentNext]_<<allVars, silent>> => SilentInv'
  <2> SUFFICES ASSUME IInv, SilentInv, UNCHANGED <<allVars, silent>>
               PROVE  SilentInv'
    BY SilentStep
  <2> QED
    BY DEF SilentInv, allVars, vars
<1>5. IInv /\ SilentInv => \A n \in Node, i \in Publisher : Found(n, i) => silent[i] <= CacheTTL + MaxDelay
  <2> SUFFICES ASSUME IInv, SilentInv, NEW n \in Node, NEW i \in Publisher, Found(n, i)
               PROVE  silent[i] <= CacheTTL + MaxDelay
    OBVIOUS
  <2>1. pubAge[i] # None /\ pubAge[i] <= CacheTTL + MaxDelay
    BY FreshState DEF Fresh
  <2>2. pubAge[i] \in 0..MaxPubAge /\ silent[i] \in Nat
    BY <2>1 DEF IInv, ModInv, TypeOK, SilentInv
  <2>3. pubAge[i] >= silent[i] \/ pubAge[i] = MaxPubAge
    BY <2>1 DEF SilentInv
  <2> QED
    BY <2>1, <2>2, <2>3, TimesAssumption DEF MaxPubAge
<1> QED
  BY <1>1, <1>2, <1>3, <1>4, <1>5, PTL DEF SilentSpec, SilentInit
=============================================================================
