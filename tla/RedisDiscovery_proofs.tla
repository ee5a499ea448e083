------------------------- MODULE RedisDiscovery_proofs -------------------------
(***************************************************************************)
(* RedisDiscovery for any number of nodes and for all durations.           *)
(***************************************************************************)
EXTENDS RedisDiscovery, TLAPS

-----------------------------------------------------------------------------
(* The inductive invariant *)

\* The two phases of a round are over before the ticker fires again.
RoundInv ==
  \A n \in Node :
    /\ loop[n] = "publish" => toTick[n] = Period - phaseAge[n]
    /\ loop[n] = "scan" => toTick[n] + phaseAge[n] >= Period - CmdTimeout

\* A key whose SET is answered was set in this phase, and one that the server has
\* read existed in it.
AnswerAt(n) ==
  /\ loop[n] \in {"off", "select"} => answer[n] = None
  /\ loop[n] = "publish" /\ answer[n] # None =>
       n \in Publisher /\ pubAge[n] # None /\ pubAge[n] <= phaseAge[n]
  /\ loop[n] = "scan" /\ answer[n] # None =>
       /\ answer[n] \in toGet[n]
       /\ pubAge[answer[n]] # None /\ pubAge[answer[n]] <= KeyTTL + phaseAge[n]

AnswerInv == \A n \in Node : AnswerAt(n)

IInv == TypeOK /\ RoundInv /\ AnswerInv /\ Fresh

\* The durations are numbers.
LEMMA DurationsNat ==
  /\ MaxPubAge \in Nat /\ KeyTTL \in Nat /\ CacheTTL \in Nat
  /\ Period \in Nat /\ CmdTimeout \in Nat
  BY TimesAssumption DEF MaxPubAge

\* Ages begin at 0 and are counted up to their bound.
LEMMA Ages ==
  ASSUME NEW m \in Nat
  PROVE  0 \in 0..m /\ \A x \in 0..m : x # m => x + 1 \in 0..m
  OBVIOUS

\* Initially nobody has published anything.
LEMMA InitInv == Init => IInv
<1> SUFFICES ASSUME Init PROVE IInv
  OBVIOUS
<1>1. TypeOK
  BY DurationsNat DEF Init, TypeOK
<1>2. RoundInv /\ AnswerInv /\ Fresh
  BY DEF Init, RoundInv, AnswerInv, AnswerAt, Fresh, Found
<1> QED
  BY <1>1, <1>2 DEF IInv

\* Forgetting keeps the histories' types.
LEMMA ForgetType ==
  ASSUME TypeOK, NEW n \in Node, Forget(n)
  PROVE  /\ seen' \in [Node -> SUBSET Publisher]
         /\ refMiss' \in [Node -> 0..1]
         /\ pubMiss' \in [Publisher -> 0..3]
  BY DEF TypeOK, Forget

\* Start and Register.
LEMMA StartInv ==
  ASSUME IInv, NEW n \in Node, Arm(n) \/ StartFails(n) \/ Launch(n)
  PROVE  IInv'
<1>1. UNCHANGED <<unscanned, toGet, missed, answer, stop, ctxDone, registered, cacheVars, histVars>>
  BY DEF Arm, StartFails, Launch, loopVars
<1>2. CASE Arm(n) \/ StartFails(n)
  <2>1. UNCHANGED <<loop, phaseAge, toTick>> /\ start[n] = "idle"
        /\ start' \in [Node -> {"idle", "armed", "ok", "failed"}]
        /\ \A m \in Node : start[m] = "ok" => start'[m] = "ok"
    BY <1>2 DEF IInv, TypeOK, Arm, StartFails, loopVars
  <2>2. TypeOK'
    BY <1>1, <2>1 DEF IInv, TypeOK, cacheVars, histVars
  <2>3. RoundInv' /\ AnswerInv' /\ Fresh'
    BY <1>1, <2>1 DEF IInv, RoundInv, AnswerInv, AnswerAt, Fresh, Found, cacheVars
  <2> QED
    BY <2>2, <2>3 DEF IInv
<1>3. CASE Launch(n)
  <2>1. /\ start' = [start EXCEPT ![n] = "ok"]
        /\ loop' = [loop EXCEPT ![n] = IF Dropped(n) THEN "select" ELSE "publish"]
        /\ phaseAge' = [phaseAge EXCEPT ![n] = 0]
        /\ toTick' = [toTick EXCEPT ![n] = Period]
    BY <1>3 DEF Launch
  <2>2. TypeOK'
    BY <1>1, <2>1, DurationsNat DEF IInv, TypeOK, cacheVars, histVars
  <2>3. RoundInv'
    BY <2>1, DurationsNat DEF IInv, TypeOK, RoundInv
  <2>4. loop[n] = "off"
    BY <1>3 DEF IInv, TypeOK, Launch
  <2>5. AnswerInv' /\ Fresh'
    BY <1>1, <2>1, <2>4 DEF IInv, TypeOK, AnswerInv, AnswerAt, Fresh, Found, cacheVars
  <2> QED
    BY <2>2, <2>3, <2>5 DEF IInv
<1> QED
  BY <1>2, <1>3

LEMMA RegisterInv ==
  ASSUME IInv, NEW n \in Node, Register(n) \/ Cancel(n) \/ BeginStop(n) \/ Wait(n)
  PROVE  IInv'
<1>1. /\ UNCHANGED <<loopVars, start, cacheVars>>
      /\ stop' \in [Node -> {"idle", "wait", "drop", "ok"}]
      /\ ctxDone' \in [Node -> BOOLEAN] /\ registered' \subseteq Publisher
  BY DEF IInv, TypeOK, Register, Cancel, BeginStop, Wait
<1>2. /\ seen' \in [Node -> SUBSET Publisher]
      /\ refMiss' \in [Node -> 0..1]
      /\ pubMiss' \in [Publisher -> 0..3]
  <2>1. Forget(n) \/ UNCHANGED histVars
    BY DEF Register, Cancel, BeginStop, Wait
  <2> QED
    BY <2>1, ForgetType DEF IInv, TypeOK, histVars
<1>3. TypeOK'
  BY <1>1, <1>2 DEF IInv, TypeOK, loopVars, cacheVars
<1>4. RoundInv' /\ AnswerInv' /\ Fresh'
  BY <1>1 DEF IInv, RoundInv, AnswerInv, AnswerAt, Fresh, Found, loopVars, cacheVars
<1> QED
  BY <1>3, <1>4 DEF IInv

\* The loop begins a round, or leaves, or dies.
LEMMA SelectInv ==
  ASSUME IInv, NEW n \in Node, BeginRound(n) \/ Leave(n) \/ Panic(n)
  PROVE  IInv'
<1>1. /\ UNCHANGED <<modVars, cacheVars, histVars>>
      /\ loop[n] # "off"
  BY DEF BeginRound, Leave, Panic
<1>2. /\ loop' \in [Node -> {"off", "publish", "scan", "select", "gone", "crashed"}]
      /\ loop'[n] \in {"publish", "gone", "crashed"}
      /\ \A m \in Node : m # n => loop'[m] = loop[m]
  BY DEF IInv, TypeOK, BeginRound, Leave, Panic
<1>3. /\ toTick' \in [Node -> 0..Period] /\ toTick'[n] = Period
      /\ \A m \in Node : m # n => toTick'[m] = toTick[m]
  <2>1. toTick' = [toTick EXCEPT ![n] = Period]
    BY DEF BeginRound, Leave, Panic
  <2> QED
    BY <2>1, DurationsNat DEF IInv, TypeOK
<1>4. /\ phaseAge' \in [Node -> 0..CmdTimeout]
      /\ loop'[n] = "publish" => phaseAge'[n] = 0 /\ answer'[n] = None
      /\ \A m \in Node : m # n => phaseAge'[m] = phaseAge[m]
  <2>1. \/ phaseAge' = [phaseAge EXCEPT ![n] = 0]
        \/ phaseAge' = phaseAge /\ loop'[n] = "gone"
    BY DEF IInv, TypeOK, BeginRound, Leave, Panic
  <2>2. loop'[n] = "publish" => answer' = answer /\ loop[n] = "select"
    BY DEF IInv, TypeOK, BeginRound, Leave, Panic
  <2>3. loop[n] = "select" => answer[n] = None
    BY DEF IInv, AnswerInv, AnswerAt
  <2>4. phaseAge \in [Node -> 0..CmdTimeout] /\ 0 \in 0..CmdTimeout
    BY DurationsNat DEF IInv, TypeOK
  <2>5. loop'[n] = "publish" => answer'[n] = None
    BY <2>2, <2>3
  <2> QED
    BY <2>1, <2>4, <2>5
<1>5. /\ unscanned' \in [Node -> SUBSET Publisher] /\ toGet' \in [Node -> SUBSET Publisher]
      /\ missed' \in [Node -> BOOLEAN] /\ answer' \in [Node -> Publisher \cup {None}]
      /\ \A m \in Node : m # n => answer'[m] = answer[m] /\ toGet'[m] = toGet[m]
  BY DEF IInv, TypeOK, BeginRound, Leave, Panic
<1>6. TypeOK'
  BY <1>1, <1>2, <1>3, <1>4, <1>5 DEF IInv, TypeOK, modVars, cacheVars, histVars
<1>7. RoundInv'
  <2>1. loop'[n] = "publish" => toTick'[n] = Period - phaseAge'[n]
    BY <1>3, <1>4, DurationsNat
  <2> QED
    BY <1>2, <1>3, <1>4, <2>1 DEF IInv, RoundInv
<1>8. AnswerInv'
  BY <1>1, <1>2, <1>4, <1>5 DEF IInv, AnswerInv, AnswerAt, cacheVars
<1>9. Fresh'
  BY <1>1 DEF IInv, Fresh, Found, cacheVars
<1> QED
  BY <1>6, <1>7, <1>8, <1>9 DEF IInv

\* Stop drops the cache.
LEMMA DropInv ==
  ASSUME IInv, NEW n \in Node, Drop(n)
  PROVE  IInv'
<1>1. TypeOK'
  BY DurationsNat DEF IInv, TypeOK, Drop, loopVars, histVars
<1>2. RoundInv' /\ AnswerInv'
  BY DEF IInv, RoundInv, AnswerInv, AnswerAt, Drop, loopVars
<1>3. Fresh'
  BY DEF IInv, TypeOK, Fresh, Found, Drop
<1> QED
  BY <1>1, <1>2, <1>3 DEF IInv

\* The publishing phase has taken no longer than its deadline.
LEMMA BeginScanInv ==
  ASSUME IInv, NEW n \in Node, loop[n] = "publish", BeginScan(n)
  PROVE  /\ RoundInv' /\ AnswerInv' /\ Fresh'
         /\ loop' \in [Node -> {"off", "publish", "scan", "select", "gone", "crashed"}]
         /\ \A m \in Node : loop'[m] # "off" => loop[m] # "off"
         /\ phaseAge' \in [Node -> 0..CmdTimeout]
         /\ toTick' \in [Node -> 0..Period]
         /\ unscanned' \in [Node -> SUBSET Publisher]
         /\ toGet' \in [Node -> SUBSET Publisher]
         /\ missed' \in [Node -> BOOLEAN]
         /\ answer' \in [Node -> Publisher \cup {None}]
         /\ UNCHANGED <<modVars, cacheVars>>
<1>1. RoundInv'
  BY DurationsNat DEF IInv, TypeOK, RoundInv, BeginScan
<1>2. Keys \subseteq Publisher
  BY DEF Keys
<1>3. AnswerInv' /\ Fresh'
  BY DEF IInv, TypeOK, AnswerInv, AnswerAt, Fresh, Found, BeginScan, cacheVars
<1> QED
  BY <1>1, <1>2, <1>3, DurationsNat DEF IInv, TypeOK, BeginScan

\* publishAll: the answer of its SET, or none, changes no age.
LEMMA PublishInv ==
  ASSUME IInv, NEW n \in Node, PublishNothing(n) \/ Publish(n) \/ PublishFails(n)
  PROVE  IInv'
<1>1. loop[n] = "publish" /\ BeginScan(n)
  BY DEF PublishNothing, Publish, PublishFails
<1>2. refMiss' = refMiss
  BY DEF PublishNothing, Publish, PublishFails, histVars
<1>3. pubMiss' \in [Publisher -> 0..3]
  <2>1. pubMiss \in [Publisher -> 0..3]
    BY DEF IInv, TypeOK
  <2>2. \A i \in Publisher : pubMiss[i] < 3 => pubMiss[i] + 1 \in 0..3
    BY <2>1
  <2>3. \/ pubMiss' = pubMiss
        \/ pubMiss' = [pubMiss EXCEPT ![n] = 0]
        \/ pubMiss' = [pubMiss EXCEPT ![n] = IF Kept(n) /\ @ < 3 THEN @ + 1 ELSE @]
    BY DEF PublishNothing, Publish, PublishFails, histVars
  <2> QED
    BY <2>1, <2>2, <2>3
<1>4. seen' \in [Node -> SUBSET Publisher]
  BY DEF IInv, TypeOK, PublishNothing, Publish, PublishFails, histVars
<1>5. TypeOK'
  BY <1>1, <1>2, <1>3, <1>4, BeginScanInv DEF IInv, TypeOK, modVars, cacheVars
<1> QED
  BY <1>1, <1>5, BeginScanInv DEF IInv

\* The server: a SET makes the key younger, a GET reads a key that exists.
LEMMA ServerInv ==
  ASSUME IInv, NEW n \in Node, Server(n)
  PROVE  IInv'
<1>1. UNCHANGED <<loop, phaseAge, toTick, unscanned, toGet, missed, modVars, cacheAge, histVars>>
  BY DEF Server, ServeSet, ServeGet, cacheVars
<1>2. CASE ServeSet(n)
  <2>1. /\ loop[n] = "publish" /\ answer' = [answer EXCEPT ![n] = n]
        /\ pubAge' = [pubAge EXCEPT ![n] = 0]
    BY <1>2 DEF ServeSet
  <2>2. \A i \in Publisher : pubAge'[i] = pubAge[i] \/ pubAge'[i] = 0
    BY <2>1 DEF IInv, TypeOK
  <2>3. n \in Publisher
    BY <1>2 DEF IInv, TypeOK, ServeSet
  <2>4. TypeOK'
    BY <1>1, <2>1, <2>3, DurationsNat DEF IInv, TypeOK, modVars, histVars
  <2>5. AnswerInv'
    <3> SUFFICES ASSUME NEW m \in Node
                 PROVE  AnswerAt(m)'
      BY DEF AnswerInv
    <3>1. AnswerAt(m) /\ phaseAge[m] \in Nat /\ answer[m] \in Publisher \cup {None}
      BY DurationsNat DEF IInv, TypeOK, AnswerInv
    <3>2. CASE m = n
      <4>1. loop'[m] = "publish" /\ answer'[m] = m /\ pubAge'[m] = 0 /\ phaseAge'[m] = phaseAge[m]
        BY <1>1, <2>1, <2>3, <3>2 DEF IInv, TypeOK
      <4> QED
        BY <2>3, <3>1, <3>2, <4>1, DurationsNat, NoneAssumption DEF AnswerAt
    <3>3. CASE m # n
      <4>1. answer'[m] = answer[m]
        BY <2>1, <3>3 DEF IInv, TypeOK
      <4>2. ASSUME NEW i \in Publisher, NEW age \in Nat, pubAge[i] # None, pubAge[i] <= age
            PROVE  pubAge'[i] # None /\ pubAge'[i] <= age
        BY <2>2, <4>2, NoneAssumption
      <4>3. KeyTTL + phaseAge[m] \in Nat
        BY <3>1, DurationsNat
      <4>4. CASE loop[m] = "publish" /\ answer[m] # None
        BY <1>1, <3>1, <4>1, <4>2, <4>4 DEF AnswerAt
      <4>5. CASE loop[m] = "scan" /\ answer[m] # None
        BY <1>1, <3>1, <4>1, <4>2, <4>3, <4>5 DEF AnswerAt
      <4> QED
        BY <1>1, <3>1, <4>1, <4>4, <4>5 DEF AnswerAt
    <3> QED
      BY <3>2, <3>3
  <2>6. Fresh'
    <3> SUFFICES ASSUME NEW m \in Node, NEW i \in Publisher, cacheAge[m][i] # None
                 PROVE  pubAge'[i] # None /\ pubAge'[i] <= cacheAge[m][i] + KeyTTL + CmdTimeout
      BY <1>1 DEF Fresh, Found
    <3>1. pubAge[i] # None /\ pubAge[i] <= cacheAge[m][i] + KeyTTL + CmdTimeout
      BY DEF IInv, Fresh, Found
    <3>2. cacheAge[m][i] \in 0..CacheTTL
      BY DEF IInv, TypeOK
    <3> QED
      BY <2>2, <3>1, <3>2, DurationsNat, NoneAssumption
  <2>7. RoundInv'
    BY <1>1 DEF IInv, RoundInv
  <2> QED
    BY <2>4, <2>5, <2>6, <2>7 DEF IInv
<1>3. ASSUME NEW i \in Publisher, ServeGet(n, i)
      PROVE  IInv'
  <2>1. /\ Exists(i) /\ answer' = [answer EXCEPT ![n] = i] /\ pubAge' = pubAge
        /\ loop[n] = "scan" /\ i \in toGet[n]
    BY <1>3 DEF ServeGet, cacheVars
  <2>2. TypeOK'
    BY <1>1, <2>1 DEF IInv, TypeOK, modVars, histVars
  <2>3. AnswerInv'
    <3>1. pubAge[i] # None /\ pubAge[i] <= KeyTTL + phaseAge[n]
      <4>1. pubAge[i] # None /\ pubAge[i] <= KeyTTL
        BY <2>1 DEF Exists
      <4>2. pubAge[i] \in 0..MaxPubAge /\ phaseAge[n] \in 0..CmdTimeout
        BY <4>1 DEF IInv, TypeOK
      <4> QED
        BY <4>1, <4>2, DurationsNat
    <3> QED
      BY <1>1, <2>1, <3>1 DEF IInv, TypeOK, AnswerInv, AnswerAt
  <2>4. RoundInv' /\ Fresh'
    BY <1>1, <2>1 DEF IInv, RoundInv, Fresh, Found
  <2> QED
    BY <2>2, <2>3, <2>4 DEF IInv
<1> QED
  BY <1>2, <1>3 DEF Server

\* SCAN and its failure.
LEMMA ScanInv ==
  ASSUME IInv, NEW n \in Node, ScanPage(n) \/ ScanFails(n) \/ ScanDone(n)
  PROVE  IInv'
<1>1. Fresh'
  BY DEF IInv, Fresh, Found, ScanPage, ScanFails, ScanDone, EndRefresh, cacheVars
<1>2. CASE ScanPage(n)
  <2>1. PICK page \in SUBSET (unscanned[n] \cap Keys) :
          /\ toGet' = [toGet EXCEPT ![n] = page]
          /\ unscanned' = [unscanned EXCEPT ![n] = @ \ page]
    BY <1>2 DEF ScanPage
  <2>2. page \subseteq Publisher
    BY <2>1 DEF Keys
  <2>3. UNCHANGED <<loop, phaseAge, toTick, missed, answer, modVars, cacheVars, histVars>>
    BY <1>2 DEF ScanPage
  <2>4. TypeOK'
    BY <2>1, <2>2, <2>3 DEF IInv, TypeOK, modVars, cacheVars, histVars
  <2>5. answer[n] = None
    BY <1>2 DEF IInv, AnswerInv, AnswerAt, ScanPage
  <2>6. RoundInv' /\ AnswerInv'
    BY <2>1, <2>3, <2>5 DEF IInv, TypeOK, RoundInv, AnswerInv, AnswerAt, cacheVars
  <2> QED
    BY <1>1, <2>4, <2>6 DEF IInv
<1>3. CASE ScanFails(n) \/ ScanDone(n)
  <2>1. PICK failed : loop[n] = "scan" /\ toGet[n] = {} /\ EndRefresh(n, failed)
    BY <1>3 DEF ScanFails, ScanDone
  <2>2. refMiss' \in [Node -> 0..1]
    BY <2>1 DEF IInv, TypeOK, EndRefresh
  <2>3. seen' \in [Node -> SUBSET Publisher]
    BY <2>1 DEF IInv, TypeOK, EndRefresh
  <2>4. TypeOK'
    BY <2>1, <2>2, <2>3, DurationsNat DEF IInv, TypeOK, EndRefresh, modVars, cacheVars
  <2>5. RoundInv' /\ AnswerInv'
    BY <2>1 DEF IInv, TypeOK, RoundInv, AnswerInv, AnswerAt, EndRefresh, cacheVars
  <2> QED
    BY <1>1, <2>4, <2>5 DEF IInv
<1> QED
  BY <1>2, <1>3

\* A GET stores a key that the server has found in this phase.
LEMMA GetInv ==
  ASSUME IInv, NEW n \in Node, NEW i \in Publisher, Get(n, i) \/ GetNil(n, i) \/ GetFails(n, i)
  PROVE  IInv'
<1>1. UNCHANGED <<loop, phaseAge, toTick, unscanned, modVars, pubAge, pubMiss, refMiss>>
  BY DEF Get, GetNil, GetFails, cacheVars, histVars
<1>2. /\ toGet' \in [Node -> SUBSET Publisher] /\ missed' \in [Node -> BOOLEAN]
      /\ answer' \in [Node -> Publisher \cup {None}]
  <2>1. toGet' = [toGet EXCEPT ![n] = @ \ {i}]
    BY DEF Get, GetNil, GetFails
  <2>2. missed' = missed \/ missed' = [missed EXCEPT ![n] = TRUE]
    BY DEF Get, GetNil, GetFails
  <2>3. answer' = answer \/ answer' = [answer EXCEPT ![n] = None]
    BY DEF Get, GetNil, GetFails
  <2> QED
    BY <2>1, <2>2, <2>3 DEF IInv, TypeOK
<1>3. seen' \in [Node -> SUBSET Publisher]
  <2>1. seen \in [Node -> SUBSET Publisher]
    BY DEF IInv, TypeOK
  <2>2. \/ seen' = seen
        \/ seen' = [seen EXCEPT ![n] = IF Kept(n) /\ Kept(i) /\ pubMiss[i] < 3
                                         THEN @ \cup {i} ELSE @]
    BY DEF Get, GetNil, GetFails, Store, histVars
  <2> QED
    BY <2>1, <2>2
<1>4. \/ cacheAge' = cacheAge
      \/ loop[n] = "scan" /\ answer[n] = i /\ cacheAge' = [cacheAge EXCEPT ![n][i] = 0]
  BY DEF Get, GetNil, GetFails, Store, cacheVars
<1>5. cacheAge' \in [Node -> [Publisher -> 0..CacheTTL \cup {None}]]
  <2>1. cacheAge \in [Node -> [Publisher -> 0..CacheTTL \cup {None}]]
    BY DEF IInv, TypeOK
  <2>2. 0 \in 0..CacheTTL \cup {None}
    BY DurationsNat
  <2> DEFINE Age == 0..CacheTTL \cup {None}
  <2>3. cacheAge \in [Node -> [Publisher -> Age]] /\ 0 \in Age
    BY <2>1, <2>2
  <2> HIDE DEF Age
  <2>4. cacheAge' \in [Node -> [Publisher -> Age]]
    BY <1>4, <2>3
  <2> QED
    BY <2>4 DEF Age
<1>6. TypeOK'
  BY <1>1, <1>2, <1>3, <1>5 DEF IInv, TypeOK, modVars
<1>7. RoundInv'
  BY <1>1 DEF IInv, RoundInv
<1>8. AnswerInv'
  <2>1. answer'[n] = None /\ \A m \in Node : m # n => answer'[m] = answer[m] /\ toGet'[m] = toGet[m]
    BY DEF IInv, TypeOK, Get, GetNil, GetFails
  <2> QED
    BY <1>1, <2>1 DEF IInv, AnswerInv, AnswerAt
<1>9. Fresh'
  <2> SUFFICES ASSUME NEW m \in Node, NEW j \in Publisher, cacheAge'[m][j] # None
               PROVE  pubAge[j] # None /\ pubAge[j] <= cacheAge'[m][j] + KeyTTL + CmdTimeout
    BY <1>1 DEF Fresh, Found
  <2>1. CASE cacheAge'[m][j] = cacheAge[m][j]
    BY <2>1 DEF IInv, Fresh, Found
  <2>2. CASE cacheAge'[m][j] # cacheAge[m][j]
    <3>1. /\ loop[n] = "scan" /\ answer[n] = i
          /\ cacheAge' = [cacheAge EXCEPT ![n] = [@ EXCEPT ![i] = 0]]
          /\ cacheAge[m] \in [Publisher -> 0..CacheTTL \cup {None}]
      BY <1>4, <2>2 DEF IInv, TypeOK
    <3>4. cacheAge'[m] = IF m = n THEN [cacheAge[m] EXCEPT ![i] = 0] ELSE cacheAge[m]
      BY <3>1 DEF IInv, TypeOK
    <3>5. j = i /\ cacheAge'[m][j] = 0
      BY <2>2, <3>1, <3>4
    <3>2. pubAge[i] # None /\ pubAge[i] <= KeyTTL + phaseAge[n]
      BY <3>1, NoneAssumption DEF IInv, AnswerInv, AnswerAt
    <3>3. pubAge[i] \in 0..MaxPubAge /\ phaseAge[n] \in 0..CmdTimeout
      BY <3>2 DEF IInv, TypeOK
    <3> QED
      BY <3>2, <3>3, <3>5, DurationsNat
  <2> QED
    BY <2>1, <2>2
<1> QED
  BY <1>6, <1>7, <1>8, <1>9 DEF IInv

\* Time: no phase outlives its deadline, and ages grow together.
LEMMA TickInv ==
  ASSUME IInv, Tick
  PROVE  IInv'
<1>1. UNCHANGED <<loop, unscanned, toGet, missed, answer, modVars, histVars>>
  BY DEF Tick
<1>2. ASSUME NEW n \in Node
      PROVE  /\ phaseAge'[n] \in 0..CmdTimeout
             /\ toTick'[n] \in 0..Period
             /\ loop[n] = "publish" => toTick'[n] = Period - phaseAge'[n]
             /\ loop[n] = "scan" => toTick'[n] + phaseAge'[n] >= Period - CmdTimeout
             /\ loop[n] \in {"publish", "scan"} => phaseAge'[n] = phaseAge[n] + 1
  <2>1. phaseAge[n] \in 0..CmdTimeout /\ toTick[n] \in 0..Period
    BY DEF IInv, TypeOK
  <2>2. CASE loop[n] \in {"publish", "scan"}
    <3>1. phaseAge[n] < CmdTimeout
      BY <2>2 DEF Tick, MayWait
    <3>2. /\ toTick[n] + phaseAge[n] >= Period - CmdTimeout
          /\ loop[n] = "publish" => toTick[n] = Period - phaseAge[n]
      BY <2>1, <2>2, DurationsNat DEF IInv, RoundInv
    <3>3. phaseAge'[n] = phaseAge[n] + 1
          /\ toTick'[n] = toTick[n] - 1
      BY <2>2 DEF Tick, Ticking
    <3>4. phaseAge'[n] \in 0..CmdTimeout /\ toTick'[n] \in 0..Period
      BY <2>1, <3>1, <3>2, <3>3, TimesAssumption
    <3>5. toTick'[n] + phaseAge'[n] = toTick[n] + phaseAge[n]
      BY <2>1, <3>3, DurationsNat
    <3>6. loop[n] = "publish" => toTick'[n] = Period - phaseAge'[n]
      BY <2>1, <3>2, <3>3, DurationsNat
    <3> QED
      BY <1>1, <3>2, <3>3, <3>4, <3>5, <3>6
  <2>3. CASE loop[n] = "select"
    <3>1. Dropped(n) \/ toTick[n] > 0
      BY <2>3 DEF Tick, MayWait
    <3>2. phaseAge'[n] = phaseAge[n] /\ toTick'[n] = IF Dropped(n) THEN toTick[n] ELSE toTick[n] - 1
      BY <2>3 DEF Tick, Ticking
    <3> QED
      BY <1>1, <2>1, <2>3, <3>1, <3>2, DurationsNat
  <2>4. CASE loop[n] \in {"off", "gone", "crashed"}
    BY <1>1, <2>1, <2>4 DEF Tick, Ticking
  <2> QED
    BY <2>2, <2>3, <2>4 DEF IInv, TypeOK
<1>3. ASSUME NEW i \in Publisher
      PROVE  /\ pubAge'[i] \in 0..MaxPubAge \cup {None}
             /\ pubAge[i] # None => pubAge'[i] # None /\ pubAge'[i] <= pubAge[i] + 1
  <2>1. pubAge[i] \in 0..MaxPubAge \cup {None}
    BY DEF IInv, TypeOK
  <2>2. pubAge'[i] = Older(pubAge[i], MaxPubAge)
    BY DEF Tick
  <2> QED
    BY <2>1, <2>2, DurationsNat, NoneAssumption, Ages DEF Older
<1>4. ASSUME NEW n \in Node, NEW i \in Publisher
      PROVE  /\ cacheAge'[n][i] \in 0..CacheTTL \cup {None}
             /\ cacheAge'[n][i] # None => /\ cacheAge[n][i] # None
                                          /\ cacheAge'[n][i] = cacheAge[n][i] + 1
  <2>1. cacheAge[n][i] \in 0..CacheTTL \cup {None}
    BY DEF IInv, TypeOK
  <2>2. cacheAge'[n][i] = Aged(cacheAge[n][i])
    BY DEF Tick
  <2> QED
    BY <2>1, <2>2, TimesAssumption DEF Aged, IsExpired
<1>5. TypeOK'
  <2>1. phaseAge' \in [Node -> 0..CmdTimeout] /\ toTick' \in [Node -> 0..Period]
    BY <1>2 DEF Tick
  <2>2. pubAge' \in [Publisher -> 0..MaxPubAge \cup {None}]
    BY <1>3 DEF Tick
  <2>3. cacheAge' \in [Node -> [Publisher -> 0..CacheTTL \cup {None}]]
    BY <1>4 DEF Tick
  <2> QED
    BY <1>1, <2>1, <2>2, <2>3 DEF IInv, TypeOK, modVars, histVars
<1>6. RoundInv'
  BY <1>1, <1>2 DEF RoundInv
<1>7. AnswerInv'
  <2> SUFFICES ASSUME NEW n \in Node
               PROVE  AnswerAt(n)'
    BY DEF AnswerInv
  <2>1. AnswerAt(n) /\ phaseAge[n] \in Nat /\ answer[n] \in Publisher \cup {None}
    BY DurationsNat DEF IInv, TypeOK, AnswerInv
  <2>2. ASSUME NEW i \in Publisher, NEW age \in Nat, pubAge[i] # None, pubAge[i] <= age
        PROVE  pubAge'[i] # None /\ pubAge'[i] <= age + 1
    <3>1. pubAge[i] \in 0..MaxPubAge /\ pubAge'[i] \in 0..MaxPubAge
      BY <1>3, <2>2 DEF IInv, TypeOK
    <3> QED
      BY <1>3, <2>2, <3>1, DurationsNat
  <2>3. KeyTTL + phaseAge[n] \in Nat /\ KeyTTL + (phaseAge[n] + 1) = (KeyTTL + phaseAge[n]) + 1
    BY <2>1, DurationsNat
  <2>4. CASE loop[n] = "publish" /\ answer[n] # None
    BY <1>1, <1>2, <2>1, <2>2, <2>4 DEF AnswerAt
  <2>5. CASE loop[n] = "scan" /\ answer[n] # None
    BY <1>1, <1>2, <2>1, <2>2, <2>3, <2>5 DEF AnswerAt
  <2> QED
    BY <1>1, <2>1, <2>4, <2>5 DEF AnswerAt
<1>8. Fresh'
  <2> SUFFICES ASSUME NEW n \in Node, NEW i \in Publisher, cacheAge'[n][i] # None
               PROVE  pubAge'[i] # None /\ pubAge'[i] <= cacheAge'[n][i] + KeyTTL + CmdTimeout
    BY DEF Fresh, Found
  <2>1. cacheAge[n][i] # None /\ cacheAge'[n][i] = cacheAge[n][i] + 1
    BY <1>4
  <2>2. pubAge[i] # None /\ pubAge[i] <= cacheAge[n][i] + KeyTTL + CmdTimeout
    BY <2>1 DEF IInv, Fresh, Found
  <2>3. pubAge'[i] # None /\ pubAge'[i] <= pubAge[i] + 1
    BY <2>2, <1>3
  <2>4. cacheAge[n][i] \in 0..CacheTTL /\ pubAge[i] \in 0..MaxPubAge
    BY <2>1, <2>2 DEF IInv, TypeOK
  <2>5. pubAge'[i] \in 0..MaxPubAge
    BY <2>3, <1>3
  <2> QED
    BY <2>1, <2>2, <2>3, <2>4, <2>5, DurationsNat
<1> QED
  BY <1>5, <1>6, <1>7, <1>8 DEF IInv

\* Every step keeps the invariant.
LEMMA StepInv == IInv /\ [Next]_vars => IInv'
<1> SUFFICES ASSUME IInv, [Next]_vars PROVE IInv'
  OBVIOUS
<1>1. ASSUME NEW n \in Node, Loop(n) PROVE IInv'
  BY <1>1, SelectInv, PublishInv, ScanInv, GetInv DEF Loop
<1>2. ASSUME NEW n \in Node, Arm(n) \/ StartFails(n) \/ Launch(n) \/ Server(n) PROVE IInv'
  BY <1>2, StartInv, ServerInv
<1>3. ASSUME NEW n \in Node, Register(n) \/ Cancel(n) \/ BeginStop(n) \/ StopStep(n) PROVE IInv'
  BY <1>3, RegisterInv, DropInv DEF StopStep
<1>4. CASE Tick
  BY <1>4, TickInv
<1>5. CASE UNCHANGED vars
  <2> USE <1>5 DEF vars, loopVars, modVars, cacheVars, histVars
  <2>1. TypeOK'
    BY DEF IInv, TypeOK
  <2>2. RoundInv' /\ AnswerInv' /\ Fresh'
    BY DEF IInv, RoundInv, AnswerInv, AnswerAt, Fresh, Found
  <2> QED
    BY <2>1, <2>2 DEF IInv
<1> QED
  BY <1>1, <1>2, <1>3, <1>4, <1>5 DEF Next

\* The invariant holds throughout.
THEOREM Invariant == Spec => []IInv
  BY InitInv, StepInv, PTL DEF Spec

\* Type correctness: in particular no command outlives the deadline of its phase,
\* and a round is over before its ticker fires (redis.go:144).
THEOREM TypeCorrect == Spec => []TypeOK
<1>1. IInv => TypeOK
  BY DEF IInv
<1> QED
  BY <1>1, Invariant, PTL

\* For any number of nodes and all durations: what Find returns was announced no
\* longer than the two times to live and a command's time ago, as the answer of a
\* GET is stored when it arrives (redis.go:75, :178, :209, :224).
THEOREM FreshWhenFound == Spec => []Fresh
<1>1. IInv => Fresh
  BY DEF IInv
<1> QED
  BY <1>1, Invariant, PTL

-----------------------------------------------------------------------------
(* Once found, a service stays found *)

\* What redis.go:75 and :178 choose the two times to live for: three periods and
\* a command's deadline, two periods and two of them.
LongEnough ==
  /\ KeyTTL >= 3 * Period + CmdTimeout
  /\ CacheTTL >= 2 * Period + 2 * CmdTimeout

\* How much of the ticker's period has gone.
Elapsed(n) == Period - toTick[n]

\* k periods, for the few that a time to live has to bridge.
Rounds(k) ==
  IF k = 0 THEN 0 ELSE IF k = 1 THEN Period ELSE IF k = 2 THEN 2 * Period ELSE 3 * Period

\* The key of a running publisher is as old as the publishes it missed allow.
KeyAt(i) ==
  /\ pubAge[i] # None => loop[i] # "off"
  /\ Running(i) /\ pubAge[i] # None =>
       /\ i \in registered
       /\ pubMiss[i] < 3 =>
            pubAge[i] <= Rounds(IF loop[i] = "publish" THEN pubMiss[i] + 1 ELSE pubMiss[i])
                           + Elapsed(i)

KeyInv == \A i \in Publisher : KeyAt(i)

\* So it exists until three of them are missed.
KeysLive ==
  \A i \in Publisher : Running(i) /\ pubAge[i] # None /\ pubMiss[i] < 3 => Exists(i)

\* n's refresh has not stored i yet.
Due(n, i) == missed[n] \/ i \in unscanned[n] \cup toGet[n]

\* n's entry for i is as old as the refreshes n missed allow, until the present
\* one stores it again.
StoredAt(n, i) ==
  /\ cacheAge[n][i] # None
  /\ loop[n] = "select" =>
       refMiss[n] \in {0, 1} /\ cacheAge[n][i] <= Rounds(refMiss[n]) + Elapsed(n)
  /\ loop[n] = "publish" =>
       refMiss[n] \in {0, 1} /\ cacheAge[n][i] <= Rounds(refMiss[n] + 1) + Elapsed(n)
  /\ loop[n] = "scan" =>
       \/ cacheAge[n][i] <= Elapsed(n)
       \/ /\ Due(n, i)
          /\ refMiss[n] \in {0, 1} /\ cacheAge[n][i] <= Rounds(refMiss[n] + 1) + Elapsed(n)

SeenAt(n, i) ==
  i \in seen[n] =>
    /\ n \in Watcher /\ loop[n] # "off" /\ Kept(n) /\ Kept(i)
    /\ pubMiss[i] < 3 /\ pubAge[i] # None
    /\ Running(n) /\ Running(i) => StoredAt(n, i)

SeenInv ==
  /\ \A n \in Node : n \notin Watcher => unscanned[n] = {} /\ toGet[n] = {}
  /\ \A n \in Node, i \in Publisher : SeenAt(n, i)

LEMMA RoundsFacts ==
  /\ Rounds(0) = 0 /\ Rounds(1) = Period /\ Rounds(2) = 2 * Period /\ Rounds(3) = 3 * Period
  /\ \A k \in 0..3 : Rounds(k) \in Nat /\ Rounds(k) <= 3 * Period
  /\ \A k \in 0..2 : Rounds(k + 1) = Rounds(k) + Period
<1>1. Rounds(0) = 0 /\ Rounds(1) = Period /\ Rounds(2) = 2 * Period /\ Rounds(3) = 3 * Period
  BY DEF Rounds
<1>2. \A k \in 0..3 : k = 0 \/ k = 1 \/ k = 2 \/ k = 3
  OBVIOUS
<1>. HIDE DEF Rounds
<1>. QED  BY <1>1, <1>2, DurationsNat

LEMMA TypeFacts ==
  ASSUME IInv
  PROVE  /\ \A n \in Node : /\ toTick[n] \in 0..Period /\ phaseAge[n] \in 0..CmdTimeout
                            /\ Elapsed(n) \in 0..Period
                            /\ refMiss[n] \in 0..1
                            /\ loop[n] = "publish" => Elapsed(n) = phaseAge[n]
                            /\ loop[n] = "scan" => Elapsed(n) <= CmdTimeout + phaseAge[n]
         /\ \A i \in Publisher : /\ i \in Node /\ pubMiss[i] \in 0..3
                                 /\ pubAge[i] # None => pubAge[i] \in Nat
         /\ \A n \in Node, i \in Publisher : cacheAge[n][i] # None => cacheAge[n][i] \in 0..CacheTTL
<1>. USE DEF IInv
<1>1. ASSUME NEW n \in Node
      PROVE  /\ toTick[n] \in 0..Period /\ phaseAge[n] \in 0..CmdTimeout
             /\ Elapsed(n) \in 0..Period
             /\ refMiss[n] \in 0..1
             /\ loop[n] = "publish" => Elapsed(n) = phaseAge[n]
             /\ loop[n] = "scan" => Elapsed(n) <= CmdTimeout + phaseAge[n]
  <2>1. toTick[n] \in 0..Period /\ phaseAge[n] \in 0..CmdTimeout /\ refMiss[n] \in 0..1
    BY DEF TypeOK
  <2>. QED  BY <2>1, DurationsNat DEF Elapsed, RoundInv
<1>2. ASSUME NEW i \in Publisher
      PROVE  /\ i \in Node /\ pubMiss[i] \in 0..3
             /\ pubAge[i] # None => pubAge[i] \in Nat
  <2>1. pubAge[i] \in 0..MaxPubAge \cup {None}
    BY DEF TypeOK
  <2>. QED  BY <2>1, PublisherAssumption, DurationsNat DEF TypeOK
<1>3. ASSUME NEW n \in Node, NEW i \in Publisher, cacheAge[n][i] # None
      PROVE  cacheAge[n][i] \in 0..CacheTTL
  <2>1. cacheAge[n][i] \in 0..CacheTTL \cup {None}
    BY DEF TypeOK
  <2>. QED  BY <2>1, <1>3
<1>. QED  BY <1>1, <1>2, <1>3

LEMMA KeyLives == IInv /\ LongEnough /\ KeyInv => KeysLive
<1>. SUFFICES ASSUME IInv, LongEnough, KeyInv, NEW i \in Publisher,
                     Running(i), pubAge[i] # None, pubMiss[i] < 3
              PROVE  Exists(i)
  BY DEF KeysLive
<1>1. /\ i \in Node /\ pubMiss[i] \in 0..2 /\ pubAge[i] \in Nat
      /\ Elapsed(i) \in 0..Period
      /\ loop[i] = "publish" => Elapsed(i) <= CmdTimeout
  BY TypeFacts, DurationsNat
<1>2. pubAge[i] <= Rounds(IF loop[i] = "publish" THEN pubMiss[i] + 1 ELSE pubMiss[i]) + Elapsed(i)
  BY DEF KeyInv, KeyAt
<1>3. CASE loop[i] = "publish"
  <2>1. Rounds(pubMiss[i] + 1) \in Nat /\ Rounds(pubMiss[i] + 1) <= 3 * Period
    BY <1>1, RoundsFacts
  <2>. QED  BY <2>1, <1>1, <1>2, <1>3, DurationsNat DEF LongEnough, Exists
<1>4. CASE loop[i] # "publish"
  <2>1. Rounds(pubMiss[i]) \in Nat /\ Rounds(pubMiss[i]) + Period = Rounds(pubMiss[i] + 1)
        /\ Rounds(pubMiss[i] + 1) <= 3 * Period
    BY <1>1, RoundsFacts
  <2>. QED  BY <2>1, <1>1, <1>2, <1>4, DurationsNat DEF LongEnough, Exists
<1>. QED  BY <1>3, <1>4

\* Steps that leave i's loop and key alone.
LEMMA KeyFrame ==
  ASSUME NEW i \in Publisher, KeyAt(i),
         Running(i)' => Running(i),
         loop'[i] = loop[i], toTick'[i] = toTick[i],
         pubAge'[i] = pubAge[i], pubMiss'[i] = pubMiss[i], i \in registered => i \in registered'
  PROVE  KeyAt(i)'
BY DEF KeyAt, Elapsed

\* Steps that leave n's loop and its entry for i alone.
LEMMA SeenFrame ==
  ASSUME NEW n \in Node, NEW i \in Publisher, SeenAt(n, i),
         i \in seen'[n] => i \in seen[n] /\ Kept(n)' /\ Kept(i)' /\ pubMiss'[i] < 3,
         Running(n)' => Running(n), Running(i)' => Running(i),
         loop'[n] = loop[n], toTick'[n] = toTick[n],
         cacheAge'[n][i] = cacheAge[n][i], refMiss'[n] = refMiss[n],
         Due(n, i) => Due(n, i)',
         pubAge[i] # None => pubAge'[i] # None
  PROVE  SeenAt(n, i)'
<1>1. StoredAt(n, i) => StoredAt(n, i)'
  BY DEF StoredAt, Elapsed
<1>. QED  BY <1>1 DEF SeenAt

\* Start and Register: nothing is seen of or by a node whose loop is off.
LEMMA StartSeen ==
  ASSUME IInv, KeyInv, SeenInv, NEW m \in Node,
         Arm(m) \/ StartFails(m) \/ Launch(m) \/ Register(m)
  PROVE  KeyInv' /\ SeenInv'
<1>. USE DEF IInv
<1>1. /\ UNCHANGED <<unscanned, toGet, missed, pubAge, cacheAge, pubMiss, refMiss, seen, ctxDone, stop>>
      /\ \A n \in Node : n # m => loop'[n] = loop[n] /\ toTick'[n] = toTick[n]
      /\ \A n \in Node : n \in registered => n \in registered'
  BY DEF Arm, StartFails, Launch, Register, cacheVars, histVars, loopVars, TypeOK
<1>2. loop[m] = "off" \/ (loop'[m] = loop[m] /\ toTick'[m] = toTick[m])
  BY DEF Arm, StartFails, Launch, Register, loopVars, TypeOK
<1>3. \A n \in Node : Kept(n)' <=> Kept(n)
  BY <1>1 DEF Kept
<1>4. \A n \in Node : n # m \/ loop[m] # "off" => (Running(n)' => Running(n))
  BY <1>1, <1>2, <1>3 DEF Running
<1>5. ASSUME NEW i \in Publisher
      PROVE  KeyAt(i)'
  <2>1. i \in Node /\ KeyAt(i)
    BY TypeFacts DEF KeyInv
  <2>2. CASE i = m /\ loop[m] = "off"
    BY <2>1, <2>2, <1>1 DEF KeyAt
  <2>3. CASE ~(i = m /\ loop[m] = "off")
    BY <2>1, <2>3, <1>1, <1>2, <1>4, KeyFrame
  <2>. QED  BY <2>2, <2>3
<1>6. ASSUME NEW n \in Node, NEW i \in Publisher
      PROVE  SeenAt(n, i)'
  <2>0. i \in Node /\ SeenAt(n, i) /\ KeyAt(i)
    BY TypeFacts DEF SeenInv, KeyInv
  <2>1. CASE (n = m \/ i = m) /\ loop[m] = "off"
    <3>1. i \notin seen[n]
      BY <2>0, <2>1 DEF KeyAt, SeenAt
    <3>. QED  BY <3>1, <1>1 DEF SeenAt
  <2>2. CASE ~((n = m \/ i = m) /\ loop[m] = "off")
    <3>1. /\ Running(n)' => Running(n)
          /\ Running(i)' => Running(i)
          /\ loop'[n] = loop[n] /\ toTick'[n] = toTick[n]
      BY <2>0, <2>2, <1>1, <1>2, <1>4
    <3>2. Due(n, i) => Due(n, i)'
      BY <1>1 DEF Due
    <3>3. i \in seen'[n] => i \in seen[n] /\ Kept(n)' /\ Kept(i)' /\ pubMiss'[i] < 3
      BY <2>0, <1>1, <1>3 DEF SeenAt
    <3>. QED  BY <2>0, <3>1, <3>2, <3>3, <1>1, SeenFrame
  <2>. QED  BY <2>1, <2>2
<1>. QED  BY <1>1, <1>5, <1>6 DEF KeyInv, SeenInv

\* The end of a node's context, its Stop, and what its loop does after them
\* concern no node that is kept.
LEMMA EndSeen ==
  ASSUME IInv, KeyInv, SeenInv, NEW m \in Node,
         Cancel(m) \/ BeginStop(m) \/ Wait(m) \/ Drop(m) \/ Leave(m) \/ Panic(m)
  PROVE  KeyInv' /\ SeenInv'
<1>. USE DEF IInv
<1>1. /\ UNCHANGED pubAge
      /\ \A n \in Node : n # m => /\ loop'[n] = loop[n] /\ toTick'[n] = toTick[n]
                                  /\ ctxDone'[n] = ctxDone[n] /\ stop'[n] = stop[n]
                                  /\ refMiss'[n] = refMiss[n]
                                  /\ cacheAge'[n] = cacheAge[n]
                                  /\ (n \in registered') = (n \in registered)
                                  /\ unscanned'[n] = unscanned[n] /\ toGet'[n] = toGet[n]
                                  /\ missed'[n] = missed[n]
      /\ \A n \in Node : seen'[n] \subseteq seen[n]
      /\ \A i \in Publisher : i # m => pubMiss'[i] = pubMiss[i]
      /\ loop'[m] = "off" => loop[m] = "off"
      /\ unscanned'[m] \in {unscanned[m], {}} /\ toGet'[m] \in {toGet[m], {}}
  <2>1. CASE Cancel(m) \/ BeginStop(m)
    <3>1. UNCHANGED <<loopVars, registered, cacheVars>> /\ Forget(m)
      BY <2>1 DEF Cancel, BeginStop
    <3>2. \A n \in Node : n # m => ctxDone'[n] = ctxDone[n] /\ stop'[n] = stop[n]
      BY <2>1 DEF Cancel, BeginStop, TypeOK
    <3>3. /\ \A n \in Node : seen'[n] \subseteq seen[n] /\ (n # m => refMiss'[n] = refMiss[n])
          /\ \A i \in Publisher : i # m => pubMiss'[i] = pubMiss[i]
      BY <3>1 DEF Forget, TypeOK
    <3>. QED  BY <3>1, <3>2, <3>3 DEF loopVars, cacheVars
  <2>2. CASE Wait(m) \/ Drop(m)
    BY <2>2 DEF Wait, Drop, loopVars, cacheVars, histVars, TypeOK
  <2>3. CASE Leave(m) \/ Panic(m)
    BY <2>3 DEF Leave, Panic, modVars, cacheVars, histVars, TypeOK
  <2>. QED  BY <2>1, <2>2, <2>3
<1>2. ~Kept(m)'
  BY DEF Cancel, BeginStop, Wait, Drop, Leave, Panic, Dropped, modVars, Kept, TypeOK
<1>3. \A n \in Node, i \in Publisher : i \in seen'[n] => n # m /\ i # m
  <2>1. CASE Cancel(m) \/ BeginStop(m)
    BY <2>1 DEF Cancel, BeginStop, Forget
  <2>2. CASE Wait(m) \/ Drop(m) \/ Leave(m) \/ Panic(m)
    <3>1. ~Kept(m)
      BY <2>2 DEF Wait, Drop, Leave, Panic, Dropped, Kept
    <3>. QED  BY <3>1, <1>1 DEF SeenInv, SeenAt
  <2>. QED  BY <2>1, <2>2
<1>4. \A n \in Node : n # m => (Kept(n)' <=> Kept(n)) /\ (Running(n)' => Running(n))
  BY <1>1 DEF Kept, Running
<1>5. ASSUME NEW i \in Publisher
      PROVE  KeyAt(i)'
  <2>1. i \in Node /\ KeyAt(i)
    BY TypeFacts DEF KeyInv
  <2>2. CASE i = m
    BY <2>1, <2>2, <1>1, <1>2 DEF KeyAt, Running
  <2>3. CASE i # m
    BY <2>1, <2>3, <1>1, <1>4, KeyFrame
  <2>. QED  BY <2>2, <2>3
<1>6. ASSUME NEW n \in Node, NEW i \in Publisher
      PROVE  SeenAt(n, i)'
  <2>0. i \in Node /\ SeenAt(n, i)
    BY TypeFacts DEF SeenInv
  <2>1. CASE n = m \/ i = m
    BY <2>1, <1>3 DEF SeenAt
  <2>2. CASE n # m /\ i # m
    <3>1. Due(n, i) => Due(n, i)'
      BY <2>2, <1>1 DEF Due
    <3>2. i \in seen'[n] => i \in seen[n] /\ Kept(n)' /\ Kept(i)' /\ pubMiss'[i] < 3
      BY <2>0, <2>2, <1>1, <1>4 DEF SeenAt
    <3>. QED  BY <2>0, <2>2, <3>1, <3>2, <1>1, <1>4, SeenFrame
  <2>. QED  BY <2>1, <2>2
<1>7. \A n \in Node : n \notin Watcher => unscanned'[n] = {} /\ toGet'[n] = {}
  BY <1>1 DEF SeenInv
<1>. QED  BY <1>5, <1>6, <1>7 DEF KeyInv, SeenInv

\* The loop begins a round.
LEMMA RoundSeen ==
  ASSUME IInv, KeyInv, SeenInv, NEW m \in Node, BeginRound(m)
  PROVE  KeyInv' /\ SeenInv'
<1>. USE DEF IInv
<1>1. /\ UNCHANGED <<unscanned, toGet, missed, modVars, cacheVars, histVars>>
      /\ loop[m] = "select" /\ loop' = [loop EXCEPT ![m] = "publish"]
      /\ toTick[m] = 0 /\ toTick' = [toTick EXCEPT ![m] = Period]
      /\ loop \in [Node -> {"off", "publish", "scan", "select", "gone", "crashed"}]
      /\ toTick \in [Node -> 0..Period]
  BY DEF BeginRound, TypeOK
<1>2. \A n \in Node : (Kept(n)' <=> Kept(n)) /\ (Running(n)' <=> Running(n))
  BY <1>1 DEF Kept, Running, modVars
<1>3. Elapsed(m) = Period /\ Elapsed(m)' = 0
  BY <1>1, DurationsNat DEF Elapsed
<1>4. ASSUME NEW i \in Publisher
      PROVE  KeyAt(i)'
  <2>0. i \in Node /\ KeyAt(i) /\ pubMiss[i] \in 0..3
    BY TypeFacts DEF KeyInv
  <2>1. CASE i # m
    BY <2>0, <2>1, <1>1, <1>2, KeyFrame DEF modVars, cacheVars, histVars
  <2>2. CASE i = m
    <3>1. pubMiss[i] < 3 => Rounds(pubMiss[i] + 1) = Rounds(pubMiss[i]) + Period
                            /\ Rounds(pubMiss[i] + 1) \in Nat
      BY <2>0, RoundsFacts
    <3>. QED  BY <2>0, <2>2, <3>1, <1>1, <1>2, <1>3, DurationsNat
              DEF KeyAt, modVars, cacheVars, histVars
  <2>. QED  BY <2>1, <2>2
<1>5. ASSUME NEW n \in Node, NEW i \in Publisher
      PROVE  SeenAt(n, i)'
  <2>0. i \in Node /\ SeenAt(n, i) /\ refMiss[n] \in 0..1
    BY TypeFacts DEF SeenInv
  <2>1. CASE n # m
    <3>1. Due(n, i) => Due(n, i)'
      BY <1>1 DEF Due
    <3>2. i \in seen'[n] => i \in seen[n] /\ Kept(n)' /\ Kept(i)' /\ pubMiss'[i] < 3
      BY <2>0, <1>1, <1>2 DEF SeenAt, histVars
    <3>. QED  BY <2>0, <2>1, <3>1, <3>2, <1>1, <1>2, SeenFrame DEF cacheVars, histVars
  <2>2. CASE n = m
    <3>1. refMiss[n] \in {0, 1} => Rounds(refMiss[n] + 1) = Rounds(refMiss[n]) + Period
                                   /\ Rounds(refMiss[n] + 1) \in Nat
      BY <2>0, RoundsFacts
    <3>2. StoredAt(n, i) => StoredAt(n, i)'
      BY <2>2, <3>1, <1>1, <1>3, DurationsNat DEF StoredAt, cacheVars, histVars
    <3>. QED  BY <2>0, <2>2, <3>2, <1>1, <1>2 DEF SeenAt, cacheVars, histVars
  <2>. QED  BY <2>1, <2>2
<1>6. \A n \in Node : n \notin Watcher => unscanned'[n] = {} /\ toGet'[n] = {}
  BY <1>1 DEF SeenInv
<1>. QED  BY <1>4, <1>5, <1>6 DEF KeyInv, SeenInv

\* What the server does: a SET makes the key as young as can be.
LEMMA ServerSeen ==
  ASSUME IInv, KeyInv, SeenInv, NEW m \in Node, Server(m)
  PROVE  KeyInv' /\ SeenInv'
<1>. USE DEF IInv
<1>1. /\ UNCHANGED <<loop, toTick, unscanned, toGet, missed, modVars, cacheAge, histVars>>
      /\ \/ pubAge' = pubAge
         \/ pubAge' = [pubAge EXCEPT ![m] = 0] /\ loop[m] = "publish" /\ m \in registered
      /\ pubAge \in [Publisher -> 0..MaxPubAge \cup {None}]
  BY DEF Server, ServeSet, ServeGet, cacheVars, TypeOK
<1>2. \A n \in Node : (Kept(n)' <=> Kept(n)) /\ (Running(n)' <=> Running(n))
  BY <1>1 DEF Kept, Running, modVars
<1>3. ASSUME NEW i \in Publisher
      PROVE  KeyAt(i)'
  <2>0. i \in Node /\ KeyAt(i) /\ pubMiss[i] \in 0..3 /\ Elapsed(i) \in 0..Period
    BY TypeFacts DEF KeyInv
  <2>1. CASE pubAge'[i] = pubAge[i]
    BY <2>0, <2>1, <1>1, <1>2, KeyFrame DEF modVars, histVars
  <2>2. CASE pubAge'[i] # pubAge[i]
    <3>1. pubAge'[i] = 0 /\ i = m /\ loop[i] = "publish" /\ i \in registered
      BY <2>2, <1>1
    <3>2. pubMiss[i] < 3 => Rounds(pubMiss[i] + 1) \in Nat
      BY <2>0, RoundsFacts
    <3>3. Elapsed(i)' = Elapsed(i) /\ pubMiss' = pubMiss /\ registered' = registered /\ loop' = loop
      BY <1>1 DEF Elapsed, modVars, histVars
    <3>. QED  BY <2>0, <3>1, <3>2, <3>3, DurationsNat DEF KeyAt
  <2>. QED  BY <2>1, <2>2
<1>4. ASSUME NEW n \in Node, NEW i \in Publisher
      PROVE  SeenAt(n, i)'
  <2>0. i \in Node /\ SeenAt(n, i)
    BY TypeFacts DEF SeenInv
  <2>1. Due(n, i) => Due(n, i)'
    BY <1>1 DEF Due
  <2>2. i \in seen'[n] => i \in seen[n] /\ Kept(n)' /\ Kept(i)' /\ pubMiss'[i] < 3
    BY <2>0, <1>1, <1>2 DEF SeenAt, histVars
  <2>3. pubAge[i] # None => pubAge'[i] # None
    BY <1>1, NoneAssumption
  <2>. QED  BY <2>0, <2>1, <2>2, <2>3, <1>1, <1>2, SeenFrame DEF histVars
<1>5. \A n \in Node : n \notin Watcher => unscanned'[n] = {} /\ toGet'[n] = {}
  BY <1>1 DEF SeenInv
<1>. QED  BY <1>3, <1>4, <1>5 DEF KeyInv, SeenInv

\* publishAll: the answer of a SET ends a row of missed publishes, a failure
\* prolongs it, and the refresh that follows begins with the keys that exist.
LEMMA PublishKey ==
  ASSUME IInv, KeyInv, NEW m \in Node, PublishNothing(m) \/ Publish(m) \/ PublishFails(m)
  PROVE  KeyInv'
<1>. USE DEF IInv
<1>1. /\ loop[m] = "publish" /\ UNCHANGED <<toTick, modVars, pubAge>>
      /\ loop'[m] \in {"scan", "select"}
      /\ \A n \in Node : n # m => loop'[n] = loop[n]
  BY DEF PublishNothing, Publish, PublishFails, BeginScan, TypeOK, cacheVars
<1>2. \/ pubMiss' = pubMiss /\ m \notin registered
      \/ pubMiss' = [pubMiss EXCEPT ![m] = 0] /\ answer[m] = m
      \/ pubMiss' = [pubMiss EXCEPT ![m] = IF Kept(m) /\ @ < 3 THEN @ + 1 ELSE @]
  BY DEF PublishNothing, Publish, PublishFails, histVars
<1>3. \A n \in Node : Running(n)' => Running(n)
  BY <1>1 DEF Running, Kept, modVars
<1>. SUFFICES ASSUME NEW i \in Publisher
              PROVE  KeyAt(i)'
  BY DEF KeyInv
<1>4. /\ i \in Node /\ KeyAt(i) /\ pubMiss[i] \in 0..3 /\ Elapsed(i) \in 0..Period
      /\ Elapsed(i)' = Elapsed(i)
      /\ pubMiss \in [Publisher -> 0..3]
  BY <1>1, TypeFacts DEF KeyInv, Elapsed, TypeOK
<1>5. CASE i # m
  <2>1. pubMiss'[i] = pubMiss[i] /\ loop'[i] = loop[i]
    BY <1>1, <1>2, <1>4, <1>5
  <2>. QED  BY <2>1, <1>1, <1>3, <1>4, KeyFrame DEF modVars
<1>6. CASE i = m
  <2>1. loop'[i] \in {"scan", "select"} /\ loop[i] = "publish"
        /\ registered' = registered /\ pubAge'[i] = pubAge[i]
    BY <1>1, <1>4, <1>6 DEF modVars
  <2>2. CASE i \notin registered
    BY <2>1, <2>2, <1>3, <1>4, <1>6 DEF KeyAt
  <2>3. CASE pubMiss' = [pubMiss EXCEPT ![m] = 0] /\ answer[m] = m
    <3>1. pubMiss'[i] = 0
      BY <2>3, <1>4, <1>6
    <3>2. pubAge[i] <= Elapsed(i) /\ Elapsed(i) = phaseAge[i]
      BY <2>1, <2>3, <1>4, <1>6, NoneAssumption, TypeFacts DEF AnswerInv, AnswerAt
    <3>3. Rounds(0) = 0
      BY RoundsFacts
    <3>. QED  BY <2>1, <2>3, <3>1, <3>2, <3>3, <1>3, <1>4, <1>6 DEF KeyAt
  <2>4. CASE pubMiss' = [pubMiss EXCEPT ![m] = IF Kept(m) /\ @ < 3 THEN @ + 1 ELSE @]
    <3>1. pubMiss'[i] = IF Kept(m) /\ pubMiss[i] < 3 THEN pubMiss[i] + 1 ELSE pubMiss[i]
      BY <2>4, <1>4, <1>6
    <3>2. Running(i) /\ pubMiss'[i] < 3 => pubMiss[i] < 3 /\ pubMiss'[i] = pubMiss[i] + 1
      BY <3>1, <1>4, <1>6 DEF Running
    <3>. QED  BY <2>1, <2>4, <3>2, <1>3, <1>4, <1>6 DEF KeyAt
  <2>. QED  BY <2>2, <2>3, <2>4, <1>2, <1>6
<1>. QED  BY <1>5, <1>6

LEMMA PublishSeen ==
  ASSUME IInv, LongEnough, KeyInv, SeenInv, NEW m \in Node,
         PublishNothing(m) \/ Publish(m) \/ PublishFails(m)
  PROVE  KeyInv' /\ SeenInv'
<1>. USE DEF IInv
<1>0. KeyInv' /\ KeysLive
  BY PublishKey, KeyLives
<1>1. /\ loop[m] = "publish"
      /\ loop' = [loop EXCEPT ![m] = IF m \in Watcher /\ ~Dropped(m) THEN "scan" ELSE "select"]
      /\ UNCHANGED <<toTick, modVars, cacheVars, refMiss>>
      /\ unscanned' = [unscanned EXCEPT ![m] = IF m \in Watcher /\ ~Dropped(m) THEN Keys ELSE {}]
      /\ toGet' = [toGet EXCEPT ![m] = {}]
      /\ missed' = [missed EXCEPT ![m] = FALSE]
      /\ loop \in [Node -> {"off", "publish", "scan", "select", "gone", "crashed"}]
      /\ unscanned \in [Node -> SUBSET Publisher]
      /\ toGet \in [Node -> SUBSET Publisher]
      /\ missed \in [Node -> BOOLEAN]
  BY DEF PublishNothing, Publish, PublishFails, BeginScan, TypeOK, histVars
<1>2. \A n \in Node : seen'[n] \subseteq seen[n]
  BY DEF PublishNothing, Publish, PublishFails, histVars, TypeOK
<1>3. \A i \in Publisher, n \in Node : i \in seen'[n] => pubMiss'[i] < 3
  <2>. SUFFICES ASSUME NEW i \in Publisher, NEW n \in Node, i \in seen'[n]
                PROVE  pubMiss'[i] < 3
    OBVIOUS
  <2>1. pubMiss[i] < 3 /\ pubMiss \in [Publisher -> 0..3] /\ i \in seen[n]
    BY <1>2 DEF SeenInv, SeenAt, TypeOK
  <2>2. CASE PublishNothing(m) \/ Publish(m)
    BY <2>1, <2>2 DEF PublishNothing, Publish, histVars
  <2>3. CASE PublishFails(m)
    <3>1. /\ pubMiss' = [pubMiss EXCEPT ![m] = IF Kept(m) /\ @ < 3 THEN @ + 1 ELSE @]
          /\ seen' = IF pubMiss'[m] = 3 THEN [x \in Node |-> seen[x] \ {m}] ELSE seen
      BY <2>3 DEF PublishFails
    <3>2. CASE i = m
      <4>1. pubMiss'[i] # 3
        BY <3>1, <3>2
      <4>2. pubMiss'[i] \in 0..3
        BY <2>1, <3>1
      <4>. QED  BY <4>1, <4>2
    <3>3. CASE i # m
      BY <2>1, <3>1, <3>3
    <3>. QED  BY <3>2, <3>3
  <2>. QED  BY <2>2, <2>3
<1>4. \A n \in Node : (Kept(n)' <=> Kept(n)) /\ (Running(n)' => Running(n))
  BY <1>1 DEF Running, Kept, modVars
<1>5. ASSUME NEW n \in Node, NEW i \in Publisher
      PROVE  SeenAt(n, i)'
  <2>0. /\ i \in Node /\ SeenAt(n, i)
    BY TypeFacts DEF SeenInv
  <2>1. CASE n # m
    <3>1. Due(n, i) => Due(n, i)'
      BY <2>1, <1>1 DEF Due
    <3>2. loop'[n] = loop[n]
      BY <2>1, <1>1
    <3>3. i \in seen'[n] => i \in seen[n] /\ Kept(n)' /\ Kept(i)' /\ pubMiss'[i] < 3
      BY <2>0, <1>2, <1>3, <1>4 DEF SeenAt
    <3>. QED  BY <2>0, <3>1, <3>2, <3>3, <1>1, <1>4, SeenFrame DEF cacheVars
  <2>2. CASE n = m
    <3>. SUFFICES ASSUME i \in seen'[n]
                  PROVE  /\ n \in Watcher /\ loop'[n] # "off" /\ Kept(n)' /\ Kept(i)'
                         /\ pubMiss'[i] < 3 /\ pubAge'[i] # None
                         /\ Running(n)' /\ Running(i)' => StoredAt(n, i)'
      BY DEF SeenAt
    <3>1. /\ n \in Watcher /\ pubMiss'[i] < 3 /\ pubMiss[i] < 3 /\ pubAge[i] # None
          /\ Kept(n) /\ Kept(i)
          /\ Running(n) /\ Running(i) => StoredAt(n, i)
      BY <2>0, <1>2, <1>3 DEF SeenAt
    <3>2. loop'[n] = "scan" /\ unscanned'[n] = Keys /\ pubAge' = pubAge /\ cacheAge' = cacheAge
      BY <2>2, <3>1, <1>1 DEF Kept, Dropped, cacheVars
    <3>3. ASSUME Running(n)', Running(i)'
          PROVE  StoredAt(n, i)'
      <4>1. Exists(i)
        BY <2>0, <3>1, <3>3, <1>0, <1>4 DEF KeysLive
      <4>2. Due(n, i)'
        BY <3>2, <4>1 DEF Keys, Due
      <4>3. /\ cacheAge[n][i] # None /\ refMiss[n] \in {0, 1}
            /\ cacheAge[n][i] <= Rounds(refMiss[n] + 1) + Elapsed(n)
        BY <2>0, <2>2, <3>1, <3>3, <1>1, <1>4 DEF StoredAt
      <4>4. Elapsed(n)' = Elapsed(n)
        BY <1>1 DEF Elapsed
      <4>. QED  BY <3>2, <4>2, <4>3, <4>4, <1>1 DEF StoredAt
    <3>. QED  BY <2>0, <3>1, <3>2, <3>3, <1>4
  <2>. QED  BY <2>1, <2>2
<1>6. \A n \in Node : n \notin Watcher => unscanned'[n] = {} /\ toGet'[n] = {}
  BY <1>1 DEF SeenInv
<1>. QED  BY <1>0, <1>5, <1>6 DEF SeenInv

\* SCAN hands a page over to GET.
LEMMA ScanSeen ==
  ASSUME IInv, KeyInv, SeenInv, NEW m \in Node, ScanPage(m)
  PROVE  KeyInv' /\ SeenInv'
<1>. USE DEF IInv
<1>1. PICK page \in SUBSET (unscanned[m] \cap Keys) :
        /\ toGet' = [toGet EXCEPT ![m] = page]
        /\ unscanned' = [unscanned EXCEPT ![m] = @ \ page]
  BY DEF ScanPage
<1>2. /\ UNCHANGED <<loop, toTick, missed, modVars, cacheVars, histVars>>
      /\ toGet[m] = {}
      /\ unscanned \in [Node -> SUBSET Publisher]
      /\ toGet \in [Node -> SUBSET Publisher]
  BY DEF ScanPage, TypeOK
<1>3. \A n \in Node, i \in Publisher :
        i \in unscanned[n] \cup toGet[n] => i \in unscanned'[n] \cup toGet'[n]
  BY <1>1, <1>2
<1>4. \A n \in Node : (Kept(n)' <=> Kept(n)) /\ (Running(n)' <=> Running(n))
  BY <1>2 DEF Running, Kept, modVars
<1>5. ASSUME NEW i \in Publisher
      PROVE  KeyAt(i)'
  BY <1>2, <1>4, TypeFacts, KeyFrame DEF KeyInv, modVars, cacheVars, histVars
<1>6. ASSUME NEW n \in Node, NEW i \in Publisher
      PROVE  SeenAt(n, i)'
  <2>1. i \in Node /\ SeenAt(n, i)
    BY TypeFacts DEF SeenInv
  <2>2. Due(n, i) => Due(n, i)'
    BY <1>2, <1>3 DEF Due
  <2>3. i \in seen'[n] => i \in seen[n] /\ Kept(n)' /\ Kept(i)' /\ pubMiss'[i] < 3
    BY <2>1, <1>2, <1>4 DEF SeenAt, histVars
  <2>. QED  BY <2>1, <2>2, <2>3, <1>2, <1>4, SeenFrame DEF cacheVars, histVars
<1>7. \A n \in Node : n \notin Watcher => unscanned'[n] = {} /\ toGet'[n] = {}
  BY <1>1, <1>2 DEF SeenInv
<1>. QED  BY <1>5, <1>6, <1>7 DEF KeyInv, SeenInv

\* A refresh without a failure has stored every key that still exists; one with
\* a failure is a missed one more.
LEMMA RefreshSeen ==
  ASSUME IInv, LongEnough, KeyInv, SeenInv, NEW m \in Node, ScanFails(m) \/ ScanDone(m)
  PROVE  KeyInv' /\ SeenInv'
<1>. USE DEF IInv
<1>0. KeysLive
  BY KeyLives
<1>1. PICK failed \in BOOLEAN :
        /\ EndRefresh(m, failed)
        /\ ~failed => ~missed[m] /\ toGet[m] = {} /\ unscanned[m] \cap Keys = {}
  BY DEF ScanFails, ScanDone, TypeOK
<1>2. /\ loop[m] = "scan" /\ loop' = [loop EXCEPT ![m] = "select"]
      /\ refMiss' = [refMiss EXCEPT ![m] = IF failed /\ seen[m] # {} /\ @ = 0 THEN 1 ELSE 0]
      /\ seen' = [seen EXCEPT ![m] = IF failed /\ refMiss[m] = 1 THEN {} ELSE @]
      /\ unscanned' = [unscanned EXCEPT ![m] = {}]
      /\ missed' = [missed EXCEPT ![m] = FALSE]
      /\ UNCHANGED <<toTick, toGet, modVars, cacheVars, pubMiss>>
      /\ loop \in [Node -> {"off", "publish", "scan", "select", "gone", "crashed"}]
      /\ refMiss \in [Node -> 0..1]
      /\ seen \in [Node -> SUBSET Publisher]
      /\ unscanned \in [Node -> SUBSET Publisher]
      /\ missed \in [Node -> BOOLEAN]
  BY <1>1 DEF EndRefresh, ScanFails, ScanDone, TypeOK
<1>3. /\ \A n \in Node : (Kept(n)' <=> Kept(n)) /\ (Running(n)' <=> Running(n))
      /\ \A n \in Node : Elapsed(n)' = Elapsed(n)
      /\ \A n \in Node : n # m => /\ loop'[n] = loop[n] /\ refMiss'[n] = refMiss[n]
                                  /\ unscanned'[n] = unscanned[n] /\ missed'[n] = missed[n]
      /\ \A n \in Node : seen'[n] \subseteq seen[n]
  BY <1>2 DEF Running, Kept, Elapsed, modVars
<1>4. ASSUME NEW i \in Publisher
      PROVE  KeyAt(i)'
  <2>0. i \in Node /\ KeyAt(i)
    BY TypeFacts DEF KeyInv
  <2>1. CASE i # m
    BY <2>0, <2>1, <1>2, <1>3, KeyFrame DEF modVars, cacheVars
  <2>2. CASE i = m
    <3>1. loop'[i] = "select" /\ loop[i] = "scan" /\ UNCHANGED <<pubAge, pubMiss, registered>>
      BY <2>0, <2>2, <1>2 DEF modVars, cacheVars
    <3>. QED  BY <2>0, <3>1, <1>3 DEF KeyAt
  <2>. QED  BY <2>1, <2>2
<1>5. ASSUME NEW n \in Node, NEW i \in Publisher
      PROVE  SeenAt(n, i)'
  <2>0. i \in Node /\ SeenAt(n, i) /\ UNCHANGED <<cacheAge, pubAge, pubMiss>>
    BY <1>2, TypeFacts DEF SeenInv, cacheVars
  <2>1. CASE n # m
    <3>1. Due(n, i) => Due(n, i)'
      BY <2>1, <1>2, <1>3 DEF Due
    <3>2. i \in seen'[n] => i \in seen[n] /\ Kept(n)' /\ Kept(i)' /\ pubMiss'[i] < 3
      BY <2>0, <1>3 DEF SeenAt
    <3>. QED  BY <2>0, <2>1, <3>1, <3>2, <1>2, <1>3, SeenFrame
  <2>2. CASE n = m
    <3>1. i \in seen'[n] => /\ i \in seen[n] /\ loop'[n] = "select" /\ loop[n] = "scan"
                            /\ n \in Watcher /\ Kept(n) /\ Kept(i)
                            /\ pubMiss[i] < 3 /\ pubAge[i] # None
                            /\ seen[n] # {} /\ (failed => refMiss[n] # 1)
      BY <2>0, <2>2, <1>2 DEF SeenAt
    <3>2. ASSUME i \in seen'[n], Running(n), Running(i)
          PROVE  StoredAt(n, i)'
      <4>1. StoredAt(n, i) /\ cacheAge[n][i] # None
        BY <2>0, <3>1, <3>2 DEF SeenAt, StoredAt
      <4>2. /\ cacheAge[n][i] \in Nat /\ Elapsed(n) \in Nat /\ refMiss[n] \in 0..1
            /\ Elapsed(n)' = Elapsed(n)
        BY <4>1, <1>3, TypeFacts, DurationsNat
      <4>3. CASE ~failed
        <5>1. refMiss'[n] = 0
          BY <2>2, <4>3, <1>2
        <5>2. i \in Keys
          BY <3>1, <3>2, <1>0 DEF KeysLive, Keys
        <5>3. ~Due(n, i)
          BY <2>2, <4>3, <5>2, <1>1 DEF Due
        <5>4. cacheAge[n][i] <= Elapsed(n)
          BY <3>1, <3>2, <4>1, <5>3 DEF StoredAt
        <5>. QED  BY <2>0, <3>1, <3>2, <4>1, <4>2, <5>1, <5>4, RoundsFacts DEF StoredAt
      <4>4. CASE failed
        <5>1. refMiss[n] = 0
          BY <3>1, <3>2, <4>2, <4>4
        <5>2. refMiss[n] = 0 /\ refMiss'[n] = 1
          BY <2>2, <3>1, <3>2, <4>4, <5>1, <1>2
        <5>3. cacheAge[n][i] <= Period + Elapsed(n)
          BY <3>1, <3>2, <4>1, <4>2, <5>2, RoundsFacts, DurationsNat DEF StoredAt
        <5>. QED  BY <2>0, <3>1, <3>2, <4>1, <4>2, <5>2, <5>3, RoundsFacts DEF StoredAt
      <4>. QED  BY <4>3, <4>4
    <3>. QED  BY <2>0, <3>1, <3>2, <1>3 DEF SeenAt
  <2>. QED  BY <2>1, <2>2
<1>6. \A n \in Node : n \notin Watcher => unscanned'[n] = {} /\ toGet'[n] = {}
  BY <1>2 DEF SeenInv
<1>. QED  BY <1>4, <1>5, <1>6 DEF KeyInv, SeenInv

\* GET stores a key, or fails for it; a key of a running publisher is there to
\* be got as long as three publishes in a row were not missed.
LEMMA GetSeen ==
  ASSUME IInv, LongEnough, KeyInv, SeenInv, NEW m \in Node, NEW j \in Publisher,
         Get(m, j) \/ GetNil(m, j) \/ GetFails(m, j)
  PROVE  KeyInv' /\ SeenInv'
<1>. USE DEF IInv
<1>0. KeysLive
  BY KeyLives
<1>1. /\ loop[m] = "scan" /\ j \in toGet[m] /\ toGet' = [toGet EXCEPT ![m] = @ \ {j}]
      /\ UNCHANGED <<loop, toTick, unscanned, modVars, pubAge, pubMiss, refMiss>>
      /\ toGet \in [Node -> SUBSET Publisher]
      /\ missed \in [Node -> BOOLEAN]
      /\ cacheAge \in [Node -> [Publisher -> 0..CacheTTL \cup {None}]]
      /\ seen \in [Node -> SUBSET Publisher]
  BY DEF Get, GetNil, GetFails, TypeOK, cacheVars, histVars
<1>2. \/ missed' = missed /\ ~Exists(j) /\ UNCHANGED <<cacheAge, seen>>
      \/ /\ missed' = missed /\ answer[m] = j
         /\ cacheAge' = [cacheAge EXCEPT ![m][j] = 0]
         /\ seen' = [seen EXCEPT ![m] = IF Kept(m) /\ Kept(j) /\ pubMiss[j] < 3
                                          THEN @ \cup {j} ELSE @]
      \/ missed' = [missed EXCEPT ![m] = TRUE] /\ UNCHANGED <<cacheAge, seen>>
  BY DEF Get, GetNil, GetFails, Store, cacheVars, histVars
<1>3. /\ \A n \in Node : (Kept(n)' <=> Kept(n)) /\ (Running(n)' <=> Running(n))
      /\ \A n \in Node : Elapsed(n)' = Elapsed(n)
  BY <1>1 DEF Running, Kept, Elapsed, modVars
<1>4. KeyInv'
  <2>. SUFFICES ASSUME NEW i \in Publisher
                PROVE  KeyAt(i)'
    BY DEF KeyInv
  <2>. QED  BY <1>1, <1>3, TypeFacts, KeyFrame DEF KeyInv, modVars
\* the other nodes, and the other entries of this one
<1>5. ASSUME NEW n \in Node, NEW i \in Publisher, ~(n = m /\ i = j)
      PROVE  SeenAt(n, i)'
  <2>1. i \in Node /\ SeenAt(n, i)
    BY TypeFacts DEF SeenInv
  <2>2. cacheAge'[n][i] = cacheAge[n][i] /\ (i \in seen'[n] => i \in seen[n])
    BY <1>1, <1>2, <1>5
  <2>3. Due(n, i) => Due(n, i)'
    BY <1>1, <1>2, <1>5 DEF Due
  <2>4. i \in seen'[n] => i \in seen[n] /\ Kept(n)' /\ Kept(i)' /\ pubMiss'[i] < 3
    BY <2>1, <2>2, <1>1, <1>3 DEF SeenAt
  <2>. QED  BY <2>1, <2>2, <2>3, <2>4, <1>1, <1>3, SeenFrame
<1>6. SeenAt(m, j)'
  <2>1. j \in Node /\ SeenAt(m, j) /\ m \in Watcher
    BY <1>1, TypeFacts DEF SeenInv
  <2>2. CASE missed' = [missed EXCEPT ![m] = TRUE] /\ UNCHANGED <<cacheAge, seen>>
    <3>1. Due(m, j)'
      BY <2>2, <1>1 DEF Due
    <3>2. j \in seen'[m] => j \in seen[m] /\ Kept(m)' /\ Kept(j)' /\ pubMiss'[j] < 3
      BY <2>1, <2>2, <1>1, <1>3 DEF SeenAt
    <3>. QED  BY <2>1, <2>2, <3>1, <3>2, <1>1, <1>3, SeenFrame
  <2>3. CASE ~Exists(j) /\ UNCHANGED <<cacheAge, seen>>
    <3>1. j \in seen[m] => ~Running(j)
      BY <2>1, <2>3, <1>0 DEF KeysLive, SeenAt
    <3>. QED  BY <2>1, <2>3, <3>1, <1>1, <1>3 DEF SeenAt
  <2>4. CASE /\ answer[m] = j
             /\ cacheAge' = [cacheAge EXCEPT ![m][j] = 0]
             /\ seen' = [seen EXCEPT ![m] = IF Kept(m) /\ Kept(j) /\ pubMiss[j] < 3
                                              THEN @ \cup {j} ELSE @]
    <3>1. cacheAge'[m][j] = 0 /\ pubAge[j] # None
      <4>1. cacheAge[m] \in [Publisher -> 0..CacheTTL \cup {None}]
        BY DEF TypeOK
      <4>2. cacheAge'[m] = [cacheAge[m] EXCEPT ![j] = 0]
        BY <2>4 DEF TypeOK
      <4>3. pubAge[j] # None
        BY <2>4, <1>1, NoneAssumption DEF AnswerInv, AnswerAt
      <4>. QED  BY <4>1, <4>2, <4>3
    <3>2. j \in seen'[m] => pubMiss[j] < 3 /\ Kept(m)' /\ Kept(j)'
      BY <2>1, <2>4, <1>1, <1>3 DEF SeenAt
    <3>3. Elapsed(m)' >= 0
      BY <1>3, TypeFacts, DurationsNat
    <3>4. StoredAt(m, j)'
      BY <3>1, <3>3, <1>1, NoneAssumption DEF StoredAt
    <3>. QED  BY <2>1, <3>1, <3>2, <3>4, <1>1 DEF SeenAt
  <2>. QED  BY <2>2, <2>3, <2>4, <1>2
<1>7. \A n \in Node : n \notin Watcher => unscanned'[n] = {} /\ toGet'[n] = {}
  BY <1>1 DEF SeenInv
<1>. QED  BY <1>4, <1>5, <1>6, <1>7 DEF SeenInv

\* Time: an entry does not reach its time to live before the refresh that
\* follows a failed one is over.
LEMMA TickSeen ==
  ASSUME IInv, LongEnough, KeyInv, SeenInv, Tick
  PROVE  KeyInv' /\ SeenInv'
<1>. USE DEF IInv
<1>1. /\ UNCHANGED <<loop, unscanned, toGet, missed, modVars, histVars>>
      /\ \A n \in Node : (Kept(n)' <=> Kept(n)) /\ (Running(n)' <=> Running(n))
  BY DEF Tick, Running, Kept, modVars
<1>2. ASSUME NEW n \in Node, Running(n)
      PROVE  /\ Elapsed(n)' = Elapsed(n) + 1 /\ Elapsed(n) \in Nat
             /\ loop[n] = "publish" => Elapsed(n) + 1 <= CmdTimeout
             /\ loop[n] = "scan" => Elapsed(n) + 1 <= 2 * CmdTimeout
             /\ Elapsed(n) + 1 <= Period
  <2>1. /\ toTick[n] \in 0..Period /\ phaseAge[n] \in 0..CmdTimeout
        /\ Elapsed(n) \in 0..Period
        /\ loop[n] = "publish" => Elapsed(n) = phaseAge[n]
        /\ loop[n] = "scan" => Elapsed(n) <= CmdTimeout + phaseAge[n]
    BY TypeFacts
  <2>2. toTick'[n] = toTick[n] - 1 /\ ~Dropped(n)
    BY <1>2 DEF Tick, Ticking, Running, Kept, Dropped
  <2>3. Elapsed(n)' = Elapsed(n) + 1
    BY <2>1, <2>2, DurationsNat DEF Elapsed
  <2>4. /\ loop[n] \in {"publish", "scan"} => phaseAge[n] < CmdTimeout
        /\ loop[n] = "select" => toTick[n] > 0
    BY <2>2 DEF Tick, MayWait
  <2>5. CASE loop[n] \in {"publish", "scan"}
    BY <2>1, <2>3, <2>4, <2>5, TimesAssumption
  <2>6. CASE loop[n] = "select"
    BY <2>1, <2>3, <2>4, <2>6, DurationsNat DEF Elapsed
  <2>. QED  BY <2>5, <2>6, <1>2 DEF Running
<1>3. ASSUME NEW i \in Publisher
      PROVE  /\ pubAge[i] # None <=> pubAge'[i] # None
             /\ pubAge[i] # None => pubAge[i] \in Nat /\ pubAge'[i] \in Nat
                                    /\ pubAge'[i] <= pubAge[i] + 1
  <2>1. pubAge[i] \in 0..MaxPubAge \cup {None}
    BY DEF TypeOK
  <2>2. pubAge'[i] = Older(pubAge[i], MaxPubAge)
    BY DEF Tick
  <2>. QED  BY <2>1, <2>2, DurationsNat, NoneAssumption DEF Older
<1>4. ASSUME NEW i \in Publisher
      PROVE  KeyAt(i)'
  <2>0. i \in Node /\ KeyAt(i) /\ pubMiss[i] \in 0..3 /\ UNCHANGED <<registered, pubMiss>>
    BY <1>1, TypeFacts DEF KeyInv, modVars, histVars
  <2>1. CASE Running(i) /\ pubAge[i] # None /\ pubMiss[i] < 3
    <3>. DEFINE k == IF loop[i] = "publish" THEN pubMiss[i] + 1 ELSE pubMiss[i]
    <3>1. i \in registered /\ pubAge[i] <= Rounds(k) + Elapsed(i)
      BY <2>0, <2>1 DEF KeyAt
    <3>2. Rounds(k) \in Nat
      BY <2>0, <2>1, RoundsFacts
    <3>3. k' = k
      BY <1>1, <2>0
    <3>. HIDE DEF k
    <3>4. pubAge'[i] <= Rounds(k) + Elapsed(i)'
      BY <2>0, <2>1, <3>1, <3>2, <1>2, <1>3
    <3>5. pubAge'[i] <= Rounds(IF loop'[i] = "publish" THEN pubMiss'[i] + 1 ELSE pubMiss'[i])
                         + Elapsed(i)'
      BY <3>4, <1>1, <2>0 DEF k
    <3>6. loop'[i] # "off" /\ i \in registered'
      BY <2>0, <2>1, <3>1, <1>1 DEF Running
    <3>. QED  BY <3>5, <3>6 DEF KeyAt
  <2>2. CASE ~(Running(i) /\ pubAge[i] # None /\ pubMiss[i] < 3)
    BY <2>0, <2>2, <1>1, <1>3 DEF KeyAt
  <2>. QED  BY <2>1, <2>2
<1>5. ASSUME NEW n \in Node, NEW i \in Publisher, Running(n), StoredAt(n, i)
      PROVE  StoredAt(n, i)'
  <2>0. /\ cacheAge[n][i] # None /\ cacheAge[n][i] \in Nat /\ refMiss[n] \in 0..1
        /\ UNCHANGED <<loop, refMiss>>
    BY <1>1, <1>5, TypeFacts, DurationsNat DEF StoredAt, histVars
  <2>1. Due(n, i)' <=> Due(n, i)
    BY <1>1 DEF Due
  <2>2. /\ refMiss[n] \in {0, 1} =>
             /\ Rounds(refMiss[n]) \in Nat /\ Rounds(refMiss[n]) <= Period
             /\ Rounds(refMiss[n] + 1) \in Nat /\ Rounds(refMiss[n] + 1) <= 2 * Period
    BY RoundsFacts, DurationsNat
  <2>3. cacheAge[n][i] + 1 <= CacheTTL
    <3>1. CASE loop[n] = "select"
      <4>1. refMiss[n] \in {0, 1} /\ cacheAge[n][i] <= Rounds(refMiss[n]) + Elapsed(n)
        BY <1>5, <3>1 DEF StoredAt
      <4>. QED  BY <2>0, <2>2, <4>1, <1>2, <1>5, DurationsNat DEF LongEnough
    <3>2. CASE loop[n] = "publish"
      <4>1. refMiss[n] \in {0, 1} /\ cacheAge[n][i] <= Rounds(refMiss[n] + 1) + Elapsed(n)
        BY <1>5, <3>2 DEF StoredAt
      <4>. QED  BY <2>0, <2>2, <3>2, <4>1, <1>2, <1>5, DurationsNat DEF LongEnough
    <3>3. CASE loop[n] = "scan"
      <4>1. \/ cacheAge[n][i] <= Elapsed(n)
            \/ refMiss[n] \in {0, 1} /\ cacheAge[n][i] <= Rounds(refMiss[n] + 1) + Elapsed(n)
        BY <1>5, <3>3 DEF StoredAt
      <4>. QED  BY <2>0, <2>2, <3>3, <4>1, <1>2, <1>5, DurationsNat DEF LongEnough
    <3>. QED  BY <3>1, <3>2, <3>3, <1>5 DEF Running
  <2>4. cacheAge'[n][i] = cacheAge[n][i] + 1 /\ cacheAge'[n][i] # None
    <3>1. cacheAge'[n][i] = Aged(cacheAge[n][i])
      BY DEF Tick
    <3>. QED  BY <2>0, <2>3, <3>1, DurationsNat, NoneAssumption DEF Aged, IsExpired
  <2>5. Elapsed(n)' = Elapsed(n) + 1 /\ Elapsed(n) \in Nat
    BY <1>2, <1>5
  <2>6. loop[n] = "select" =>
          refMiss[n] \in {0, 1} /\ cacheAge'[n][i] <= Rounds(refMiss[n]) + Elapsed(n)'
    BY <2>0, <2>2, <2>4, <2>5, <1>5 DEF StoredAt
  <2>7. loop[n] = "publish" =>
          refMiss[n] \in {0, 1} /\ cacheAge'[n][i] <= Rounds(refMiss[n] + 1) + Elapsed(n)'
    BY <2>0, <2>2, <2>4, <2>5, <1>5 DEF StoredAt
  <2>8. loop[n] = "scan" =>
          \/ cacheAge'[n][i] <= Elapsed(n)'
          \/ /\ Due(n, i)
             /\ refMiss[n] \in {0, 1} /\ cacheAge'[n][i] <= Rounds(refMiss[n] + 1) + Elapsed(n)'
    BY <2>0, <2>2, <2>4, <2>5, <1>5 DEF StoredAt
  <2>. QED  BY <2>0, <2>1, <2>4, <2>6, <2>7, <2>8 DEF StoredAt
<1>6. ASSUME NEW n \in Node, NEW i \in Publisher
      PROVE  SeenAt(n, i)'
  <2>1. i \in Node /\ SeenAt(n, i) /\ UNCHANGED <<loop, pubMiss, seen>>
    BY <1>1, TypeFacts DEF SeenInv, histVars
  <2>. QED  BY <2>1, <1>1, <1>3, <1>5 DEF SeenAt
<1>7. \A n \in Node : n \notin Watcher => unscanned'[n] = {} /\ toGet'[n] = {}
  BY <1>1 DEF SeenInv
<1>. QED  BY <1>4, <1>6, <1>7 DEF KeyInv, SeenInv

LEMMA SeenStep ==
  ASSUME IInv, LongEnough, KeyInv, SeenInv, [Next]_vars
  PROVE  KeyInv' /\ SeenInv'
<1>1. ASSUME NEW n \in Node, Loop(n)
      PROVE  KeyInv' /\ SeenInv'
  BY <1>1, RoundSeen, EndSeen, PublishSeen, ScanSeen, RefreshSeen, GetSeen DEF Loop
<1>2. ASSUME NEW n \in Node,
             \/ Arm(n) \/ StartFails(n) \/ Launch(n)
             \/ Register(n) \/ Cancel(n) \/ BeginStop(n) \/ StopStep(n) \/ Server(n)
      PROVE  KeyInv' /\ SeenInv'
  BY <1>2, StartSeen, EndSeen, ServerSeen DEF StopStep
<1>3. CASE Tick
  BY <1>3, TickSeen
<1>4. CASE UNCHANGED vars
  <2>. USE <1>4 DEF vars, loopVars, modVars, cacheVars, histVars
  <2>1. KeyInv'
    BY DEF KeyInv, KeyAt, Running, Kept, Elapsed
  <2>2. SeenInv'
    BY DEF SeenInv, SeenAt, StoredAt, Due, Running, Kept, Elapsed
  <2>. QED  BY <2>1, <2>2
<1>. QED  BY <1>1, <1>2, <1>3, <1>4 DEF Next

\* With the two times to live that the code has, or longer ones, a service that
\* was found stays found as long as both loops run, no three publishes in a row
\* fail and no two refreshes in a row do (redis.go:75, :178): on any number of
\* nodes, and whatever the period and the deadline of a command.
THEOREM FoundStaysFound ==
  ASSUME LongEnough
  PROVE  Spec => []StaysFound
<1>1. Init => KeyInv /\ SeenInv
  BY DEF Init, KeyInv, KeyAt, SeenInv, SeenAt, Running
<1>2. IInv /\ KeyInv /\ SeenInv /\ [Next]_vars => KeyInv' /\ SeenInv'
  BY SeenStep
<1>3. SeenInv => StaysFound
  BY PublisherAssumption DEF SeenInv, SeenAt, StoredAt, StaysFound, Found
<1>. QED  BY <1>1, <1>2, <1>3, Invariant, PTL DEF Spec

-----------------------------------------------------------------------------
(* How long Stop waits *)

\* The time that a loop whose context is done may take to return: what is left
\* of its phase, and of the phases that follow.
TimeLeft(n) ==
  CASE loop[n] = "publish" -> 2 * CmdTimeout - phaseAge[n]
    [] loop[n] = "scan" -> CmdTimeout - phaseAge[n]
    [] loop[n] = "select" /\ toTick[n] = 0 -> 2 * CmdTimeout
    [] OTHER -> 0

\* The phases it has left, as the ticker cannot fire a second time.
PhasesLeft(n) ==
  CASE loop[n] = "select" /\ toTick[n] = 0 -> 4
    [] loop[n] = "publish" -> 3
    [] loop[n] = "scan" -> 2
    [] loop[n] = "select" /\ toTick[n] # 0 -> 1
    [] OTHER -> 0

Cancelled(n) == ctxDone[n] /\ loop[n] # "off"
Ended(n) == loop[n] \in {"gone", "crashed"}

\* Once runCtx is done it stays done; each step of the loop leaves it fewer
\* phases, or keys to read in this one, and each unit of time less time.
WindsDown(n) ==
  /\ Cancelled(n)'
  /\ TimeLeft(n)' <= TimeLeft(n)
  /\ Tick => Ended(n) \/ TimeLeft(n)' < TimeLeft(n)
  /\ Loop(n) => \/ PhasesLeft(n)' < PhasesLeft(n)
                \/ /\ UNCHANGED PhasesLeft(n)
                   /\ toGet'[n] \subseteq toGet[n] /\ toGet'[n] # toGet[n]
  /\ ~Loop(n) => UNCHANGED <<loop[n], PhasesLeft(n), toGet[n]>>

LEMMA TimeLeftType ==
  ASSUME IInv, NEW n \in Node
  PROVE  TimeLeft(n) \in 0..(2 * CmdTimeout)
<1>1. phaseAge[n] \in 0..CmdTimeout
  BY DEF IInv, TypeOK
<1>. QED  BY <1>1, DurationsNat DEF TimeLeft

LEMMA TimeLeftNext ==
  ASSUME IInv', NEW n \in Node
  PROVE  TimeLeft(n)' \in 0..(2 * CmdTimeout)
<1>1. phaseAge'[n] \in 0..CmdTimeout
  BY DEF IInv, TypeOK
<1>. QED  BY <1>1, DurationsNat DEF TimeLeft

\* A loop whose context is done gets no more pages from redis, and leaves its
\* select at the latest after one more round.
LEMMA LoopWindsDown ==
  ASSUME IInv, NEW n \in Node, Cancelled(n), Loop(n)
  PROVE  /\ Cancelled(n)'
         /\ TimeLeft(n)' <= TimeLeft(n)
         /\ \/ PhasesLeft(n)' < PhasesLeft(n)
            \/ /\ UNCHANGED PhasesLeft(n)
               /\ toGet'[n] \subseteq toGet[n] /\ toGet'[n] # toGet[n]
<1>1. /\ loop \in [Node -> {"off", "publish", "scan", "select", "gone", "crashed"}]
      /\ phaseAge \in [Node -> 0..CmdTimeout] /\ toTick \in [Node -> 0..Period]
      /\ toGet \in [Node -> SUBSET Publisher]
      /\ phaseAge[n] \in 0..CmdTimeout /\ toTick[n] \in 0..Period
  BY DEF IInv, TypeOK
<1>2. UNCHANGED ctxDone
  BY DEF Loop, BeginRound, Leave, PublishNothing, Publish, PublishFails, BeginScan, ScanPage, Get,
     GetNil, GetFails, ScanFails, ScanDone, EndRefresh, Panic, modVars
<1>3. CASE BeginRound(n)
  <2>1. /\ loop[n] = "select" /\ toTick[n] = 0
        /\ loop'[n] = "publish" /\ phaseAge'[n] = 0
    BY <1>1, <1>3 DEF BeginRound
  <2>. QED  BY <1>2, <2>1, DurationsNat DEF Cancelled, TimeLeft, PhasesLeft
<1>4. CASE Leave(n)
  <2>1. loop[n] = "select" /\ loop'[n] = "gone"
    BY <1>1, <1>4 DEF Leave
  <2>. QED  BY <1>2, <2>1, DurationsNat DEF Cancelled, TimeLeft, PhasesLeft
<1>5. CASE PublishNothing(n) \/ Publish(n) \/ PublishFails(n)
  <2>1. /\ loop[n] = "publish"
        /\ loop'[n] \in {"scan", "select"} /\ phaseAge'[n] = 0 /\ toTick' = toTick
    BY <1>1, <1>5 DEF PublishNothing, Publish, PublishFails, BeginScan
  <2>2. toTick'[n] # 0
    BY <1>1, <2>1, TimesAssumption DEF IInv, RoundInv
  <2>3. CASE loop'[n] = "scan"
    BY <1>1, <1>2, <2>1, <2>3, DurationsNat DEF Cancelled, TimeLeft, PhasesLeft
  <2>4. CASE loop'[n] = "select"
    BY <1>1, <1>2, <2>1, <2>2, <2>4, DurationsNat DEF Cancelled, TimeLeft, PhasesLeft
  <2>. QED  BY <2>1, <2>3, <2>4
<1>6. CASE ScanFails(n) \/ ScanDone(n)
  <2>1. /\ loop[n] = "scan"
        /\ loop'[n] = "select" /\ toTick' = toTick
    BY <1>1, <1>6 DEF ScanFails, ScanDone, EndRefresh
  <2>2. toTick'[n] # 0
    BY <1>1, <2>1, TimesAssumption DEF IInv, RoundInv
  <2>. QED  BY <1>1, <1>2, <2>1, <2>2, DurationsNat DEF Cancelled, TimeLeft, PhasesLeft
<1>7. ASSUME NEW i \in Publisher, Get(n, i) \/ GetFails(n, i)
      PROVE  /\ Cancelled(n)'
             /\ TimeLeft(n)' <= TimeLeft(n)
             /\ UNCHANGED PhasesLeft(n)
             /\ toGet'[n] \subseteq toGet[n] /\ toGet'[n] # toGet[n]
  <2>1. /\ loop[n] = "scan" /\ loop' = loop /\ phaseAge' = phaseAge
        /\ i \in toGet[n] /\ toGet'[n] = toGet[n] \ {i}
    BY <1>1, <1>7 DEF Get, GetFails
  <2>. QED  BY <1>1, <1>2, <2>1, DurationsNat DEF Cancelled, TimeLeft, PhasesLeft
<1>8. CASE Panic(n)
  <2>1. loop[n] \in {"publish", "scan"} /\ loop'[n] = "crashed"
    BY <1>1, <1>8 DEF Panic
  <2>. QED  BY <1>1, <1>2, <2>1, DurationsNat DEF Cancelled, TimeLeft, PhasesLeft
<1>9. ~ScanPage(n) /\ \A i \in Publisher : ~GetNil(n, i)
  BY DEF Cancelled, ScanPage, GetNil
<1>. QED  BY <1>3, <1>4, <1>5, <1>6, <1>7, <1>8, <1>9 DEF Loop

\* What other nodes, the modules' callers and a Stop do leaves the loop alone.
LEMMA OthersWindDown ==
  ASSUME IInv, NEW n \in Node, Cancelled(n), Next, ~Loop(n), ~Tick
  PROVE  Cancelled(n)' /\ UNCHANGED <<loop[n], phaseAge[n], toTick[n], toGet[n]>>
<1>1. /\ loop \in [Node -> {"off", "publish", "scan", "select", "gone", "crashed"}]
      /\ phaseAge \in [Node -> 0..CmdTimeout] /\ toTick \in [Node -> 0..Period]
      /\ toGet \in [Node -> SUBSET Publisher]
      /\ ctxDone \in [Node -> BOOLEAN]
      /\ start[n] = "ok"
  BY DEF IInv, TypeOK, Cancelled
<1>2. ASSUME NEW m \in Node, m # n, Loop(m)
      PROVE  UNCHANGED <<ctxDone[n], loop[n], phaseAge[n], toTick[n], toGet[n]>>
  BY <1>1, <1>2 DEF Loop, BeginRound, Leave, PublishNothing, Publish, PublishFails, BeginScan,
     ScanPage, Get, GetNil, GetFails, ScanFails, ScanDone, EndRefresh, Panic, modVars
<1>3. ASSUME NEW m \in Node, Launch(m)
      PROVE  UNCHANGED <<ctxDone[n], loop[n], phaseAge[n], toTick[n], toGet[n]>>
  <2>1. m # n
    BY <1>1, <1>3 DEF Launch
  <2>. QED  BY <1>1, <1>3, <2>1 DEF Launch
<1>4. ASSUME NEW m \in Node,
             Arm(m) \/ StartFails(m) \/ Register(m) \/ Cancel(m) \/ BeginStop(m) \/ StopStep(m)
      PROVE  UNCHANGED <<loop, phaseAge, toTick, toGet>> /\ ctxDone'[n]
  BY <1>1, <1>4 DEF Arm, StartFails, Register, Cancel, BeginStop, StopStep, Wait, Drop, loopVars,
     Cancelled
<1>5. ASSUME NEW m \in Node, Server(m)
      PROVE  UNCHANGED <<loop, phaseAge, toTick, toGet>> /\ ctxDone'[n]
  BY <1>1, <1>5 DEF Server, ServeSet, ServeGet, modVars, Cancelled
<1>. QED  BY <1>1, <1>2, <1>3, <1>4, <1>5 DEF Next, Cancelled

LEMMA TickWindsDown ==
  ASSUME IInv, NEW n \in Node, Cancelled(n), Tick
  PROVE  /\ Cancelled(n)' /\ UNCHANGED <<loop[n], PhasesLeft(n), toGet[n]>>
         /\ TimeLeft(n)' <= TimeLeft(n)
         /\ Ended(n) \/ TimeLeft(n)' < TimeLeft(n)
<1>1. /\ loop[n] \in {"publish", "scan", "gone", "crashed"}
      /\ loop[n] \in {"publish", "scan"} =>
           phaseAge[n] \in 0..CmdTimeout /\ phaseAge'[n] = phaseAge[n] + 1
      /\ UNCHANGED <<loop, toGet, ctxDone>>
  BY DEF IInv, TypeOK, Tick, MayWait, Cancelled, modVars
<1>. QED  BY <1>1, DurationsNat DEF Cancelled, Ended, TimeLeft, PhasesLeft

\* The step in full.
LEMMA WindsDownStep ==
  ASSUME IInv, NEW n \in Node, Cancelled(n), Next
  PROVE  WindsDown(n)
<1>1. CASE Tick
  BY <1>1, TickWindsDown, LoopWindsDown DEF WindsDown
<1>2. CASE ~Tick /\ Loop(n)
  BY <1>2, LoopWindsDown DEF WindsDown
<1>3. CASE ~Tick /\ ~Loop(n)
  <2>1. Cancelled(n)' /\ UNCHANGED <<loop[n], phaseAge[n], toTick[n], toGet[n]>>
    BY <1>3, OthersWindDown
  <2>2. UNCHANGED <<TimeLeft(n), PhasesLeft(n)>>
    BY <2>1 DEF TimeLeft, PhasesLeft
  <2>3. TimeLeft(n) <= TimeLeft(n)
    BY TimeLeftType, DurationsNat
  <2>. QED  BY <1>3, <2>1, <2>2, <2>3 DEF WindsDown
<1>. QED  BY <1>1, <1>2, <1>3

\* After a Stop, or once the context that Start was given is done, the loop is on
\* its way out: whatever redis answers, it returns after a bounded number of
\* steps and of units of time, of which none is taken back (redis.go:104, :145).
THEOREM CancelledLoopEnds == Spec => [][\A n \in Node : Cancelled(n) => WindsDown(n)]_vars
<1>1. IInv /\ [Next]_vars => [\A n \in Node : Cancelled(n) => WindsDown(n)]_vars
  BY WindsDownStep
<1>. QED  BY <1>1, Invariant, PTL DEF Spec

\* A Stop that waits for a loop whose context is done.  (One that has come before
\* Start made cancel waits for as long as the context of Start lasts.)
Waiting(n) == stop[n] = "wait" /\ Cancelled(n)

\* waited[n]: how long a Stop of n has been waiting so.
VARIABLE waited

WaitedInit == Init /\ waited = [n \in Node |-> 0]

WaitedNext ==
  /\ Next
  /\ waited' = [n \in Node |->
                  CASE ~Waiting(n) -> 0
                    [] Waiting(n) /\ Tick /\ ~Ended(n) -> waited[n] + 1
                    [] OTHER -> waited[n]]

WaitedSpec == WaitedInit /\ [][WaitedNext]_<<vars, waited>>

\* What a Stop has waited and what it may still have to wait are together no more
\* than the deadlines of a publish and of a refresh.
WaitedInv ==
  /\ waited \in [Node -> 0..(2 * CmdTimeout)]
  /\ \A n \in Node : Waiting(n) => waited[n] + TimeLeft(n) <= 2 * CmdTimeout

LEMMA WaitedStep ==
  ASSUME IInv, WaitedInv, WaitedNext
  PROVE  WaitedInv'
<1>1. IInv'
  BY StepInv DEF WaitedNext
<1>2. Next
  BY DEF WaitedNext
<1>3. ASSUME NEW n \in Node
      PROVE  /\ waited'[n] \in 0..(2 * CmdTimeout)
             /\ waited'[n] + TimeLeft(n)' <= 2 * CmdTimeout
  <2>1. /\ TimeLeft(n) \in 0..(2 * CmdTimeout) /\ TimeLeft(n)' \in 0..(2 * CmdTimeout)
        /\ waited[n] \in 0..(2 * CmdTimeout)
    BY <1>1, TimeLeftType, TimeLeftNext DEF WaitedInv
  <2>2. CASE ~Waiting(n)
    <3>1. waited'[n] = 0
      BY <2>2 DEF WaitedNext
    <3>. QED  BY <2>1, <3>1, DurationsNat
  <2>3. CASE Waiting(n)
    <3>1. Cancelled(n) /\ waited[n] + TimeLeft(n) <= 2 * CmdTimeout
      BY <2>3 DEF WaitedInv, Waiting
    <3>2. WindsDown(n)
      BY <1>2, <3>1, WindsDownStep
    <3>3. /\ TimeLeft(n)' <= TimeLeft(n)
          /\ Tick => Ended(n) \/ TimeLeft(n)' < TimeLeft(n)
      BY <3>2 DEF WindsDown
    <3>4. CASE Tick /\ ~Ended(n)
      <4>1. waited'[n] = waited[n] + 1
        BY <2>3, <3>4 DEF WaitedNext
      <4>. QED  BY <2>1, <3>1, <3>3, <3>4, <4>1, DurationsNat
    <3>5. CASE ~(Tick /\ ~Ended(n))
      <4>1. waited'[n] = waited[n]
        BY <2>3, <3>5 DEF WaitedNext
      <4>. QED  BY <2>1, <3>1, <3>3, <4>1, DurationsNat
    <3>. QED  BY <3>4, <3>5
  <2>. QED  BY <2>2, <2>3
<1>. QED  BY <1>3 DEF WaitedInv, WaitedNext

\* A Stop never waits longer for a loop whose context is done than a publish and a
\* refresh may take together, 10 s, even if it comes just as the ticker fires
\* (redis.go:107, :176, :198).  The bound is exact: TLC finds a Stop that waits
\* that long.
THEOREM StopWaitsBounded == WaitedSpec => [](\A n \in Node : waited[n] <= 2 * CmdTimeout)
<1>1. Init => IInv
  BY InitInv
<1>2. WaitedInit => WaitedInv
  BY DurationsNat DEF WaitedInit, Init, WaitedInv, Waiting
<1>3. IInv /\ [WaitedNext]_<<vars, waited>> => IInv'
  <2>. SUFFICES ASSUME IInv, [WaitedNext]_<<vars, waited>>
                PROVE  [Next]_vars
    BY StepInv
  <2>. QED  BY DEF WaitedNext
<1>4. IInv /\ WaitedInv /\ [WaitedNext]_<<vars, waited>> => WaitedInv'
  <2>. SUFFICES ASSUME IInv, WaitedInv, UNCHANGED <<vars, waited>>
                PROVE  WaitedInv'
    BY WaitedStep
  <2>. QED  BY DEF WaitedInv, Waiting, TimeLeft, Cancelled, vars, loopVars, modVars
<1>5. WaitedInv => \A n \in Node : waited[n] <= 2 * CmdTimeout
  BY DurationsNat DEF WaitedInv
<1>. QED  BY <1>1, <1>2, <1>3, <1>4, <1>5, PTL DEF WaitedSpec, WaitedInit
=============================================================================
