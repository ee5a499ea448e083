------------------------- MODULE MdnsDiscovery_proofs --------------------------
(***************************************************************************)
(* MdnsDiscovery for any set of instances, any number of callers of Find,  *)
(* and any capacity of the queue.                                          *)
(***************************************************************************)
EXTENDS MdnsDiscovery, TLAPS

-----------------------------------------------------------------------------
(* The queue *)

Elements(s) == { s[k] : k \in 1..Len(s) }

\* What is in a queue after a send.
LEMMA AppendElements ==
  ASSUME NEW s \in Seq(Instance), NEW x \in Instance
  PROVE  Elements(Append(s, x)) = Elements(s) \cup {x}
<1>1. PICK n \in Nat : n = Len(s)
  OBVIOUS
<1>2. Len(Append(s, x)) = n + 1 /\ 1..(n + 1) = (1..n) \cup {n + 1}
  BY <1>1
<1>3. \A k \in 1..n : Append(s, x)[k] = s[k]
  BY <1>1
<1>4. Append(s, x)[n + 1] = x
  BY <1>1
<1> QED
  BY <1>1, <1>2, <1>3, <1>4 DEF Elements

\* ... and after a receive.
LEMMA TailElements ==
  ASSUME NEW s \in Seq(Instance), s # <<>>
  PROVE  Elements(s) = {Head(s)} \cup Elements(Tail(s))
<1>1. PICK n \in Nat : n = Len(s) /\ n >= 1
  OBVIOUS
<1>2. Len(Tail(s)) = n - 1 /\ \A k \in 1..(n - 1) : Tail(s)[k] = s[k + 1]
  BY <1>1
<1>3. Head(s) = s[1]
  BY <1>1
<1>4. ASSUME NEW x \in Elements(s)
      PROVE  x \in {Head(s)} \cup Elements(Tail(s))
  <2>1. PICK k \in 1..n : x = s[k]
    BY <1>1 DEF Elements
  <2>2. CASE k = 1
    BY <2>1, <2>2, <1>3
  <2>3. CASE k # 1
    <3>1. k - 1 \in 1..(n - 1) /\ Tail(s)[k - 1] = s[k]
      BY <1>2, <2>1, <2>3
    <3> QED
      BY <1>2, <2>1, <3>1 DEF Elements
  <2> QED
    BY <2>2, <2>3
<1>5. ASSUME NEW x \in Elements(Tail(s))
      PROVE  x \in Elements(s)
  <2>1. PICK k \in 1..(n - 1) : x = Tail(s)[k]
    BY <1>2 DEF Elements
  <2>2. x = s[k + 1] /\ k + 1 \in 1..n
    BY <1>2, <2>1
  <2> QED
    BY <1>1, <2>2 DEF Elements
<1>6. Head(s) \in Elements(s)
  BY <1>1, <1>3 DEF Elements
<1> QED
  BY <1>4, <1>5, <1>6

-----------------------------------------------------------------------------
(* The inductive invariant *)

AtWorker(i) == worker.at \in {"check", "lookup", "unmark"} /\ worker.inst = i

\* Who will take back the marker of i.
Backed(i) ==
  \/ \E f \in Finder : finder[f] = At("send", i)
  \/ i \in Elements(lookupCh)
  \/ AtWorker(i)

\* Before Start nothing happens; the worker leaves or panics only afterwards.
Phases ==
  /\ status = "new" => /\ lookupMap = {} /\ worker.at = "off" /\ consumer.at = "off"
                       /\ \A f \in Finder : finder[f].at = "idle"
  /\ worker.at = "gone" => ctxDone \/ status = "stopped"
  /\ worker.at = "panicked" => status = "stopped"

Markers == status = "running" /\ ~ctxDone => \A i \in lookupMap : Backed(i)

IInv == TypeOK /\ Phases /\ Markers

\* Before Start there is no marker.
LEMMA InitInv == Init => IInv
<1> SUFFICES ASSUME Init PROVE IInv
  OBVIOUS
<1>1. lookupCh \in Seq(Instance) /\ Len(lookupCh) <= QueueCap
  BY QueueCapAssumption DEF Init
<1>2. TypeOK
  BY <1>1 DEF Init, TypeOK, Idle
<1> QED
  BY <1>2 DEF Init, IInv, Phases, Markers, Idle

\* The goroutines start without markers.
LEMMA StartInv ==
  ASSUME IInv, NEW done \in BOOLEAN, Start(done)
  PROVE  IInv'
<1>1. TypeOK'
  BY QueueCapAssumption DEF IInv, TypeOK, Places, At, Idle, Start
<1>2. Phases'
  BY DEF IInv, TypeOK, Phases, Places, At, Idle, Start
<1>3. Markers'
  BY DEF IInv, TypeOK, Phases, Markers, Backed, AtWorker, Places, At, Idle, Start
<1> QED
  BY <1>1, <1>2, <1>3 DEF IInv

\* The invariant asks nothing of a module whose context is done,
LEMMA CancelInv ==
  ASSUME IInv, Cancel
  PROVE  IInv'
<1>1. TypeOK'
  BY QueueCapAssumption DEF IInv, TypeOK, Places, At, Idle, Cancel
<1>2. Phases'
  BY DEF IInv, TypeOK, Phases, Places, At, Idle, Cancel
<1>3. Markers'
  BY DEF IInv, TypeOK, Phases, Markers, Backed, AtWorker, Places, At, Idle, Cancel
<1> QED
  BY <1>1, <1>2, <1>3 DEF IInv

\* nor of one that is stopped.
LEMMA StopInv ==
  ASSUME IInv, Stop
  PROVE  IInv'
<1>1. TypeOK'
  BY QueueCapAssumption DEF IInv, TypeOK, Places, At, Idle, Stop
<1>2. Phases'
  BY DEF IInv, TypeOK, Phases, Places, At, Idle, Stop
<1>3. Markers'
  BY DEF IInv, TypeOK, Phases, Markers, Backed, AtWorker, Places, At, Idle, Stop
<1> QED
  BY <1>1, <1>2, <1>3 DEF IInv

\* Find only looks at an entry,
LEMMA FindInv ==
  ASSUME IInv, NEW f \in Finder, Find(f)
  PROVE  IInv'
<1>1. TypeOK'
  BY QueueCapAssumption DEF IInv, TypeOK, Places, At, Idle, Find
<1>2. Phases'
  BY DEF IInv, TypeOK, Phases, Places, At, Idle, Find
<1>3. Markers'
  BY DEF IInv, TypeOK, Phases, Markers, Backed, AtWorker, Places, At, Idle, Find
<1> QED
  BY <1>1, <1>2, <1>3 DEF IInv

\* or deletes one.
LEMMA PurgeInv ==
  ASSUME IInv, NEW f \in Finder, Purge(f)
  PROVE  IInv'
<1>1. TypeOK'
  BY QueueCapAssumption DEF IInv, TypeOK, Places, At, Idle, Purge
<1>2. Phases'
  BY DEF IInv, TypeOK, Phases, Places, At, Idle, Purge
<1>3. Markers'
  BY DEF IInv, TypeOK, Phases, Markers, Backed, AtWorker, Places, At, Idle, Purge
<1> QED
  BY <1>1, <1>2, <1>3 DEF IInv

\* Who sets a marker is about to signal.
LEMMA MarkInv ==
  ASSUME IInv, NEW f \in Finder, Mark(f)
  PROVE  IInv'
<1>1. TypeOK'
  BY QueueCapAssumption DEF IInv, TypeOK, Places, At, Idle, Mark
<1>2. Phases'
  BY DEF IInv, TypeOK, Phases, Places, At, Idle, Mark
<1>3. Markers'
  BY DEF IInv, TypeOK, Phases, Markers, Backed, AtWorker, Places, At, Idle, Mark
<1> QED
  BY <1>1, <1>2, <1>3 DEF IInv

\* Either the instance is in the queue now, or its marker is taken back.
LEMMA SendInv ==
  ASSUME IInv, NEW f \in Finder, Send(f)
  PROVE  IInv'
<1> DEFINE i == finder[f].inst
<1>1. i \in Instance /\ finder[f] = At("send", i)
  BY DEF IInv, TypeOK, Places, At, Idle, Send
<1>2. lookupCh' \in Seq(Instance) /\ Len(lookupCh') <= QueueCap
  <2>1. CASE lookupCh' = Append(lookupCh, i) /\ Len(lookupCh) < QueueCap
    BY <1>1, <2>1, QueueCapAssumption DEF IInv, TypeOK
  <2>2. CASE UNCHANGED lookupCh
    BY <2>2 DEF IInv, TypeOK
  <2> QED
    BY <2>1, <2>2 DEF Send
<1>3. lookupMap' \in SUBSET Instance /\ finder' = [finder EXCEPT ![f] = Idle("idle")]
  BY DEF IInv, TypeOK, Send
<1>4. TypeOK'
  BY <1>2, <1>3 DEF IInv, TypeOK, Places, At, Idle, Send
<1>5. Phases'
  BY DEF IInv, TypeOK, Phases, Idle, Send
<1>6. ASSUME status = "running", ~ctxDone, NEW j \in lookupMap'
      PROVE  Backed(j)'
  <2>1. j \in lookupMap /\ Backed(j)
    BY <1>6 DEF IInv, Markers, Send
  <2>2. Elements(lookupCh) \subseteq Elements(lookupCh')
        /\ (j = i => j \in Elements(lookupCh'))
    BY <1>1, <1>6, AppendElements DEF IInv, TypeOK, Send
  <2>3. CASE \E g \in Finder : finder[g] = At("send", j)
    BY <1>1, <1>3, <2>2, <2>3 DEF IInv, TypeOK, Backed, At
  <2>4. CASE j \in Elements(lookupCh) \/ AtWorker(j)
    BY <2>2, <2>4 DEF Backed, AtWorker, Send
  <2> QED
    BY <2>1, <2>3, <2>4 DEF Backed
<1> QED
  BY <1>4, <1>5, <1>6 DEF IInv, Markers, Send

\* A send panics only once the module is stopped.
LEMMA SendPanicsInv ==
  ASSUME IInv, NEW f \in Finder, SendPanics(f)
  PROVE  IInv'
<1>1. TypeOK'
  BY QueueCapAssumption DEF IInv, TypeOK, Places, At, Idle, SendPanics
<1>2. Phases'
  BY DEF IInv, TypeOK, Phases, Places, At, Idle, SendPanics
<1>3. Markers'
  BY DEF IInv, TypeOK, Phases, Markers, Backed, AtWorker, Places, At, Idle, SendPanics
<1> QED
  BY <1>1, <1>2, <1>3 DEF IInv

\* What leaves the queue is with the worker.
LEMMA ReceiveInv ==
  ASSUME IInv, Receive
  PROVE  IInv'
<1>1. TypeOK'
  BY QueueCapAssumption DEF IInv, TypeOK, Places, At, Idle, Receive
<1>2. Phases'
  BY DEF IInv, TypeOK, Phases, Places, At, Idle, Receive
<1>3. Markers'
  <2>1. Elements(lookupCh) = {Head(lookupCh)} \cup Elements(lookupCh')
    BY TailElements DEF IInv, TypeOK, Receive
  <2> QED
    BY <2>1 DEF IInv, TypeOK, Markers, Backed, AtWorker, At, Receive
<1> QED
  BY <1>1, <1>2, <1>3 DEF IInv

\* The worker keeps an instance whose marker is set,
LEMMA CheckInv ==
  ASSUME IInv, Check
  PROVE  IInv'
<1>1. TypeOK'
  BY QueueCapAssumption DEF IInv, TypeOK, Places, At, Idle, Check
<1>2. Phases'
  BY DEF IInv, TypeOK, Phases, Places, At, Idle, Check
<1>3. Markers'
  BY DEF IInv, TypeOK, Phases, Markers, Backed, AtWorker, Places, At, Idle, Check
<1> QED
  BY <1>1, <1>2, <1>3 DEF IInv

\* looks it up,
LEMMA LookupInv ==
  ASSUME IInv, Lookup
  PROVE  IInv'
<1>1. TypeOK'
  BY QueueCapAssumption DEF IInv, TypeOK, Places, At, Idle, Lookup
<1>2. Phases'
  BY DEF IInv, TypeOK, Phases, Places, At, Idle, Lookup
<1>3. Markers'
  BY DEF IInv, TypeOK, Phases, Markers, Backed, AtWorker, Places, At, Idle, Lookup
<1> QED
  BY <1>1, <1>2, <1>3 DEF IInv

\* panics only once the module is stopped,
LEMMA LookupPanicsInv ==
  ASSUME IInv, LookupPanics
  PROVE  IInv'
<1>1. TypeOK'
  BY QueueCapAssumption DEF IInv, TypeOK, Places, At, Idle, LookupPanics
<1>2. Phases'
  BY DEF IInv, TypeOK, Phases, Places, At, Idle, LookupPanics
<1>3. Markers'
  BY DEF IInv, TypeOK, Phases, Markers, Backed, AtWorker, Places, At, Idle, LookupPanics
<1> QED
  BY <1>1, <1>2, <1>3 DEF IInv

\* and takes the marker back.
LEMMA UnmarkInv ==
  ASSUME IInv, Unmark
  PROVE  IInv'
<1>1. TypeOK'
  BY QueueCapAssumption DEF IInv, TypeOK, Places, At, Idle, Unmark
<1>2. Phases'
  BY DEF IInv, TypeOK, Phases, Places, At, Idle, Unmark
<1>3. Markers'
  BY DEF IInv, TypeOK, Phases, Markers, Backed, AtWorker, Places, At, Idle, Unmark
<1> QED
  BY <1>1, <1>2, <1>3 DEF IInv

\* The worker leaves only with the context or the module.
LEMMA WorkerLeavesInv ==
  ASSUME IInv, WorkerLeaves
  PROVE  IInv'
<1>1. TypeOK'
  BY QueueCapAssumption DEF IInv, TypeOK, Places, At, Idle, WorkerLeaves
<1>2. Phases'
  BY DEF IInv, TypeOK, Phases, Places, At, Idle, WorkerLeaves
<1>3. Markers'
  BY DEF IInv, TypeOK, Phases, Markers, Backed, AtWorker, Places, At, Idle, WorkerLeaves
<1> QED
  BY <1>1, <1>2, <1>3 DEF IInv

\* The consumer deletes a marker, whoever has set it.
LEMMA AnsweredInv ==
  ASSUME IInv, Answered
  PROVE  IInv'
<1>1. TypeOK'
  BY QueueCapAssumption DEF IInv, TypeOK, Places, At, Idle, Answered
<1>2. Phases'
  BY DEF IInv, TypeOK, Phases, Places, At, Idle, Answered
<1>3. Markers'
  BY DEF IInv, TypeOK, Phases, Markers, Backed, AtWorker, Places, At, Idle, Answered
<1> QED
  BY <1>1, <1>2, <1>3 DEF IInv

\* It never sets one.
LEMMA ConsumerLeavesInv ==
  ASSUME IInv, ConsumerLeaves
  PROVE  IInv'
<1>1. TypeOK'
  BY QueueCapAssumption DEF IInv, TypeOK, Places, At, Idle, ConsumerLeaves
<1>2. Phases'
  BY DEF IInv, TypeOK, Phases, Places, At, Idle, ConsumerLeaves
<1>3. Markers'
  BY DEF IInv, TypeOK, Phases, Markers, Backed, AtWorker, Places, At, Idle, ConsumerLeaves
<1> QED
  BY <1>1, <1>2, <1>3 DEF IInv

\* Entries arrive,
LEMMA ArriveInv ==
  ASSUME IInv, NEW i \in Instance, Arrive(i)
  PROVE  IInv'
<1>1. TypeOK'
  BY QueueCapAssumption DEF IInv, TypeOK, Places, At, Idle, Arrive
<1>2. Phases'
  BY DEF IInv, TypeOK, Phases, Places, At, Idle, Arrive
<1>3. Markers'
  BY DEF IInv, TypeOK, Phases, Markers, Backed, AtWorker, Places, At, Idle, Arrive
<1> QED
  BY <1>1, <1>2, <1>3 DEF IInv

\* are dropped,
LEMMA DropInv ==
  ASSUME IInv, NEW i \in Instance, Drop(i)
  PROVE  IInv'
<1>1. TypeOK'
  BY QueueCapAssumption DEF IInv, TypeOK, Places, At, Idle, Drop
<1>2. Phases'
  BY DEF IInv, TypeOK, Phases, Places, At, Idle, Drop
<1>3. Markers'
  BY DEF IInv, TypeOK, Phases, Markers, Backed, AtWorker, Places, At, Idle, Drop
<1> QED
  BY <1>1, <1>2, <1>3 DEF IInv

\* and age, without touching markers.
LEMMA AgeInv ==
  ASSUME IInv, NEW i \in Instance, Age(i)
  PROVE  IInv'
<1>1. TypeOK'
  BY QueueCapAssumption DEF IInv, TypeOK, Places, At, Idle, Age
<1>2. Phases'
  BY DEF IInv, TypeOK, Phases, Places, At, Idle, Age
<1>3. Markers'
  BY DEF IInv, TypeOK, Phases, Markers, Backed, AtWorker, Places, At, Idle, Age
<1> QED
  BY <1>1, <1>2, <1>3 DEF IInv

-----------------------------------------------------------------------------
\* So every step keeps the invariant.
LEMMA StepInv == IInv /\ [Next]_vars => IInv'
<1> SUFFICES ASSUME IInv, [Next]_vars
             PROVE  IInv'
  OBVIOUS
<1>1. CASE \E done \in BOOLEAN : Start(done)
  BY <1>1, StartInv
<1>2. CASE Cancel \/ Stop
  BY <1>2, CancelInv, StopInv
<1>3. CASE \E f \in Finder : Find(f) \/ FindStep(f)
  BY <1>3, FindInv, PurgeInv, MarkInv, SendInv, SendPanicsInv DEF FindStep
<1>4. CASE WorkerStep
  BY <1>4, ReceiveInv, CheckInv, LookupInv, LookupPanicsInv, UnmarkInv, WorkerLeavesInv
  DEF WorkerStep
<1>5. CASE ConsumerStep
  BY <1>5, AnsweredInv, ConsumerLeavesInv, ArriveInv DEF ConsumerStep
<1>6. CASE \E i \in Instance : Drop(i) \/ Age(i)
  BY <1>6, DropInv, AgeInv
<1>7. CASE UNCHANGED vars
  BY <1>7 DEF vars, IInv, TypeOK, Phases, Markers, Backed, AtWorker, Elements
<1> QED
  BY <1>1, <1>2, <1>3, <1>4, <1>5, <1>6, <1>7 DEF Next

\* The invariant holds throughout.
THEOREM Invariant == Spec => []IInv
  BY InitInv, StepInv, PTL DEF Spec

\* The queue never holds more than its capacity, and everyone is where the code
\* can be.
THEOREM TypeCorrect == Spec => []TypeOK
<1>1. IInv => TypeOK
  BY DEF IInv
<1> QED
  BY <1>1, Invariant, PTL

\* While the module runs, every marker has someone who will take it back
\* (mdns.go:138, :204).
THEOREM MarkersBacked == Spec => []MarkerBacked
<1>1. IInv => MarkerBacked
  <2> SUFFICES ASSUME IInv, status = "running", ~ctxDone, NEW i \in lookupMap
               PROVE  \/ \E f \in Finder : finder[f] = At("send", i)
                      \/ i \in InQueue /\ worker.at # "gone"
                      \/ worker \in Places({"check", "lookup", "unmark"}) /\ worker.inst = i
    BY DEF MarkerBacked
  <2>1. Backed(i) /\ worker.at # "gone"
    BY DEF IInv, Markers, Phases
  <2>2. Elements(lookupCh) = InQueue
    BY DEF Elements, InQueue
  <2>3. AtWorker(i) => worker \in Places({"check", "lookup", "unmark"}) /\ worker.inst = i
    BY DEF IInv, TypeOK, AtWorker, Places, At, Idle
  <2> QED
    BY <2>1, <2>2, <2>3 DEF Backed
<1> QED
  BY <1>1, Invariant, PTL

-----------------------------------------------------------------------------
(* What keeps a service in the table *)

\* staled: the instances of which nothing was heard for staleAfter at some time.
VARIABLE staled

StaledInit == Init /\ staled = {}

StaledNext ==
  /\ Next
  /\ staled' = staled \cup { i \in Instance : age'[i] = "stale" }

StaledSpec == StaledInit /\ [][StaledNext]_<<vars, staled>>

\* Whatever is on its way to a removal, anywhere in the module, has been stale.
StaledInv ==
  /\ \A i \in Instance : age[i] \in {"stale", "dead"} => i \in staled
  /\ \A f \in Finder : finder[f].at \in {"purge", "mark", "send"} => finder[f].inst \in staled
  /\ Elements(lookupCh) \subseteq staled
  /\ \A i \in Instance : AtWorker(i) => i \in staled
  /\ removeCache \subseteq staled

\* The callers of Find pass on only what they loaded.
LEMMA StaledFinder ==
  ASSUME IInv, StaledInv, StaledNext, NEW f \in Finder, Find(f) \/ FindStep(f)
  PROVE  StaledInv'
<1> USE DEF IInv, TypeOK, Places, At, Idle, StaledInv, AtWorker
<1>1. staled \subseteq staled'
  BY DEF StaledNext
<1>2. CASE Find(f)
  BY <1>1, <1>2 DEF Find
<1>3. CASE Purge(f)
  BY <1>1, <1>3 DEF Purge
<1>4. CASE Mark(f)
  BY <1>1, <1>4 DEF Mark
<1>5. CASE Send(f)
  <2>1. finder[f].inst \in Instance /\ finder[f].inst \in staled
    BY <1>5 DEF Send
  <2>2. Elements(Append(lookupCh, finder[f].inst)) = Elements(lookupCh) \cup {finder[f].inst}
    BY <2>1, AppendElements
  <2>3. lookupCh' \in {lookupCh, Append(lookupCh, finder[f].inst)}
    BY <1>5 DEF Send
  <2>4. Elements(lookupCh') \subseteq staled
    BY <2>1, <2>2, <2>3
  <2> QED
    BY <1>1, <1>5, <2>4 DEF Send
<1>6. CASE SendPanics(f)
  BY <1>1, <1>6 DEF SendPanics
<1> QED
  BY <1>2, <1>3, <1>4, <1>5, <1>6 DEF FindStep

\* The worker looks up, and has removed, only what was passed on to it.
LEMMA StaledWorker ==
  ASSUME IInv, StaledInv, StaledNext, WorkerStep
  PROVE  StaledInv'
<1> USE DEF IInv, TypeOK, Places, At, Idle, StaledInv, AtWorker
<1>1. staled \subseteq staled'
  BY DEF StaledNext
<1>2. CASE Receive
  <2>1. Elements(lookupCh) = {Head(lookupCh)} \cup Elements(lookupCh')
    BY <1>2, TailElements DEF Receive
  <2> QED
    BY <1>1, <1>2, <2>1 DEF Receive
<1>3. CASE Check \/ Lookup
  BY <1>1, <1>3 DEF Check, Lookup
<1>4. CASE LookupPanics \/ Unmark \/ WorkerLeaves
  BY <1>1, <1>4 DEF LookupPanics, Unmark, WorkerLeaves
<1> QED
  BY <1>2, <1>3, <1>4 DEF WorkerStep

\* Time makes an entry stale before it makes it dead.
LEMMA StaledTime ==
  ASSUME IInv, StaledInv, StaledNext, NEW i \in Instance, Drop(i) \/ Age(i) \/ Arrive(i)
  PROVE  StaledInv'
<1> USE DEF IInv, TypeOK, StaledInv, AtWorker
<1>1. staled' = staled \cup { j \in Instance : age'[j] = "stale" }
  BY DEF StaledNext
<1>2. CASE Drop(i)
  BY <1>1, <1>2 DEF Drop
<1>3. CASE Age(i)
  BY <1>1, <1>3 DEF Age
<1>4. CASE Arrive(i)
  BY <1>1, <1>4 DEF Arrive
<1> QED
  BY <1>2, <1>3, <1>4

LEMMA StaledStep ==
  ASSUME IInv, StaledInv, StaledNext
  PROVE  StaledInv'
<1>1. staled \subseteq staled'
  BY DEF StaledNext
<1>2. CASE \E done \in BOOLEAN : Start(done)
  BY <1>1, <1>2 DEF StaledInv, AtWorker, Start, Idle
<1>3. CASE Cancel \/ Stop \/ Answered \/ ConsumerLeaves
  BY <1>1, <1>3 DEF StaledInv, AtWorker, Cancel, Stop, Answered, ConsumerLeaves
<1>4. CASE \E i \in Instance : Drop(i) \/ Age(i) \/ Arrive(i)
  BY <1>4, StaledTime
<1> QED
  BY <1>2, <1>3, <1>4, StaledFinder, StaledWorker DEF StaledNext, Next, ConsumerStep

\* What is true of mdns.go:19, where KeptWhileFresh is not: a service that is
\* heard of at least every staleAfter, so that no Find ever has it looked up, is
\* never dropped, whatever the Finds, lookups and removals of others do
\* (mdns.go:146, :194, :198).  One stale moment is enough to lose it, fresh or not.
THEOREM NeverStaleNeverDropped ==
  StaledSpec => [][\A i \in Instance : age[i] # "none" /\ age'[i] = "none" => i \in staled]_<<vars, staled>>
<1>1. Init => IInv
  BY InitInv
<1>2. StaledInit => StaledInv
  BY DEF StaledInit, Init, StaledInv, Elements, AtWorker, Idle
<1>3. IInv /\ [StaledNext]_<<vars, staled>> => IInv'
  <2> SUFFICES ASSUME IInv, [StaledNext]_<<vars, staled>>
               PROVE  [Next]_vars
    BY StepInv
  <2> QED
    BY DEF StaledNext
<1>4. IInv /\ StaledInv /\ [StaledNext]_<<vars, staled>> => StaledInv'
  <2> SUFFICES ASSUME IInv, StaledInv, UNCHANGED <<vars, staled>>
               PROVE  StaledInv'
    BY StaledStep
  <2> QED
    BY DEF StaledInv, AtWorker, Elements, vars
<1>5. IInv /\ StaledInv /\ [StaledNext]_<<vars, staled>> =>
        [\A i \in Instance : age[i] # "none" /\ age'[i] = "none" => i \in staled]_<<vars, staled>>
  <2> SUFFICES ASSUME IInv, StaledInv, StaledNext, NEW i \in Instance,
                      age[i] # "none", age'[i] = "none"
               PROVE  i \in staled
    OBVIOUS
  <2> USE DEF IInv, TypeOK, StaledInv
  <2>1. CASE \E f \in Finder : Find(f) \/ FindStep(f)
    BY <2>1 DEF FindStep, Find, Purge, Mark, Send, SendPanics
  <2>2. CASE \E j \in Instance : Drop(j) \/ Age(j) \/ Arrive(j)
    BY <2>2 DEF Drop, Age, Arrive
  <2>3. CASE WorkerStep
    BY <2>3 DEF WorkerStep, Receive, Check, Lookup, LookupPanics, Unmark, WorkerLeaves
  <2>4. CASE Cancel \/ Stop \/ Answered \/ ConsumerLeaves \/ \E done \in BOOLEAN : Start(done)
    BY <2>4 DEF Cancel, Stop, Answered, ConsumerLeaves, Start
  <2> QED
    BY <2>1, <2>2, <2>3, <2>4 DEF StaledNext, Next, ConsumerStep
<1> QED
  BY <1>1, <1>2, <1>3, <1>4, <1>5, PTL DEF StaledSpec, StaledInit
=============================================================================
