--------------------------- MODULE Database_proofs ----------------------------
(***************************************************************************)
(* The connectors, for each of the eight profiles, however Start, Stop,    *)
(* Health and the other side interleave; then Database, for any number of  *)
(* calls, of any length, on a pool of any size, and for each connector;    *)
(* last, the laws of what callers make of the cells of a result (Value).   *)
(***************************************************************************)
EXTENDS Database, Value, TLAPS

-----------------------------------------------------------------------------
(* The connector alone: module Connector *)

\* The modules that gorm opens are three; those that do not clean up are mysql and
\* rabbitmq; those that forget a client they failed to close are four; only
\* rabbitmq opens a channel.
LEMMA ProfileFacts ==
  ASSUME profile \in Profiles
  PROVE  /\ profile.channel \in BOOLEAN /\ profile.checks \in BOOLEAN
         /\ profile.cleansUp \in BOOLEAN /\ profile.reports \in BOOLEAN
         /\ profile.forgets \in BOOLEAN
         /\ profile.gorm => profile \in {mysql, pgsql, sqlserver}
         /\ profile.channel => ~profile.cleansUp /\ profile.reports
         /\ ~profile.cleansUp => profile \in {mysql, rabbitmq}
         /\ ~profile.reports /\ profile.forgets => profile \in {mysql, pgsql, sqlserver, mqtt}
<1>1. CASE profile = mysql
  BY <1>1 DEF mysql
<1>2. CASE profile = pgsql
  BY <1>2 DEF pgsql
<1>3. CASE profile = sqlserver
  BY <1>3 DEF sqlserver
<1>4. CASE profile = sqlite
  BY <1>4 DEF sqlite
<1>5. CASE profile = redis
  BY <1>5 DEF redis
<1>6. CASE profile = bolt
  BY <1>6 DEF bolt
<1>7. CASE profile = mqtt
  BY <1>7 DEF mqtt
<1>8. CASE profile = rabbitmq
  BY <1>8 DEF rabbitmq
<1> QED
  BY <1>1, <1>2, <1>3, <1>4, <1>5, <1>6, <1>7, <1>8 DEF Profiles

\* The facts about one connector that its properties follow from.
StartInv ==
  /\ start = "idle" => conn = "none"
  /\ start = "channel" => profile.channel /\ conn = "open"
  /\ start \in {"idle", "channel"} => chan = "none"
  /\ start \in {"check", "keep", "keepChannel", "provide", "ok"} => conn # "none"
  /\ start = "keepChannel" => profile.channel
  /\ start = "unopened" /\ conn # "none" => profile.gorm
  /\ closer = "start" => start = "failed"
  /\ start = "failed" /\ conn = "open" => ~profile.cleansUp
  /\ provided # "none" => start = "ok"

\* Stop works on what Start has kept; a client that is open after it was one that
\* failed to close.
StopInv ==
  /\ handle => start \in {"keepChannel", "provide", "ok"}
  /\ stopped \in {"ok", "error"} => start \in {"keepChannel", "provide", "ok"}
  /\ stop = "forget" /\ conn = "open" => closeFailed /\ ~profile.reports
  /\ stopped = "ok" /\ conn = "open" => closeFailed /\ ~profile.reports
  /\ start \in {"keepChannel", "provide", "ok"} /\ ~handle =>
       profile.forgets /\ stopped # "none"
  /\ start \in {"keepChannel", "provide", "ok"} /\ ~handle /\ conn = "open" =>
       closeFailed /\ ~profile.reports
  /\ provided = "nil" => ~handle

ConnInv == TypeOK /\ StartInv /\ StopInv

\* Initially there is no client.
LEMMA ConnInit == Init => ConnInv
  BY DEF Init, ConnInv, StartInv, StopInv, TypeOK

\* The client is opened, or is not.
LEMMA OpenConnInv ==
  ASSUME ConnInv, Open
  PROVE  ConnInv'
<1>1. TypeOK'
  BY ProfileFacts DEF ConnInv, StartInv, StopInv, TypeOK, Open, Afterwards
<1>2. StartInv'
  BY ProfileFacts DEF ConnInv, StartInv, StopInv, TypeOK, Open, Afterwards
<1>3. StopInv'
  BY ProfileFacts DEF ConnInv, StartInv, StopInv, TypeOK, Open, Afterwards
<1> QED
  BY <1>1, <1>2, <1>3 DEF ConnInv

\* The second resource is opened, or the client closed.
LEMMA OpenChannelConnInv ==
  ASSUME ConnInv, OpenChannel
  PROVE  ConnInv'
<1>1. TypeOK'
  BY ProfileFacts DEF ConnInv, StartInv, StopInv, TypeOK, OpenChannel, Afterwards
<1>2. StartInv'
  BY ProfileFacts DEF ConnInv, StartInv, StopInv, TypeOK, OpenChannel, Afterwards
<1>3. StopInv'
  BY ProfileFacts DEF ConnInv, StartInv, StopInv, TypeOK, OpenChannel, Afterwards
<1> QED
  BY <1>1, <1>2, <1>3 DEF ConnInv

\* The check of the server, which ends in Start failing or going on.
LEMMA CheckConnInv ==
  ASSUME ConnInv, Check
  PROVE  ConnInv'
<1>1. TypeOK'
  BY ProfileFacts DEF ConnInv, StartInv, StopInv, TypeOK, Check
<1>2. StartInv'
  BY ProfileFacts DEF ConnInv, StartInv, StopInv, TypeOK, Check
<1>3. StopInv'
  BY ProfileFacts DEF ConnInv, StartInv, StopInv, TypeOK, Check
<1> QED
  BY <1>1, <1>2, <1>3 DEF ConnInv

\* The handle is kept.
LEMMA KeepConnInv ==
  ASSUME ConnInv, Keep
  PROVE  ConnInv'
<1>1. TypeOK'
  BY ProfileFacts DEF ConnInv, StartInv, StopInv, TypeOK, Keep
<1>2. StartInv'
  BY ProfileFacts DEF ConnInv, StartInv, StopInv, TypeOK, Keep
<1>3. StopInv'
  BY ProfileFacts DEF ConnInv, StartInv, StopInv, TypeOK, Keep
<1> QED
  BY <1>1, <1>2, <1>3 DEF ConnInv

\* ... and that of the second resource.
LEMMA KeepChannelConnInv ==
  ASSUME ConnInv, KeepChannel
  PROVE  ConnInv'
<1>1. TypeOK'
  BY ProfileFacts DEF ConnInv, StartInv, StopInv, TypeOK, KeepChannel
<1>2. StartInv'
  BY ProfileFacts DEF ConnInv, StartInv, StopInv, TypeOK, KeepChannel
<1>3. StopInv'
  BY ProfileFacts DEF ConnInv, StartInv, StopInv, TypeOK, KeepChannel
<1> QED
  BY <1>1, <1>2, <1>3 DEF ConnInv

\* The client is provided.
LEMMA ProvideConnInv ==
  ASSUME ConnInv, Provide
  PROVE  ConnInv'
<1>1. TypeOK'
  BY ProfileFacts DEF ConnInv, StartInv, StopInv, TypeOK, Provide
<1>2. StartInv'
  BY ProfileFacts DEF ConnInv, StartInv, StopInv, TypeOK, Provide
<1>3. StopInv'
  BY ProfileFacts DEF ConnInv, StartInv, StopInv, TypeOK, Provide
<1> QED
  BY <1>1, <1>2, <1>3 DEF ConnInv

\* Stop begins on what it finds.
LEMMA BeginStopConnInv ==
  ASSUME ConnInv, BeginStop
  PROVE  ConnInv'
<1>1. TypeOK'
  BY ProfileFacts DEF ConnInv, StartInv, StopInv, TypeOK, BeginStop
<1>2. StartInv'
  BY ProfileFacts DEF ConnInv, StartInv, StopInv, TypeOK, BeginStop
<1>3. StopInv'
  BY ProfileFacts DEF ConnInv, StartInv, StopInv, TypeOK, BeginStop
<1> QED
  BY <1>1, <1>2, <1>3 DEF ConnInv

\* The second resource is closed, or Stop ends.
LEMMA CloseChannelConnInv ==
  ASSUME ConnInv, CloseChannel
  PROVE  ConnInv'
<1>1. TypeOK'
  BY ProfileFacts DEF ConnInv, StartInv, StopInv, TypeOK, CloseChannel
<1>2. StartInv'
  BY ProfileFacts DEF ConnInv, StartInv, StopInv, TypeOK, CloseChannel
<1>3. StopInv'
  BY ProfileFacts DEF ConnInv, StartInv, StopInv, TypeOK, CloseChannel
<1> QED
  BY <1>1, <1>2, <1>3 DEF ConnInv

\* The client is closed, or not.
LEMMA CloseConnInv ==
  ASSUME ConnInv, Close
  PROVE  ConnInv'
<1>1. TypeOK'
  <2>1. CASE ByStop /\ stop' = "forget" /\ UNCHANGED <<stopped, closeFailed>>
    BY <2>1 DEF ConnInv, TypeOK, Close, ByStop
  <2>2. CASE closeFailed' = TRUE /\ UNCHANGED <<conn, chan, closer>>
    <3>1. /\ stop' \in {"idle", "forget"}
          /\ stopped' \in {"none", "nothing", "ok", "error"}
      BY <2>2 DEF ConnInv, TypeOK, Close, ByStop
    <3>2. handle' = handle /\ handle
      BY DEF ConnInv, TypeOK, Close
    <3>3. UNCHANGED <<profile, provided, start, health>>
      BY DEF Close
    <3> QED
      BY <2>2, <3>1, <3>2, <3>3 DEF ConnInv, TypeOK
  <2> QED
    BY <2>1, <2>2 DEF Close
<1>2. StartInv'
  BY ProfileFacts DEF ConnInv, StartInv, StopInv, TypeOK, Close, ByStop
<1>3. StopInv'
  BY ProfileFacts DEF ConnInv, StartInv, StopInv, TypeOK, Close, ByStop
<1> QED
  BY <1>1, <1>2, <1>3 DEF ConnInv

\* The handle is forgotten, or kept for good.
LEMMA ForgetConnInv ==
  ASSUME ConnInv, Forget
  PROVE  ConnInv'
<1>1. TypeOK'
  BY ProfileFacts DEF ConnInv, StartInv, StopInv, TypeOK, Forget
<1>2. StartInv'
  BY ProfileFacts DEF ConnInv, StartInv, StopInv, TypeOK, Forget
<1>3. StopInv'
  BY ProfileFacts DEF ConnInv, StartInv, StopInv, TypeOK, Forget
<1> QED
  BY <1>1, <1>2, <1>3 DEF ConnInv

\* Health finds the handle.
LEMMA BeginHealthConnInv ==
  ASSUME ConnInv, BeginHealth
  PROVE  ConnInv'
<1>1. TypeOK'
  BY ProfileFacts DEF ConnInv, StartInv, StopInv, TypeOK, BeginHealth
<1>2. StartInv'
  BY ProfileFacts DEF ConnInv, StartInv, StopInv, TypeOK, BeginHealth
<1>3. StopInv'
  BY ProfileFacts DEF ConnInv, StartInv, StopInv, TypeOK, BeginHealth
<1> QED
  BY <1>1, <1>2, <1>3 DEF ConnInv

\* Health reads it again.
LEMMA UseHandleConnInv ==
  ASSUME ConnInv, UseHandle
  PROVE  ConnInv'
<1>1. TypeOK'
  BY ProfileFacts DEF ConnInv, StartInv, StopInv, TypeOK, UseHandle
<1>2. StartInv'
  BY ProfileFacts DEF ConnInv, StartInv, StopInv, TypeOK, UseHandle
<1>3. StopInv'
  BY ProfileFacts DEF ConnInv, StartInv, StopInv, TypeOK, UseHandle
<1> QED
  BY <1>1, <1>2, <1>3 DEF ConnInv

\* The broker closes the connection and the channel on it.
LEMMA PeerClosesConnInv ==
  ASSUME ConnInv, PeerCloses
  PROVE  ConnInv'
<1>1. TypeOK'
  BY ProfileFacts DEF ConnInv, StartInv, StopInv, TypeOK, PeerCloses
<1>2. StartInv'
  BY ProfileFacts DEF ConnInv, StartInv, StopInv, TypeOK, PeerCloses
<1>3. StopInv'
  BY ProfileFacts DEF ConnInv, StartInv, StopInv, TypeOK, PeerCloses
<1> QED
  BY <1>1, <1>2, <1>3 DEF ConnInv

-----------------------------------------------------------------------------
\* Every step keeps the facts.
LEMMA ConnStep == ConnInv /\ [Next]_vars => ConnInv'
<1> SUFFICES ASSUME ConnInv, [Next]_vars
             PROVE  ConnInv'
  OBVIOUS
<1>1. CASE Next
  BY <1>1, OpenConnInv, OpenChannelConnInv, CheckConnInv, KeepConnInv, KeepChannelConnInv, ProvideConnInv,
     BeginStopConnInv, CloseChannelConnInv, CloseConnInv, ForgetConnInv,
     BeginHealthConnInv, UseHandleConnInv, PeerClosesConnInv
  DEF Next
<1>2. CASE UNCHANGED vars
  BY <1>2 DEF vars, ConnInv, TypeOK, StartInv, StopInv
<1> QED
  BY <1>1, <1>2

\* So they hold throughout.
THEOREM ConnInvariant == Spec => []ConnInv
  BY ConnInit, ConnStep, PTL DEF Spec

\* Five of the eight modules can leave a client open for good, each in the ways
\* that it is listed with: gorm that opens and does not reach its server, a failed
\* check, a failed Close (mysql.go:114, :137, pgsql.go:117, sqlserver.go:125,
\* rabbitmq.go:158).
THEOREM OrphansKnown == Spec => []OrphansExplained
<1>1. ConnInv => OrphansExplained
  BY ProfileFacts DEF ConnInv, StartInv, StopInv, TypeOK, OrphansExplained, Orphaned
<1> QED
  BY <1>1, ConnInvariant, PTL

\* No module provides a client that its own Start has closed, and nil only after a
\* Stop that has cleared the field.
THEOREM ProvidedAreUsable == Spec => []ProvidedUsable
<1>1. ConnInv => ProvidedUsable
  BY DEF ConnInv, StartInv, StopInv, ProvidedUsable
<1> QED
  BY <1>1, ConnInvariant, PTL

\* A Stop without an error has closed the client, unless the module only logs
\* that it could not.
THEOREM StopsRelease == Spec => []StopReleases
<1>1. ConnInv => StopReleases
  BY DEF ConnInv, StopInv, StopReleases
<1> QED
  BY <1>1, ConnInvariant, PTL

\* A Stop that reports an error can be called again: it keeps the handle.
THEOREM ErrorsRetryable == Spec => ErrorIsRetryable
<1>1. ConnInv /\ [Next]_vars => [stopped' = "error" /\ stop # "idle" => handle']_vars
  <2> SUFFICES ASSUME ConnInv, Next, stopped' = "error", stop # "idle"
               PROVE  handle'
    BY DEF vars
  <2>1. handle
    BY DEF ConnInv, TypeOK
  <2>2. CASE Open \/ OpenChannel \/ Check \/ Keep \/ KeepChannel \/ Provide
    BY <2>1, <2>2 DEF Open, OpenChannel, Check, Keep, KeepChannel, Provide
  <2>3. CASE BeginStop \/ CloseChannel \/ Close \/ Forget
    BY <2>1, <2>3 DEF BeginStop, CloseChannel, Close, Forget
  <2>4. CASE BeginHealth \/ UseHandle \/ PeerCloses
    BY <2>1, <2>4 DEF BeginHealth, UseHandle, PeerCloses
  <2> QED
    BY <2>2, <2>3, <2>4 DEF Next
<1> QED
  BY <1>1, ConnInvariant, PTL DEF Spec, ErrorIsRetryable

-----------------------------------------------------------------------------
(* The connector with its callers: the inductive invariant *)

Before == {"idle", "begin", "prepare", "batch", "commit", "exec", "rows"}

CallType ==
  /\ op \in [Call -> {"none", "batch", "exec", "query"}]
  /\ pc \in [Call -> Before \cup {"rollback", "returned"}]
  /\ len \in [Call -> Nat]
  /\ per \in [Call -> Nat]
  /\ pos \in [Call -> Nat]
  /\ tx \in [Call -> {"none", "open", "committing", "rolling", "over"}]
  /\ applied \in [Call -> Nat]
  /\ expired \in [Call -> BOOLEAN]
  /\ reply \in [Call -> {"none", "ok", "error", "panic"}]
  /\ lost \in [Call -> BOOLEAN]

\* Which operation a call is in.
OpAt(c) ==
  /\ pc[c] = "idle" => op[c] = "none" /\ len[c] = 0 /\ pos[c] = 0
  /\ pc[c] = "begin" => op[c] # "none" /\ pos[c] = 0
  /\ pc[c] \in {"prepare", "batch", "commit", "rollback"} => op[c] = "batch"
  /\ pc[c] = "exec" => op[c] = "exec"
  /\ pc[c] = "rows" => op[c] = "query"
  /\ pc[c] = "returned" => op[c] # "none"

\* Where the transaction is.
TxAt(c) ==
  /\ pc[c] \in {"idle", "begin", "exec", "rows"} => tx[c] = "none"
  /\ pc[c] \in {"prepare", "batch", "rollback"} => tx[c] \in {"open", "rolling", "over"}
  /\ pc[c] = "commit" => tx[c] = "committing"
  /\ pc[c] = "returned" => tx[c] \in {"none", "rolling", "over"}

\* A batch is executed in whole groups.
GroupsAt(c) ==
  /\ pos[c] <= len[c]
  /\ op[c] = "batch" /\ pc[c] \in Before =>
       per[c] = 1 \/ (per[c] = 2 /\ len[c] % 2 = 0 /\ pos[c] % 2 = 0)
  /\ pc[c] = "commit" => pos[c] = len[c]

\* What has taken effect, and what the caller is told.
EffectAt(c) ==
  /\ pc[c] \in Before => applied[c] = 0 /\ reply[c] = "none" /\ ~lost[c]
  /\ pc[c] = "rollback" => reply[c] # "none"
  /\ pc[c] \in {"rollback", "returned"} =>
       /\ reply[c] # "none"
       /\ reply[c] # "ok" /\ applied[c] > 0 => lost[c] \/ (op[c] = "exec" /\ ~profile.ids)
       /\ op[c] = "query" /\ reply[c] = "ok" => pos[c] = len[c]

CallInv ==
  /\ CallType
  /\ \A c \in Call : OpAt(c) /\ TxAt(c) /\ GroupsAt(c) /\ EffectAt(c)

-----------------------------------------------------------------------------
\* Before the first call.
LEMMA InitInv == DatabaseInit => CallInv
  BY DEF DatabaseInit, S!Init, CallInv, CallType, OpAt, TxAt, GroupsAt, EffectAt, Before

\* A call begins.
LEMMA QueryInv ==
  ASSUME CallInv, UNCHANGED profile, NEW c \in Call, NEW rows \in 0..MaxLen,
         S!Query(c, rows)
  PROVE  CallInv'
<1>1. CallType'
  BY DEF CallInv, CallType, Before, S!given, S!Query
<1>2. ASSUME NEW d \in Call
      PROVE  (OpAt(d) /\ TxAt(d))'
  BY DEF CallInv, CallType, Before, OpAt, TxAt, S!given, S!Query
<1>3. ASSUME NEW d \in Call
      PROVE  GroupsAt(d)'
  BY DEF CallInv, CallType, Before, OpAt, GroupsAt, S!given, S!Query
<1>4. ASSUME NEW d \in Call
      PROVE  EffectAt(d)'
  BY DEF CallInv, CallType, Before, OpAt, GroupsAt, EffectAt, S!given, S!Query
<1> QED
  BY <1>1, <1>2, <1>3, <1>4 DEF CallInv

\* A call of Exec begins.
LEMMA ExecInv ==
  ASSUME CallInv, UNCHANGED profile, NEW c \in Call, S!Exec(c)
  PROVE  CallInv'
<1>1. CallType'
  BY DEF CallInv, CallType, Before, S!given, S!Exec
<1>2. ASSUME NEW d \in Call
      PROVE  (OpAt(d) /\ TxAt(d))'
  BY DEF CallInv, CallType, Before, OpAt, TxAt, S!given, S!Exec
<1>3. ASSUME NEW d \in Call
      PROVE  GroupsAt(d)'
  BY DEF CallInv, CallType, Before, OpAt, GroupsAt, S!given, S!Exec
<1>4. ASSUME NEW d \in Call
      PROVE  EffectAt(d)'
  BY DEF CallInv, CallType, Before, OpAt, GroupsAt, EffectAt, S!given, S!Exec
<1> QED
  BY <1>1, <1>2, <1>3, <1>4 DEF CallInv

\* A batch begins, or is refused for its number of parameters.
LEMMA ExecPrepareInv ==
  ASSUME CallInv, UNCHANGED profile, NEW c \in Call, 
         NEW l \in 0..MaxLen, NEW paramNum \in 0..2, S!ExecPrepare(c, l, paramNum)
  PROVE  CallInv'
<1>1. CallType'
  <2>1. l \in Nat /\ paramNum \in Nat
    OBVIOUS
  <2>2. pc' = [pc EXCEPT ![c] = pc'[c]] /\ pc'[c] \in {"begin", "returned"}
    BY DEF CallInv, CallType, S!ExecPrepare, S!Return
  <2>3. expired' \in [Call -> BOOLEAN] /\ reply' \in [Call -> {"none", "ok", "error", "panic"}]
    BY DEF CallInv, CallType, S!ExecPrepare, S!Return
  <2>4. len' \in [Call -> Nat] /\ per' \in [Call -> Nat] /\ op' \in [Call -> {"none", "batch", "exec", "query"}]
    BY <2>1 DEF CallInv, CallType, S!ExecPrepare
  <2>5. pc' \in [Call -> Before \cup {"rollback", "returned"}]
    BY <2>2 DEF CallInv, CallType, Before
  <2>6. UNCHANGED <<pos, tx, applied, lost>>
    BY DEF S!ExecPrepare
  <2> QED
    BY <2>3, <2>4, <2>5, <2>6 DEF CallInv, CallType
<1>2. ASSUME NEW d \in Call
      PROVE  (OpAt(d) /\ TxAt(d))'
  BY DEF CallInv, CallType, Before, OpAt, TxAt, S!given, S!ExecPrepare, S!Return
<1>3. ASSUME NEW d \in Call
      PROVE  GroupsAt(d)'
  BY DEF CallInv, CallType, Before, OpAt, GroupsAt, S!given, S!ExecPrepare, S!Return
<1>4. ASSUME NEW d \in Call
      PROVE  EffectAt(d)'
  BY DEF CallInv, CallType, Before, OpAt, GroupsAt, EffectAt, S!given, S!ExecPrepare, S!Return
<1> QED
  BY <1>1, <1>2, <1>3, <1>4 DEF CallInv

\* A context ends.
LEMMA ExpireInv ==
  ASSUME CallInv, UNCHANGED profile, NEW c \in Call, S!Expire(c)
  PROVE  CallInv'
<1>1. CallType'
  BY DEF CallInv, CallType, Before, S!given, S!Expire, S!Active
<1>2. ASSUME NEW d \in Call
      PROVE  (OpAt(d) /\ TxAt(d))'
  BY DEF CallInv, CallType, Before, OpAt, TxAt, S!given, S!Expire, S!Active
<1>3. ASSUME NEW d \in Call
      PROVE  GroupsAt(d)'
  BY DEF CallInv, CallType, Before, OpAt, GroupsAt, S!given, S!Expire, S!Active
<1>4. ASSUME NEW d \in Call
      PROVE  EffectAt(d)'
  BY DEF CallInv, CallType, Before, OpAt, GroupsAt, EffectAt, S!given, S!Expire, S!Active
<1> QED
  BY <1>1, <1>2, <1>3, <1>4 DEF CallInv

\* A call gets a connection.
LEMMA AcquireInv ==
  ASSUME CallInv, UNCHANGED profile, NEW c \in Call, S!Acquire(c)
  PROVE  CallInv'
<1>1. CallType'
  <2>1. op[c] \in {"batch", "exec", "query"}
    BY DEF CallInv, CallType, OpAt, S!Acquire
  <2>2. pc' = [pc EXCEPT ![c] = pc'[c]] /\ pc'[c] \in {"prepare", "exec", "rows"}
    BY <2>1 DEF CallInv, CallType, S!Acquire
  <2> QED
    BY <2>2 DEF CallInv, CallType, Before, S!given, S!Acquire
<1>2. ASSUME NEW d \in Call
      PROVE  (OpAt(d) /\ TxAt(d))'
  BY DEF CallInv, CallType, Before, OpAt, TxAt, S!given, S!Acquire
<1>3. ASSUME NEW d \in Call
      PROVE  GroupsAt(d)'
  BY DEF CallInv, CallType, Before, OpAt, GroupsAt, S!given, S!Acquire
<1>4. ASSUME NEW d \in Call
      PROVE  EffectAt(d)'
  BY DEF CallInv, CallType, Before, OpAt, GroupsAt, EffectAt, S!given, S!Acquire
<1> QED
  BY <1>1, <1>2, <1>3, <1>4 DEF CallInv

\* ... or none.
LEMMA AcquireFailsInv ==
  ASSUME CallInv, UNCHANGED profile, NEW c \in Call, S!AcquireFails(c)
  PROVE  CallInv'
<1>1. CallType'
  BY DEF CallInv, CallType, Before, S!given, S!AcquireFails, S!Return
<1>2. ASSUME NEW d \in Call
      PROVE  (OpAt(d) /\ TxAt(d))'
  BY DEF CallInv, CallType, Before, OpAt, TxAt, S!given, S!AcquireFails, S!Return
<1>3. ASSUME NEW d \in Call
      PROVE  GroupsAt(d)'
  BY DEF CallInv, CallType, Before, OpAt, GroupsAt, S!given, S!AcquireFails, S!Return
<1>4. ASSUME NEW d \in Call
      PROVE  EffectAt(d)'
  BY DEF CallInv, CallType, Before, OpAt, GroupsAt, EffectAt, S!given, S!AcquireFails, S!Return
<1> QED
  BY <1>1, <1>2, <1>3, <1>4 DEF CallInv

\* A batch is prepared.
LEMMA PrepareInv ==
  ASSUME CallInv, UNCHANGED profile, NEW c \in Call, S!Prepare(c)
  PROVE  CallInv'
<1>1. CallType'
  BY DEF CallInv, CallType, Before, S!given, S!Prepare, S!Defer
<1>2. ASSUME NEW d \in Call
      PROVE  (OpAt(d) /\ TxAt(d))'
  BY DEF CallInv, CallType, Before, OpAt, TxAt, S!given, S!Prepare, S!Defer
<1>3. ASSUME NEW d \in Call
      PROVE  GroupsAt(d)'
  BY DEF CallInv, CallType, Before, OpAt, GroupsAt, S!given, S!Prepare, S!Defer
<1>4. ASSUME NEW d \in Call
      PROVE  EffectAt(d)'
  BY DEF CallInv, CallType, Before, OpAt, GroupsAt, EffectAt, S!given, S!Prepare, S!Defer
<1> QED
  BY <1>1, <1>2, <1>3, <1>4 DEF CallInv

\* A group of parameters is executed: pos stays a multiple of per below len.
LEMMA ExecGroupInv ==
  ASSUME CallInv, UNCHANGED profile, NEW c \in Call, S!ExecGroup(c)
  PROVE  CallInv'
<1>1. CallType'
  BY DEF CallInv, CallType, Before, S!given, S!ExecGroup, S!Defer
<1>2. ASSUME NEW d \in Call
      PROVE  (OpAt(d) /\ TxAt(d))'
  BY DEF CallInv, CallType, Before, OpAt, TxAt, S!given, S!ExecGroup, S!Defer
<1>3. ASSUME NEW d \in Call
      PROVE  GroupsAt(d)'
  <2>1. CASE pos' = [pos EXCEPT ![c] = pos[c] + per[c]] /\ UNCHANGED pc
    <3>1. per[c] = 1 \/ (per[c] = 2 /\ len[c] % 2 = 0 /\ pos[c] % 2 = 0)
      BY DEF CallInv, OpAt, GroupsAt, Before, S!ExecGroup
    <3>2. len[c] \in Nat /\ pos[c] \in Nat /\ pos[c] < len[c]
      BY DEF CallInv, CallType, S!ExecGroup
    <3>3. /\ pos[c] + per[c] <= len[c]
          /\ per[c] = 2 => (pos[c] + per[c]) % 2 = 0
      BY <3>1, <3>2
    <3> QED
      BY <2>1, <3>1, <3>3 DEF CallInv, CallType, Before, GroupsAt, S!given, S!ExecGroup
  <2>2. CASE UNCHANGED pos /\ \E how \in {"error", "panic"} : S!Defer(c, how)
    BY <2>2 DEF CallInv, CallType, Before, OpAt, GroupsAt, S!given, S!ExecGroup, S!Defer
  <2> QED
    BY <2>1, <2>2 DEF S!ExecGroup
<1>4. ASSUME NEW d \in Call
      PROVE  EffectAt(d)'
  BY DEF CallInv, CallType, Before, OpAt, GroupsAt, EffectAt, S!given, S!ExecGroup, S!Defer
<1> QED
  BY <1>1, <1>2, <1>3, <1>4 DEF CallInv

\* A commit begins, all groups being executed.
LEMMA CommitInv ==
  ASSUME CallInv, UNCHANGED profile, NEW c \in Call, S!Commit(c)
  PROVE  CallInv'
<1>1. CallType'
  BY DEF CallInv, CallType, Before, S!given, S!Commit, S!Defer
<1>2. ASSUME NEW d \in Call
      PROVE  (OpAt(d) /\ TxAt(d))'
  BY DEF CallInv, CallType, Before, OpAt, TxAt, S!given, S!Commit, S!Defer
<1>3. ASSUME NEW d \in Call
      PROVE  GroupsAt(d)'
  BY DEF CallInv, CallType, Before, OpAt, GroupsAt, S!given, S!Commit, S!Defer
<1>4. ASSUME NEW d \in Call
      PROVE  EffectAt(d)'
  BY DEF CallInv, CallType, Before, OpAt, GroupsAt, EffectAt, S!given, S!Commit, S!Defer
<1> QED
  BY <1>1, <1>2, <1>3, <1>4 DEF CallInv

\* A commit ends.
LEMMA CommittedInv ==
  ASSUME CallInv, UNCHANGED profile, NEW c \in Call, S!Committed(c)
  PROVE  CallInv'
<1>1. CallType'
  BY DEF CallInv, CallType, Before, S!given, S!Committed, S!Defer
<1>2. ASSUME NEW d \in Call
      PROVE  (OpAt(d) /\ TxAt(d))'
  BY DEF CallInv, CallType, Before, OpAt, TxAt, S!given, S!Committed, S!Defer
<1>3. ASSUME NEW d \in Call
      PROVE  GroupsAt(d)'
  BY DEF CallInv, CallType, Before, OpAt, GroupsAt, S!given, S!Committed, S!Defer
<1>4. ASSUME NEW d \in Call
      PROVE  EffectAt(d)'
  BY DEF CallInv, CallType, Before, OpAt, GroupsAt, EffectAt, S!given, S!Committed, S!Defer
<1> QED
  BY <1>1, <1>2, <1>3, <1>4 DEF CallInv

\* The deferred rollback.
LEMMA rollbackCheckInv ==
  ASSUME CallInv, UNCHANGED profile, NEW c \in Call, S!rollbackCheck(c)
  PROVE  CallInv'
<1>1. CallType'
  BY DEF CallInv, CallType, Before, S!given, S!rollbackCheck, S!Return
<1>2. ASSUME NEW d \in Call
      PROVE  (OpAt(d) /\ TxAt(d))'
  BY DEF CallInv, CallType, Before, OpAt, TxAt, S!given, S!rollbackCheck, S!Return
<1>3. ASSUME NEW d \in Call
      PROVE  GroupsAt(d)'
  BY DEF CallInv, CallType, Before, OpAt, GroupsAt, S!given, S!rollbackCheck, S!Return
<1>4. ASSUME NEW d \in Call
      PROVE  EffectAt(d)'
  BY DEF CallInv, CallType, Before, OpAt, GroupsAt, EffectAt, S!given, S!rollbackCheck, S!Return
<1> QED
  BY <1>1, <1>2, <1>3, <1>4 DEF CallInv

\* The rollback of database/sql.
LEMMA DriverInv ==
  ASSUME CallInv, UNCHANGED profile, NEW c \in Call, S!Driver(c)
  PROVE  CallInv'
<1>1. CallType'
  BY DEF CallInv, CallType, Before, S!given, S!Driver, S!AwaitDone, S!RolledBack
<1>2. ASSUME NEW d \in Call
      PROVE  (OpAt(d) /\ TxAt(d))'
  BY DEF CallInv, CallType, Before, OpAt, TxAt, S!given, S!Driver, S!AwaitDone, S!RolledBack
<1>3. ASSUME NEW d \in Call
      PROVE  GroupsAt(d)'
  BY DEF CallInv, CallType, Before, OpAt, GroupsAt, S!given, S!Driver, S!AwaitDone, S!RolledBack
<1>4. ASSUME NEW d \in Call
      PROVE  EffectAt(d)'
  BY DEF CallInv, CallType, Before, OpAt, GroupsAt, EffectAt, S!given, S!Driver, S!AwaitDone, S!RolledBack
<1> QED
  BY <1>1, <1>2, <1>3, <1>4 DEF CallInv

\* Exec returns.
LEMMA ExecDoneInv ==
  ASSUME CallInv, UNCHANGED profile, NEW c \in Call, S!ExecDone(c)
  PROVE  CallInv'
<1>1. CallType'
  BY DEF CallInv, CallType, Before, S!given, S!ExecDone, S!Return
<1>2. ASSUME NEW d \in Call
      PROVE  (OpAt(d) /\ TxAt(d))'
  BY DEF CallInv, CallType, Before, OpAt, TxAt, S!given, S!ExecDone, S!Return
<1>3. ASSUME NEW d \in Call
      PROVE  GroupsAt(d)'
  BY DEF CallInv, CallType, Before, OpAt, GroupsAt, S!given, S!ExecDone, S!Return
<1>4. ASSUME NEW d \in Call
      PROVE  EffectAt(d)'
  BY DEF CallInv, CallType, Before, OpAt, GroupsAt, EffectAt, S!given, S!ExecDone, S!Return
<1> QED
  BY <1>1, <1>2, <1>3, <1>4 DEF CallInv

\* Query scans a row, or returns.
LEMMA RowsInv ==
  ASSUME CallInv, UNCHANGED profile, NEW c \in Call, S!ScanRow(c) \/ S!EndRows(c)
  PROVE  CallInv'
<1>1. CallType'
  <2>1. CASE S!ScanRow(c)
    BY <2>1 DEF CallInv, CallType, Before, S!given, S!ScanRow
  <2>2. CASE S!EndRows(c)
    BY <2>2 DEF CallInv, CallType, Before, S!given, S!EndRows, S!Return
  <2> QED
    BY <2>1, <2>2
<1>2. ASSUME NEW d \in Call
      PROVE  (OpAt(d) /\ TxAt(d))'
  BY DEF CallInv, CallType, Before, OpAt, TxAt, S!given, S!ScanRow, S!EndRows, S!Return
<1>3. ASSUME NEW d \in Call
      PROVE  GroupsAt(d)'
  BY DEF CallInv, CallType, Before, OpAt, GroupsAt, S!given, S!ScanRow, S!EndRows, S!Return
<1>4. ASSUME NEW d \in Call
      PROVE  EffectAt(d)'
  BY DEF CallInv, CallType, Before, OpAt, GroupsAt, EffectAt, S!given, S!ScanRow, S!EndRows, S!Return
<1> QED
  BY <1>1, <1>2, <1>3, <1>4 DEF CallInv

-----------------------------------------------------------------------------
(* The specification *)

\* What is left alone stays as it is.
LEMMA StutterInv ==
  ASSUME CallInv, UNCHANGED <<profile, callVars>>
  PROVE  CallInv'
  BY DEF CallInv, CallType, OpAt, TxAt, GroupsAt, EffectAt, callVars

\* A connector never turns into another.
LEMMA ProfileStays == Next => UNCHANGED profile
<1> SUFFICES ASSUME Next PROVE UNCHANGED profile
  OBVIOUS
<1>1. CASE Open \/ OpenChannel \/ Check \/ Keep \/ KeepChannel \/ Provide
  BY <1>1 DEF Open, OpenChannel, Check, Keep, KeepChannel, Provide
<1>2. CASE BeginStop \/ CloseChannel \/ Close \/ Forget
  BY <1>2 DEF BeginStop, CloseChannel, Close, Forget
<1>3. CASE BeginHealth \/ UseHandle \/ PeerCloses
  BY <1>3 DEF BeginHealth, UseHandle, PeerCloses
<1> QED
  BY <1>1, <1>2, <1>3 DEF Next

\* Each step of a call keeps the invariant.
LEMMA CallStepInv ==
  ASSUME CallInv, UNCHANGED profile, S!Next
  PROVE  CallInv'
<1>1. PICK c \in Call : \/ S!Begin(c) \/ S!Expire(c) \/ S!Step(c) \/ S!Committed(c)
                        \/ S!rollbackCheck(c) \/ S!Driver(c)
  BY DEF S!Next
<1>2. CASE S!Begin(c)
  BY <1>2, QueryInv, ExecInv, ExecPrepareInv DEF S!Begin
<1>3. CASE S!Step(c)
  BY <1>3, AcquireInv, AcquireFailsInv, PrepareInv, ExecGroupInv, CommitInv, ExecDoneInv, RowsInv
  DEF S!Step
<1> QED
  BY <1>1, <1>2, <1>3, ExpireInv, CommittedInv, rollbackCheckInv, DriverInv

\* ... and so does each step of the connector.
LEMMA StepInv == CallInv /\ [DatabaseNext]_<<vars, callVars>> => CallInv'
<1> SUFFICES ASSUME CallInv, [DatabaseNext]_<<vars, callVars>>
             PROVE  CallInv'
  OBVIOUS
<1>1. CASE ConnectorStep
  BY <1>1, ProfileStays, StutterInv DEF ConnectorStep
<1>2. CASE CallStep
  BY <1>2, CallStepInv DEF CallStep, vars
<1>3. CASE UNCHANGED <<vars, callVars>>
  BY <1>3, StutterInv DEF vars
<1> QED
  BY <1>1, <1>2, <1>3 DEF DatabaseNext

\* So the facts about calls hold throughout.
THEOREM Invariant == DatabaseSpec => []CallInv
  BY InitInv, StepInv, PTL DEF DatabaseSpec

\* A connector with callers is a connector: they use nothing but what it provides.
LEMMA DatabaseIsConnector == DatabaseSpec => Spec
<1>1. DatabaseInit => Init
  BY DEF DatabaseInit
<1>2. [DatabaseNext]_<<vars, callVars>> => [Next]_vars
  BY DEF DatabaseNext, ConnectorStep, CallStep
<1> QED
  BY <1>1, <1>2, PTL DEF DatabaseSpec, Spec

\* Type correctness, of the connector and of the calls.
THEOREM TypeCorrect == DatabaseSpec => []TypesOK
<1>1. CallInv => S!TypeOK
  BY DEF CallInv, CallType, GroupsAt, Before, S!TypeOK
<1>2. ConnInv => TypeOK
  BY DEF ConnInv
<1> QED
  BY <1>1, <1>2, Invariant, DatabaseIsConnector, ConnInvariant, PTL DEF TypesOK

\* A caller that is told of an error may try again: nothing has happened, unless
\* the server's answer was lost or the driver knows no insert ids
\* (sql_module.go:372-419).
THEOREM ErrorsUndone == DatabaseSpec => []ErrorMeansUndone
<1>1. CallInv => ErrorMeansUndone
  BY DEF CallInv, EffectAt, ErrorMeansUndone, S!ErrorMeansUndone, S!Returned
<1> QED
  BY <1>1, Invariant, PTL

\* No way out of ExecPrepare leaves its transaction open (sql_module.go:402).
THEOREM TransactionsOver == DatabaseSpec => []TxOver
<1>1. CallInv => TxOver
  BY DEF CallInv, TxAt, TxOver, S!TxOver, S!Returned
<1> QED
  BY <1>1, Invariant, PTL

\* A result without an error has all its rows (sql_module.go:359).
THEOREM ResultsWhole == DatabaseSpec => []QueryWhole
<1>1. CallInv => QueryWhole
  BY DEF CallInv, EffectAt, QueryWhole, S!QueryWhole, S!Returned
<1> QED
  BY <1>1, Invariant, PTL

-----------------------------------------------------------------------------
(* The deadline of a call *)

\* The steps that a call is away from its end once its time has run out.
StepsLeft(c) ==
  CASE pc[c] = "returned" -> 0
    [] pc[c] = "rollback" -> 1
    [] pc[c] = "rows"     -> 1 + (len[c] - pos[c])
    [] OTHER              -> 2

Late(c) == S!Active(c) /\ expired[c]

\* A late call takes no connection, executes nothing more of its batch, and has
\* fewer steps left after each step of its own; its time is not given back.
OnlyEnds(c) ==
  /\ expired'[c]
  /\ S!Holds(c)' => S!Holds(c)
  /\ op'[c] = op[c]
  /\ op[c] = "batch" => pos'[c] = pos[c]
  /\ \/ pc'[c] = pc[c] /\ pos'[c] = pos[c]
     \/ StepsLeft(c)' < StepsLeft(c)

\* What becomes of a late call in its own steps ...
LEMMA LateStep ==
  ASSUME CallInv, NEW c \in Call, Late(c), S!Step(c) \/ S!Committed(c) \/ S!rollbackCheck(c)
  PROVE  OnlyEnds(c)
<1> USE DEF CallInv, CallType, Before, OpAt, TxAt, GroupsAt, S!Active, Late, OnlyEnds, StepsLeft, S!Holds
<1>1. CASE S!Acquire(c) \/ S!AcquireFails(c)
  BY <1>1 DEF S!Acquire, S!AcquireFails, S!Return
<1>2. CASE S!Prepare(c)
  BY <1>2 DEF S!Prepare, S!Defer
<1>3. CASE S!ExecGroup(c)
  BY <1>3 DEF S!ExecGroup, S!Defer
<1>4. CASE S!Commit(c)
  BY <1>4 DEF S!Commit, S!Defer
<1>5. CASE S!Committed(c)
  BY <1>5 DEF S!Committed, S!Defer
<1>6. CASE S!rollbackCheck(c)
  BY <1>6 DEF S!rollbackCheck, S!Return
<1>7. CASE S!ExecDone(c)
  BY <1>7 DEF S!ExecDone, S!Return
<1>8. CASE S!ScanRow(c)
  BY <1>8 DEF S!ScanRow
<1>9. CASE S!EndRows(c)
  BY <1>9 DEF S!EndRows, S!Return
<1> QED
  BY <1>1, <1>2, <1>3, <1>4, <1>5, <1>6, <1>7, <1>8, <1>9 DEF S!Step

\* ... and in those of database/sql.
LEMMA LateDriver ==
  ASSUME CallInv, NEW c \in Call, Late(c), S!Driver(c)
  PROVE  OnlyEnds(c)
  BY DEF CallInv, CallType, S!Driver, S!AwaitDone, S!RolledBack, Late, OnlyEnds, S!Holds

\* The steps of one call leave the others where they are.
LEMMA LateOthers ==
  ASSUME CallInv, NEW c \in Call, NEW d \in Call \ {c}, Late(d),
         \/ S!Begin(c) \/ S!Expire(c) \/ S!Step(c) \/ S!Committed(c)
         \/ S!rollbackCheck(c) \/ S!Driver(c)
  PROVE  OnlyEnds(d)
<1> DEFINE Same == /\ op'[d] = op[d] /\ pc'[d] = pc[d] /\ pos'[d] = pos[d]
                   /\ tx'[d] = tx[d] /\ expired'[d] = expired[d]
<1>1. S!Begin(c) => Same
  BY DEF CallInv, CallType, S!Begin, S!Query, S!Exec, S!ExecPrepare, S!Return
<1>2. S!Step(c) => Same
  BY DEF CallInv, CallType, S!Step, S!Acquire, S!AcquireFails, S!Prepare, S!ExecGroup, S!Commit,
              S!ExecDone, S!ScanRow, S!EndRows, S!Return, S!Defer
<1>3. S!Expire(c) \/ S!Committed(c) \/ S!rollbackCheck(c) \/ S!Driver(c) => Same
  BY DEF CallInv, CallType, S!Expire, S!Committed, S!rollbackCheck, S!Driver, S!AwaitDone,
              S!RolledBack, S!Return, S!Defer
<1>4. Same
  BY <1>1, <1>2, <1>3
<1> QED
  BY <1>4 DEF Late, OnlyEnds, S!Holds

\* The bound behind Bounded (sql_module.go:322, :370, :396): a call whose time
\* has run out is, by whatever the server, the connector and the other calls do,
\* at most two steps of its own away from its end, or one more than its result
\* has rows that are not yet scanned; it neither takes a connection nor executes the
\* next group of its batch.
THEOREM LateCallsEnd ==
  DatabaseSpec => [][\A c \in Call : Late(c) => OnlyEnds(c)]_<<vars, callVars>>
<1>1. ASSUME CallInv, [DatabaseNext]_<<vars, callVars>>, NEW d \in Call, Late(d)
      PROVE  OnlyEnds(d)
  <2>1. CASE UNCHANGED callVars
    BY <1>1, <2>1 DEF callVars, Late, OnlyEnds, S!Holds
  <2>2. CASE CallStep
    <3>1. PICK c \in Call : \/ S!Begin(c) \/ S!Expire(c) \/ S!Step(c) \/ S!Committed(c)
                            \/ S!rollbackCheck(c) \/ S!Driver(c)
      BY <2>2 DEF CallStep, S!Next
    <3>2. CASE c # d
      BY <1>1, <3>1, <3>2, LateOthers
    <3>3. CASE c = d
      <4>1. ~S!Begin(d) /\ ~S!Expire(d)
        BY <1>1 DEF Late, S!Active, S!Begin, S!Query, S!Exec, S!ExecPrepare, S!Expire
      <4> QED
        BY <1>1, <3>1, <3>3, <4>1, LateStep, LateDriver
    <3> QED
      BY <3>2, <3>3
  <2> QED
    BY <1>1, <2>1, <2>2 DEF DatabaseNext, ConnectorStep
<1>2. CallInv /\ [DatabaseNext]_<<vars, callVars>> =>
        [\A c \in Call : Late(c) => OnlyEnds(c)]_<<vars, callVars>>
  BY <1>1
<1> QED
  BY <1>2, Invariant, PTL DEF DatabaseSpec

-----------------------------------------------------------------------------
(* The refinement *)

\* What the abstract specification sees of call c.
Seen(c) == <<S!batchSize[c], S!batchEffect[c], S!batchReply[c]>>

\* Before the first call, no batch is seen.
LEMMA InitImplements == DatabaseInit => S!Abstract!Init
  BY DEF DatabaseInit, S!Init, S!Abstract!Init, S!batchSize, S!batchEffect, S!batchReply, S!Accepted

\* A step that changes what is seen of no call is a stutter.
LEMMA SeenStays ==
  ASSUME \A d \in Call : Seen(d)' = Seen(d)
  PROVE  UNCHANGED S!Abstract!vars
<1>1. \A d \in Call : /\ S!batchSize'[d] = S!batchSize[d]
                      /\ S!batchEffect'[d] = S!batchEffect[d]
                      /\ S!batchReply'[d] = S!batchReply[d]
  BY DEF Seen
<1>2. UNCHANGED S!batchSize
  BY <1>1 DEF S!batchSize
<1>3. UNCHANGED S!batchEffect
  BY <1>1 DEF S!batchEffect
<1>4. UNCHANGED S!batchReply
  BY <1>1 DEF S!batchReply
<1> QED
  BY <1>2, <1>3, <1>4 DEF S!Abstract!vars

\* What is seen of call c changes as in one of the abstract steps.
Moves(c) ==
  /\ S!batchReply[c] = "none"
  /\ \/ /\ S!batchSize[c] = 0 /\ S!batchSize'[c] \in Nat \ {0}
        /\ S!batchEffect'[c] = S!batchEffect[c]
        /\ S!batchReply'[c] = "none"
     \/ /\ S!batchSize'[c] = S!batchSize[c]
        /\ S!batchEffect[c] = 0 /\ S!batchEffect'[c] = S!batchSize[c]
        /\ S!batchReply'[c] \in {"ok", "failed"}
     \/ /\ S!batchSize'[c] = S!batchSize[c]
        /\ S!batchEffect'[c] = S!batchEffect[c]
        /\ S!batchReply'[c] = "failed"

\* Then the abstract specification makes that step, if no other call is seen to change.
LEMMA SeenMoves ==
  ASSUME NEW c \in Call, Moves(c), \A d \in Call \ {c} : Seen(d)' = Seen(d)
  PROVE  S!Abstract!Next
<1>1. \A d \in Call \ {c} : /\ S!batchSize'[d] = S!batchSize[d]
                            /\ S!batchEffect'[d] = S!batchEffect[d]
                            /\ S!batchReply'[d] = S!batchReply[d]
  BY DEF Seen
<1>2. S!batchSize' = [S!batchSize EXCEPT ![c] = S!batchSize'[c]]
  BY <1>1 DEF S!batchSize
<1>3. S!batchEffect' = [S!batchEffect EXCEPT ![c] = S!batchEffect'[c]]
  BY <1>1 DEF S!batchEffect
<1> DEFINE Replies == [Call -> {"none", "ok", "failed"}]
<1>4. S!batchReply \in Replies /\ S!batchReply' \in Replies
  BY DEF S!batchReply
<1>5. S!batchReply' = [S!batchReply EXCEPT ![c] = S!batchReply'[c]]
  BY <1>1, <1>4
<1>6. S!batchSize'[c] = S!batchSize[c] => UNCHANGED S!batchSize
  BY <1>2 DEF S!batchSize
<1>7. S!batchEffect'[c] = S!batchEffect[c] => UNCHANGED S!batchEffect
  BY <1>3 DEF S!batchEffect
<1>8. S!batchReply'[c] = S!batchReply[c] => UNCHANGED S!batchReply
  BY <1>5, <1>4
<1>9. S!Abstract!Submit(c) \/ S!Abstract!Apply(c) \/ S!Abstract!Fail(c)
  BY <1>2, <1>3, <1>5, <1>6, <1>7, <1>8 DEF Moves, S!Abstract!Submit, S!Abstract!Apply, S!Abstract!Fail
<1> QED
  BY <1>9 DEF S!Abstract!Next

\* Only the call that makes a step is seen to change.
LEMMA OthersStay ==
  ASSUME CallInv, NEW c \in Call, S!Begin(c) \/ S!Expire(c) \/ S!Step(c) \/ S!Committed(c)
                        \/ S!rollbackCheck(c) \/ S!Driver(c),
         NEW d \in Call \ {c}
  PROVE  Seen(d)' = Seen(d)
<1> DEFINE Same == /\ op'[d] = op[d] /\ len'[d] = len[d] /\ per'[d] = per[d]
                   /\ applied'[d] = applied[d] /\ reply'[d] = reply[d]
<1>1. S!Begin(c) => Same
  BY DEF CallInv, CallType, S!Begin, S!Query, S!Exec, S!ExecPrepare, S!Return
<1>2. S!Step(c) => Same
  BY DEF CallInv, CallType, S!Step, S!Acquire, S!AcquireFails, S!Prepare, S!ExecGroup, S!Commit,
              S!ExecDone, S!ScanRow, S!EndRows, S!Return, S!Defer
<1>3. S!Expire(c) \/ S!Committed(c) \/ S!rollbackCheck(c) \/ S!Driver(c) => Same
  BY DEF CallInv, CallType, S!Expire, S!Committed, S!rollbackCheck, S!Driver, S!AwaitDone,
              S!RolledBack, S!Return, S!Defer
<1>4. Same
  BY <1>1, <1>2, <1>3
<1> QED
  BY <1>4 DEF Seen, S!batchSize, S!batchEffect, S!batchReply, S!Accepted

\* The steps that callers of batches cannot see.
LEMMA QuietSteps ==
  ASSUME CallInv, NEW c \in Call, 
         \/ S!Exec(c) \/ S!Expire(c) \/ S!Acquire(c) \/ S!ExecDone(c)
         \/ S!ScanRow(c) \/ S!EndRows(c) \/ S!Driver(c) \/ S!rollbackCheck(c)
  PROVE  Seen(c)' = Seen(c)
  BY DEF CallInv, CallType, OpAt, S!Exec, S!Expire, S!Acquire, S!ExecDone, S!ScanRow, S!EndRows, S!Driver,
         S!AwaitDone, S!RolledBack, S!rollbackCheck, S!Return,
         Seen, S!batchSize, S!batchEffect, S!batchReply, S!Accepted

\* ... and a query.
LEMMA QueryQuiet ==
  ASSUME CallInv, NEW c \in Call, NEW rows \in 0..MaxLen, S!Query(c, rows)
  PROVE  Seen(c)' = Seen(c)
  BY DEF CallInv, CallType, OpAt, S!Query,
         Seen, S!batchSize, S!batchEffect, S!batchReply, S!Accepted

\* A batch begins, or is refused at once.
LEMMA SubmitMoves ==
  ASSUME CallInv, NEW c \in Call, NEW l \in 0..MaxLen, NEW paramNum \in 0..2,
         S!ExecPrepare(c, l, paramNum)
  PROVE  Seen(c)' = Seen(c) \/ Moves(c)
  BY DEF CallInv, CallType, OpAt, GroupsAt, EffectAt, Before, S!ExecPrepare, S!Return,
         Moves, Seen, S!batchSize, S!batchEffect, S!batchReply, S!Accepted

\* A batch fails before its commit.
LEMMA FailureMoves ==
  ASSUME CallInv, NEW c \in Call, 
         S!AcquireFails(c) \/ S!Prepare(c) \/ S!ExecGroup(c) \/ S!Commit(c)
  PROVE  Seen(c)' = Seen(c) \/ Moves(c)
  BY DEF CallInv, CallType, OpAt, GroupsAt, EffectAt, Before, S!AcquireFails, S!Prepare, S!ExecGroup, S!Commit, S!Return, S!Defer,
         Moves, Seen, S!batchSize, S!batchEffect, S!batchReply, S!Accepted

\* A commit takes effect, or not.
LEMMA CommitMoves ==
  ASSUME CallInv, NEW c \in Call, S!Committed(c)
  PROVE  Seen(c)' = Seen(c) \/ Moves(c)
  BY DEF CallInv, CallType, OpAt, GroupsAt, EffectAt, Before, S!Committed, S!Defer,
         Moves, Seen, S!batchSize, S!batchEffect, S!batchReply, S!Accepted

-----------------------------------------------------------------------------
\* Each step of a call is an abstract step, or a stutter.
LEMMA CallStepImplements ==
  ASSUME CallInv, S!Next
  PROVE  S!Abstract!Next \/ UNCHANGED S!Abstract!vars
<1>1. PICK c \in Call : \/ S!Begin(c) \/ S!Expire(c) \/ S!Step(c) \/ S!Committed(c)
                        \/ S!rollbackCheck(c) \/ S!Driver(c)
  BY DEF S!Next
<1>2. \A d \in Call \ {c} : Seen(d)' = Seen(d)
  BY <1>1, OthersStay
<1>3. S!Begin(c) => Seen(c)' = Seen(c) \/ Moves(c)
  BY QuietSteps, QueryQuiet, SubmitMoves DEF S!Begin
<1>4. S!Step(c) => Seen(c)' = Seen(c) \/ Moves(c)
  BY QuietSteps, FailureMoves DEF S!Step
<1>5. Seen(c)' = Seen(c) \/ Moves(c)
  BY <1>1, <1>3, <1>4, QuietSteps, CommitMoves
<1> QED
  BY <1>2, <1>5, SeenMoves, SeenStays

\* ... and so is each step of the whole.
LEMMA StepImplements ==
  CallInv /\ [DatabaseNext]_<<vars, callVars>> => [S!Abstract!Next]_(S!Abstract!vars)
<1> SUFFICES ASSUME CallInv, [DatabaseNext]_<<vars, callVars>>
             PROVE  S!Abstract!Next \/ UNCHANGED S!Abstract!vars
  OBVIOUS
<1>1. CASE CallStep
  BY <1>1, CallStepImplements DEF CallStep
<1>2. CASE UNCHANGED callVars
  <2>1. \A d \in Call : Seen(d)' = Seen(d)
    BY <1>2 DEF callVars, Seen, S!batchSize, S!batchEffect, S!batchReply, S!Accepted
  <2> QED
    BY <2>1, SeenStays
<1> QED
  BY <1>1, <1>2 DEF DatabaseNext, ConnectorStep

\* Batches are atomic: each takes effect as a whole or not at all, and has taken
\* effect when it is reported to have succeeded (sql_module.go:387-419).
THEOREM BatchesAtomic == DatabaseSpec => ImplementsAtomicBatches
  BY InitImplements, Invariant, StepImplements, PTL
  DEF DatabaseSpec, ImplementsAtomicBatches, S!ImplementsAtomicBatches, S!Abstract!Spec

-----------------------------------------------------------------------------
(* The conversions of the cells of a result: module Value, at every width *)

\* What is known of the number of a value, by its kind.
LEMMA Shapes ==
  ASSUME NEW N \in SUBSET Int, NEW v \in Values(N)
  PROVE  \/ v.kind \in {"int64", "time"} /\ v.num \in N \cap Int64
         \/ v.kind = "uint64" /\ v.num \in N \cap Uint64
         \/ v.kind \in {"float", "bytes"} /\ v.num \in N
         \/ v.kind = "bytes" /\ v.num = 0
         \/ v.kind = "bool" /\ v.num \in Bool
         \/ v.kind \in {"string", "nil"} /\ v.num = 0
<1>1. CASE v \in [kind : {"int64", "time"}, num : N \cap Int64, text : {""}]
  BY <1>1
<1>2. CASE v \in [kind : {"uint64"}, num : N \cap Uint64, text : {""}]
  BY <1>2
<1>3. CASE v \in [kind : {"float"}, num : N, text : {"", "fraction"}]
  BY <1>3
<1>4. CASE v \in [kind : {"bytes"}, num : N \cap Nat, text : {"number"}]
  BY <1>4
<1>5. CASE v \in [kind : {"bytes"}, num : N, text : {"signed"}]
  BY <1>5
<1>6. CASE v \in [kind : {"bytes"}, num : {0}, text : {"true", "other"}]
  BY <1>6
<1>7. CASE v \in [kind : {"bool"}, num : Bool, text : {""}]
  BY <1>7
<1>8. CASE v \in [kind : {"string", "nil"}, num : {0}, text : {""}]
  BY <1>8
<1> QED
  BY <1>1, <1>2, <1>3, <1>4, <1>5, <1>6, <1>7, <1>8 DEF Values

\* A narrowed number that is in range is unchanged, and every one is in range.
LEMMA NarrowExact ==
  ASSUME Half32 \in Nat \ {0}, NEW i \in Int
  PROVE  ToInt32(i) = i <=> i \in Int32
<1>1. ToInt32(i) \in Int32
  <2>1. (i + Half32) % (2 * Half32) \in 0 .. 2 * Half32 - 1
    OBVIOUS
  <2> QED
    BY <2>1 DEF ToInt32, Int32
<1>2. ASSUME i \in Int32 PROVE ToInt32(i) = i
  <2>1. i + Half32 \in 0 .. 2 * Half32 - 1
    BY <1>2 DEF Int32
  <2>2. (i + Half32) % (2 * Half32) = i + Half32
    BY <2>1
  <2> QED
    BY <2>2 DEF ToInt32
<1> QED
  BY <1>1, <1>2

\* TryInt32 returns the number of an int64 cell exactly if it fits in 32 bits, or
\* whatever Half32 stands for.
THEOREM Int32ExactHolds ==
  ASSUME Half32 \in Nat \ {0}, NEW N \in SUBSET Int
  PROVE  Int32Exact(N)
<1>1. SUFFICES ASSUME NEW v \in Values(N), v.kind = "int64"
               PROVE  TryInt32(v) = {v.num} <=> v.num \in Int32
  BY DEF Int32Exact
<1>2. v.num \in Int
  BY <1>1, Shapes
<1>3. TryInt32(v) = {ToInt32(v.num)}
  BY <1>1 DEF TryInt32, TryInt64
<1> QED
  BY <1>2, <1>3, NarrowExact

\* Integers and bools are true exactly if they are not read as 0.
THEOREM BoolAgreesHolds ==
  ASSUME Half \in Nat \ {0}, NEW N \in SUBSET Int
  PROVE  BoolAgrees(N)
<1>1. SUFFICES ASSUME NEW v \in Values(N), v.kind \in {"int64", "uint64", "bool"}
               PROVE  TryBool(v) <=> TryInt64(v) # {0}
  BY DEF BoolAgrees
<1>2. CASE v.kind \in {"int64", "bool"}
  BY <1>2 DEF TryBool, TryInt64
<1>3. CASE v.kind = "uint64"
  <2>1. v.num \in Uint64
    BY <1>3, Shapes
  <2>2. ToInt64(v.num) = 0 <=> v.num = 0
    BY <2>1 DEF ToInt64, Uint64
  <2> QED
    BY <1>3, <2>2 DEF TryBool, TryInt64
<1> QED
  BY <1>1, <1>2, <1>3
=============================================================================
