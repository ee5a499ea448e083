------------------------------ MODULE Connector ------------------------------
(***************************************************************************)
(* The modules that hold one client of a database or broker (db/ and mq/): *)
(* Start on its own goroutine, Stop on the hook's, which may overlap it    *)
(* (framework/app.go), and Health on any other.  They are variations of    *)
(* one protocol: open the client, check that the server answers, keep the  *)
(* handle, provide it; close the client and forget the handle.  Each       *)
(* module's variation is a profile, transcribed from its Start and Stop;   *)
(* where one deviates from its siblings is what the properties are about.  *)
(***************************************************************************)
EXTENDS Naturals

(***************************************************************************)
(* gorm:     gorm opens the client and asks the server at once; if that    *)
(*           fails it returns the error and leaves the client open         *)
(* checks:   Start asks the server before it keeps the client              *)
(* channel:  Start opens a second resource on the client's connection      *)
(* cleansUp: a failed check closes the client                              *)
(* reports:  Stop returns the error of a failed close, keeping the handle  *)
(* forgets:  Stop clears the handle after closing                          *)
(* sql:      what is provided is a db.DB (module Statements)               *)
(* ids:      its driver knows LastInsertId                                 *)
(***************************************************************************)
mysql == [gorm |-> TRUE, checks |-> TRUE, channel |-> FALSE, cleansUp |-> FALSE,
          reports |-> FALSE, forgets |-> TRUE,
          sql |-> TRUE, ids |-> TRUE]
pgsql == [gorm |-> TRUE, checks |-> TRUE, channel |-> FALSE, cleansUp |-> TRUE,
          reports |-> FALSE, forgets |-> TRUE,
          sql |-> TRUE, ids |-> FALSE]
sqlserver == [gorm |-> TRUE, checks |-> TRUE, channel |-> FALSE, cleansUp |-> TRUE,
              reports |-> FALSE, forgets |-> TRUE,
              sql |-> TRUE, ids |-> FALSE]
sqlite == [gorm |-> FALSE, checks |-> TRUE, channel |-> FALSE, cleansUp |-> TRUE,
           reports |-> TRUE, forgets |-> TRUE,
           sql |-> TRUE, ids |-> TRUE]
redis == [gorm |-> FALSE, checks |-> TRUE, channel |-> FALSE, cleansUp |-> TRUE,
          reports |-> TRUE, forgets |-> TRUE,
          sql |-> FALSE, ids |-> FALSE]
bolt == [gorm |-> FALSE, checks |-> FALSE, channel |-> FALSE, cleansUp |-> TRUE,
         reports |-> TRUE, forgets |-> TRUE,
         sql |-> FALSE, ids |-> FALSE]
mqtt == [gorm |-> FALSE, checks |-> FALSE, channel |-> FALSE, cleansUp |-> TRUE,
         reports |-> FALSE, forgets |-> TRUE,
         sql |-> FALSE, ids |-> FALSE]
\* The check declares the queue and binds its topics.
rabbitmq == [gorm |-> FALSE, checks |-> TRUE, channel |-> TRUE, cleansUp |-> FALSE,
             reports |-> TRUE, forgets |-> FALSE,
             sql |-> FALSE, ids |-> FALSE]

Profiles == {mysql, pgsql, sqlserver, sqlite, redis, bolt, mqtt, rabbitmq}

VARIABLES
  profile,              \* which module this is
  conn,                 \* the client: "none", "open" or "closed"
  chan,                 \* the second resource, likewise
  handle,               \* is the module's field (db, cli, conn and ch) set?
  provided,             \* what the registry has: "none", "client" or "nil"
  start,                \* where Start is: "idle", "channel", "check", "keep", "keepChannel",
                        \* "provide", "ok", "unopened" (not opened, or gorm failed) or "failed"
  stop,                 \* where Stop is: "idle", "channel", "close", "forget"
  stopped,              \* how the last Stop went: "none", "nothing", "ok" or "error"
  health,               \* where Health is: "idle", "use" or "panicked"
  \* history
  closer,               \* who closed the client: "none", "start", "stop" or "peer"
  closeFailed           \* has a Stop failed to close the client?

vars == <<profile, conn, chan, handle, provided, start, stop, stopped, health,
          closer, closeFailed>>

Init ==
  /\ profile \in Profiles
  /\ conn = "none" /\ chan = "none"
  /\ handle = FALSE
  /\ provided = "none"
  /\ start = "idle"
  /\ stop = "idle"
  /\ stopped = "none"
  /\ health = "idle"
  /\ closer = "none"
  /\ closeFailed = FALSE

-----------------------------------------------------------------------------
(* Start *)

Afterwards(step) ==
  start' = CASE step = "open" /\ profile.channel -> "channel"
             [] step \in {"open", "channel"} /\ profile.checks -> "check"
             [] OTHER -> "keep"

\* The client is opened, or Start returns the error.
Open ==
  /\ start = "idle"
  /\ \/ conn' = "open" /\ Afterwards("open")
     \/ start' = "unopened" /\ UNCHANGED conn
     \/ start' = "unopened" /\ profile.gorm /\ conn' = "open"
  /\ UNCHANGED <<profile, chan, handle, provided, stop, stopped, health, closer, closeFailed>>

\* A channel that cannot be opened: the connection is closed.
OpenChannel ==
  /\ start = "channel"
  /\ \/ chan' = "open" /\ Afterwards("channel") /\ UNCHANGED <<conn, closer>>
     \/ conn' = "closed" /\ closer' = "start" /\ start' = "failed" /\ UNCHANGED chan
  /\ UNCHANGED <<profile, handle, provided, stop, stopped, health, closeFailed>>

\* (variant: the error of the check is not returned)
CheckGoesOn ==
  /\ start = "check"
  /\ start' = "keep"
  /\ \/ UNCHANGED <<conn, closer>>
     \/ profile.cleansUp /\ conn' = "closed" /\ closer' = "start"
  /\ UNCHANGED <<profile, chan, handle, provided, stop, stopped, health, closeFailed>>

\* (variant: a failed check leaves the client open in every module)
CheckLeaves ==
  /\ start = "check"
  /\ start' \in {"keep", "failed"}
  /\ UNCHANGED <<profile, conn, chan, handle, provided, stop, stopped, health, closer, closeFailed>>

\* The ping or first query succeeds, or Start returns its error.
Check ==
  /\ start = "check"
  /\ \/ start' = "keep" /\ UNCHANGED <<conn, closer>>
     \/ /\ start' = "failed"
        /\ IF profile.cleansUp
             THEN conn' = "closed" /\ closer' = (IF conn = "open" THEN "start" ELSE closer)
             ELSE UNCHANGED <<conn, closer>>
  /\ UNCHANGED <<profile, chan, handle, provided, stop, stopped, health, closeFailed>>

Keep ==
  /\ start = "keep"
  /\ handle' = TRUE
  /\ start' = IF profile.channel THEN "keepChannel" ELSE "provide"
  /\ UNCHANGED <<profile, conn, chan, provided, stop, stopped, health, closer, closeFailed>>

\* The second resource has a field of its own.
KeepChannel ==
  /\ start = "keepChannel"
  /\ start' = "provide"
  /\ UNCHANGED <<profile, conn, chan, handle, provided, stop, stopped, health, closer, closeFailed>>

\* The field is read again: Stop may have cleared it meanwhile (a data race, so
\* the old value may be seen too).
Provide ==
  /\ start = "provide"
  /\ provided' \in IF handle THEN {"client"} ELSE {"client", "nil"}
  /\ start' = "ok"
  /\ UNCHANGED <<profile, conn, chan, handle, stop, stopped, health, closer, closeFailed>>

-----------------------------------------------------------------------------
(* Stop *)

\* Stop returns at once if there is no handle (Start failed, or is not over).
BeginStop ==
  /\ stop = "idle"
  /\ IF handle
       THEN /\ stop' = IF chan = "open" /\ start # "keepChannel" THEN "channel" ELSE "close"
            /\ stopped' = "none"
       ELSE stopped' = "nothing" /\ UNCHANGED stop
  /\ UNCHANGED <<profile, conn, chan, handle, provided, start, health, closer, closeFailed>>

\* A channel that fails to close ends Stop, the connection left open.
CloseChannel ==
  /\ stop = "channel"
  /\ \/ chan' = "closed" /\ stop' = "close" /\ UNCHANGED stopped
     \/ stop' = "idle" /\ stopped' = "error" /\ chan' \in {chan, "closed"}
  /\ UNCHANGED <<profile, conn, handle, provided, start, health, closer, closeFailed>>

\* A channel ends with its connection.
ByStop ==
  /\ conn' = "closed"
  /\ chan' = IF chan = "open" THEN "closed" ELSE chan
  /\ closer' = IF conn = "open" THEN "stop" ELSE closer

\* (variant: the error of Close is not looked at)
CloseUnreported ==
  /\ stop = "close"
  /\ stop' = "forget"
  /\ \/ ByStop /\ UNCHANGED closeFailed
     \/ conn = "open" /\ closeFailed' = TRUE /\ UNCHANGED <<conn, chan, closer>>
  /\ UNCHANGED <<profile, handle, provided, start, stopped, health>>

\* (variant: the handle is cleared before the error is returned)
CloseForgets ==
  /\ stop = "close"
  /\ \/ ByStop /\ stop' = "forget" /\ UNCHANGED <<stopped, closeFailed, handle>>
     \/ /\ conn = "open"
        /\ closeFailed' = TRUE
        /\ stop' = "idle" /\ stopped' = "error" /\ handle' = FALSE
        /\ UNCHANGED <<conn, chan, closer>>
  /\ UNCHANGED <<profile, provided, start, health>>

\* Close succeeds, or fails and leaves the client as it is; the error is then
\* returned or just logged.  (A connection known to be closed is skipped.)
Close ==
  /\ stop = "close"
  /\ \/ ByStop /\ stop' = "forget" /\ UNCHANGED <<stopped, closeFailed>>
     \/ /\ conn = "open"
        /\ closeFailed' = TRUE
        /\ IF profile.reports THEN stop' = "idle" /\ stopped' = "error"
                              ELSE stop' = "forget" /\ UNCHANGED stopped
        /\ UNCHANGED <<conn, chan, closer>>
  /\ UNCHANGED <<profile, handle, provided, start, health>>

Forget ==
  /\ stop = "forget"
  /\ handle' = (handle /\ ~profile.forgets)
  /\ stop' = "idle"
  /\ stopped' = "ok"
  /\ UNCHANGED <<profile, conn, chan, provided, start, health, closer, closeFailed>>

-----------------------------------------------------------------------------
(* Health, and the other side *)

BeginHealth ==
  /\ health = "idle" /\ handle
  /\ health' = "use"
  /\ UNCHANGED <<profile, conn, chan, handle, provided, start, stop, stopped, closer, closeFailed>>

\* The field is read again: Stop may have cleared it (a data race, so the old
\* value may be seen too).
UseHandle ==
  /\ health = "use"
  /\ health' \in IF handle THEN {"idle"} ELSE {"idle", "panicked"}
  /\ UNCHANGED <<profile, conn, chan, handle, provided, start, stop, stopped, closer, closeFailed>>

\* (variant: the channel outlives its connection)
PeerClosesOne ==
  /\ profile.channel /\ conn = "open" /\ start \in {"ok", "failed"}
  /\ conn' = "closed" /\ closer' = "peer"
  /\ UNCHANGED <<profile, chan, handle, provided, start, stop, stopped, health, closeFailed>>

\* The broker closes the connection, and with it the channel.
PeerCloses ==
  /\ profile.channel /\ conn = "open" /\ start \in {"ok", "failed"}
  /\ conn' = "closed" /\ closer' = "peer"
  /\ chan' = IF chan = "open" THEN "closed" ELSE chan
  /\ UNCHANGED <<profile, handle, provided, start, stop, stopped, health, closeFailed>>

Next ==
  \/ Open \/ OpenChannel \/ Check \/ Keep \/ KeepChannel \/ Provide
  \/ BeginStop \/ CloseChannel \/ Close \/ Forget
  \/ BeginHealth \/ UseHandle
  \/ PeerCloses

Spec == Init /\ [][Next]_vars

-----------------------------------------------------------------------------
\* A channel is open only on an open connection, and Stop works on a handle.
TypeOK ==
  /\ profile \in Profiles
  /\ conn \in {"none", "open", "closed"}
  /\ chan \in {"none", "open", "closed"}
  /\ handle \in BOOLEAN
  /\ provided \in {"none", "client", "nil"}
  /\ start \in {"idle", "channel", "check", "keep", "keepChannel", "provide", "ok",
               "unopened", "failed"}
  /\ stop \in {"idle", "channel", "close", "forget"}
  /\ stopped \in {"none", "nothing", "ok", "error"}
  /\ health \in {"idle", "use", "panicked"}
  /\ closer \in {"none", "start", "stop", "peer"}
  /\ closeFailed \in BOOLEAN
  /\ chan = "open" => profile.channel /\ conn = "open"
  /\ stop # "idle" => handle

\* A client that is open and that no later Stop can reach.
Orphaned == conn = "open" /\ ~handle /\ start \in {"ok", "unopened", "failed"}

\* What it takes to orphan a client, per module: that gorm has opened it and then
\* does not reach the server (mysql.go:114, pgsql.go:117, sqlserver.go:125); that
\* the check of mysql or rabbitmq fails, which return without closing what they
\* opened (mysql.go:137, rabbitmq.go:158, :169), while a failed check of the others
\* closes it; or a failed Close, where the handle is cleared all the same (mysql,
\* pgsql, sqlserver, mqtt).
OrphansExplained ==
  Orphaned =>
    \/ start = "unopened" /\ profile \in {mysql, pgsql, sqlserver}
    \/ start = "failed" /\ profile \in {mysql, rabbitmq}
    \/ closeFailed /\ profile \in {mysql, pgsql, sqlserver, mqtt}

\* A client in the registry has been opened, and is open until Stop or the broker
\* closes it: no module provides one that its own Start closed.  Instead of it,
\* nil is there only where a Stop has cleared the field since (mysql.go:148-149).
ProvidedUsable ==
  /\ provided # "none" => conn # "none" /\ closer # "start"
  /\ provided = "nil" => profile.forgets /\ ~handle /\ stopped # "none"

\* A Stop that found a client and reported no error has closed it, unless it is
\* one of those that only log a failed Close.
StopReleases ==
  stopped = "ok" /\ conn = "open" => closeFailed /\ ~profile.reports

\* A Stop that reports an error leaves the handle, so that Stop can be called
\* again: the failure is not final.
ErrorIsRetryable ==
  [][stopped' = "error" /\ stop # "idle" => handle']_vars
=============================================================================
