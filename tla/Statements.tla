------------------------------ MODULE Statements ------------------------------
(***************************************************************************)
(* db/sql_module.go: Query, Exec and ExecPrepare, called by any number of  *)
(* goroutines on one connection pool, each with a context that ends after  *)
(* its own time.  A member of Call is one call.                            *)
(*                                                                         *)
(* database/sql and the driver are external: a pool of at most MaxOpen     *)
(* connections; a goroutine per transaction that rolls it back when its    *)
(* context ends; statements that fail, panic, take effect without the      *)
(* caller learning of it, or do not answer before their context ends.      *)
(***************************************************************************)
EXTENDS Naturals, FiniteSets

CONSTANTS
  Call,
  MaxLen,               \* bound: parameters of a batch, rows of a result
  MaxOpen               \* MaxOpenConns

VARIABLES
  pool,                 \* the sql.DB: "open" or not (the connector's, see Database)
  insertIds,            \* does the driver know LastInsertId?
  op,                   \* "none", "batch", "exec" or "query"
  pc,                   \* where the call is
  len,                  \* batch: its parameters; query: the rows of its result
  per,                  \* batch: placeholders of the statement (paramNum)
  pos,                  \* batch: parameters executed (i); query: rows scanned
  tx,                   \* "none", "open", "committing", "rolling" (back) or "over"
  applied,              \* parameters that have taken effect in the database
  expired,              \* is the call's context done?
  reply,                \* "none", "ok", "error" or "panic"
  lost                  \* history: it took effect and the answer was lost

given == <<pool, insertIds>>
calls == <<op, pc, len, per, pos, tx, applied, expired, reply, lost>>
vars == <<given, calls>>

Init ==
  /\ op = [c \in Call |-> "none"]
  /\ pc = [c \in Call |-> "idle"]
  /\ len = [c \in Call |-> 0]
  /\ per = [c \in Call |-> 0]
  /\ pos = [c \in Call |-> 0]
  /\ tx = [c \in Call |-> "none"]
  /\ applied = [c \in Call |-> 0]
  /\ expired = [c \in Call |-> FALSE]
  /\ reply = [c \in Call |-> "none"]
  /\ lost = [c \in Call |-> FALSE]

Holds(c) == tx[c] \in {"open", "committing", "rolling"} \/ pc[c] \in {"exec", "rows"}

Free == Cardinality({ c \in Call : Holds(c) }) < MaxOpen

Active(c) == pc[c] \notin {"idle", "returned"}

\* The call returns, which runs its deferred cancel().
Return(c, how) ==
  /\ pc' = [pc EXCEPT ![c] = "returned"]
  /\ reply' = [reply EXCEPT ![c] = how]
  /\ expired' = [expired EXCEPT ![c] = TRUE]

-----------------------------------------------------------------------------
(* The three operations *)

Query(c, rows) ==
  /\ pc[c] = "idle"
  /\ op' = [op EXCEPT ![c] = "query"]
  /\ len' = [len EXCEPT ![c] = rows]
  /\ pc' = [pc EXCEPT ![c] = "begin"]
  /\ UNCHANGED <<given, per, pos, tx, applied, expired, reply, lost>>

Exec(c) ==
  /\ pc[c] = "idle"
  /\ op' = [op EXCEPT ![c] = "exec"]
  /\ len' = [len EXCEPT ![c] = 1]
  /\ pc' = [pc EXCEPT ![c] = "begin"]
  /\ UNCHANGED <<given, per, pos, tx, applied, expired, reply, lost>>

\* (variant: the number of parameters is not checked)
ExecPrepareUnchecked(c, l, paramNum) ==
  /\ pc[c] = "idle"
  /\ op' = [op EXCEPT ![c] = "batch"]
  /\ len' = [len EXCEPT ![c] = l]
  /\ per' = [per EXCEPT ![c] = paramNum]
  /\ pc' = [pc EXCEPT ![c] = "begin"]
  /\ UNCHANGED <<given, pos, tx, applied, expired, reply, lost>>

\* l parameters for a statement with paramNum placeholders: without any, the
\* remainder is a division by zero; with some left over it is an error.
ExecPrepare(c, l, paramNum) ==
  /\ pc[c] = "idle"
  /\ op' = [op EXCEPT ![c] = "batch"]
  /\ len' = [len EXCEPT ![c] = l]
  /\ per' = [per EXCEPT ![c] = paramNum]
  /\ IF paramNum = 0 THEN Return(c, "panic")
     ELSE IF l % paramNum # 0 THEN Return(c, "error")
     ELSE pc' = [pc EXCEPT ![c] = "begin"] /\ UNCHANGED <<expired, reply>>
  /\ UNCHANGED <<given, pos, tx, applied, lost>>

\* (variant: the context has no deadline)
NoDeadline(c) == FALSE /\ UNCHANGED vars

\* The time given to the call runs out.
Expire(c) ==
  /\ Active(c) /\ ~expired[c]
  /\ expired' = [expired EXCEPT ![c] = TRUE]
  /\ UNCHANGED <<given, op, pc, len, per, pos, tx, applied, reply, lost>>

\* BeginTx, ExecContext or QueryContext gets a connection of the pool.
Acquire(c) ==
  /\ pc[c] = "begin"
  /\ pool = "open" /\ Free /\ ~expired[c]
  /\ pc' = [pc EXCEPT ![c] = CASE op[c] = "batch" -> "prepare"
                               [] op[c] = "exec"  -> "exec"
                               [] op[c] = "query" -> "rows"]
  /\ tx' = [tx EXCEPT ![c] = IF op[c] = "batch" THEN "open" ELSE @]
  /\ UNCHANGED <<given, op, len, per, pos, applied, expired, reply, lost>>

\* ... or none: the pool is closed, the server does not answer, or the call's
\* time ran out while it waited.
AcquireFails(c) ==
  /\ pc[c] = "begin"
  /\ Return(c, "error")
  /\ UNCHANGED <<given, op, len, per, pos, tx, applied, lost>>

-----------------------------------------------------------------------------
(* ExecPrepare in its transaction *)

\* Leave the transaction for the deferred rollbackCheck.
Defer(c, how) ==
  /\ pc' = [pc EXCEPT ![c] = "rollback"]
  /\ reply' = [reply EXCEPT ![c] = how]

Prepare(c) ==
  /\ pc[c] = "prepare"
  /\ \/ ~expired[c] /\ tx[c] = "open"
        /\ pc' = [pc EXCEPT ![c] = "batch"] /\ UNCHANGED reply
     \/ Defer(c, "error")
  /\ UNCHANGED <<given, op, len, per, pos, tx, applied, expired, lost>>

\* The statement is executed with the next paramNum parameters, fails, or panics.
ExecGroup(c) ==
  /\ pc[c] = "batch" /\ pos[c] < len[c]
  /\ \/ /\ ~expired[c] /\ tx[c] = "open"
        /\ pos' = [pos EXCEPT ![c] = pos[c] + per[c]]
        /\ UNCHANGED <<pc, reply>>
     \/ \E how \in {"error", "panic"} : Defer(c, how) /\ UNCHANGED pos
  /\ UNCHANGED <<given, op, len, per, tx, applied, expired, lost>>

\* tx.Commit refuses when the context is done or the transaction has been
\* rolled back with it; from here on neither can interfere.
Commit(c) ==
  /\ pc[c] = "batch" /\ pos[c] >= len[c]
  /\ IF expired[c] \/ tx[c] # "open"
       THEN Defer(c, "error") /\ UNCHANGED tx
       ELSE /\ tx' = [tx EXCEPT ![c] = "committing"]
            /\ pc' = [pc EXCEPT ![c] = "commit"]
            /\ UNCHANGED reply
  /\ UNCHANGED <<given, op, len, per, pos, applied, expired, lost>>

\* (variant: the context is looked at once more after the commit)
CommittedLate(c) ==
  /\ pc[c] = "commit"
  /\ tx' = [tx EXCEPT ![c] = "over"]
  /\ \E took, answered \in BOOLEAN :
       /\ applied' = [applied EXCEPT ![c] = IF took THEN pos[c] ELSE 0]
       /\ lost' = [lost EXCEPT ![c] = took /\ ~answered]
       /\ Defer(c, IF took /\ answered /\ ~expired[c] THEN "ok" ELSE "error")
  /\ UNCHANGED <<given, op, len, per, pos, expired>>

\* The driver answers, or the connection breaks after the server committed.
Committed(c) ==
  /\ pc[c] = "commit"
  /\ tx' = [tx EXCEPT ![c] = "over"]
  /\ \E took, answered \in BOOLEAN :
       /\ applied' = [applied EXCEPT ![c] = IF took THEN pos[c] ELSE 0]
       /\ lost' = [lost EXCEPT ![c] = took /\ ~answered]
       /\ Defer(c, IF took /\ answered THEN "ok" ELSE "error")
  /\ UNCHANGED <<given, op, len, per, pos, expired>>

\* (variant: only a panic is rolled back)
rollbackOnPanic(c) ==
  /\ pc[c] = "rollback"
  /\ tx' = [tx EXCEPT ![c] = IF @ = "open" /\ reply[c] = "panic" THEN "over" ELSE @]
  /\ Return(c, reply[c])
  /\ UNCHANGED <<given, op, len, per, pos, applied, lost>>

\* (variant: what has been executed is committed on every way out)
rollbackCommits(c) ==
  /\ pc[c] = "rollback"
  /\ IF tx[c] = "open" THEN applied' = [applied EXCEPT ![c] = pos[c]] ELSE UNCHANGED applied
  /\ tx' = [tx EXCEPT ![c] = IF @ = "open" THEN "over" ELSE @]
  /\ Return(c, reply[c])
  /\ UNCHANGED <<given, op, len, per, pos, lost>>

\* Rolls back unless the transaction is over (sql.ErrTxDone), and panics again
\* after a panic.
rollbackCheck(c) ==
  /\ pc[c] = "rollback"
  /\ tx' = [tx EXCEPT ![c] = IF @ = "open" THEN "over" ELSE @]
  /\ Return(c, reply[c])
  /\ UNCHANGED <<given, op, len, per, pos, applied, lost>>

\* database/sql: a transaction whose context is done is rolled back by a
\* goroutine of its own, which first marks it as done.
AwaitDone(c) ==
  /\ tx[c] = "open" /\ expired[c]
  /\ tx' = [tx EXCEPT ![c] = "rolling"]
  /\ UNCHANGED <<given, op, pc, len, per, pos, applied, expired, reply, lost>>

RolledBack(c) ==
  /\ tx[c] = "rolling"
  /\ tx' = [tx EXCEPT ![c] = "over"]
  /\ UNCHANGED <<given, op, pc, len, per, pos, applied, expired, reply, lost>>

-----------------------------------------------------------------------------
(* Exec and Query *)

\* ExecContext, then RowsAffected and LastInsertId, whose error is returned
\* although the statement took effect.
ExecDone(c) ==
  /\ pc[c] = "exec"
  /\ \E took, answered \in BOOLEAN :
       /\ applied' = [applied EXCEPT ![c] = IF took THEN 1 ELSE 0]
       /\ lost' = [lost EXCEPT ![c] = took /\ ~answered]
       /\ Return(c, IF took /\ answered /\ insertIds THEN "ok" ELSE "error")
  /\ UNCHANGED <<given, op, len, per, pos, tx>>

\* A context that is done need not be noticed at once.
ScanRow(c) ==
  /\ pc[c] = "rows"
  /\ pos[c] < len[c]
  /\ pos' = [pos EXCEPT ![c] = pos[c] + 1]
  /\ UNCHANGED <<given, op, pc, len, per, tx, applied, expired, reply, lost>>

\* (variant: rows.Err is not looked at after the loop)
EndRowsUnchecked(c) ==
  /\ pc[c] = "rows"
  /\ \E failed \in BOOLEAN :
       /\ failed \/ pos[c] = len[c]
       /\ Return(c, "ok")
  /\ UNCHANGED <<given, op, len, per, pos, tx, applied, lost>>

\* A Scan fails, or Next returns false: after the last row, or because the
\* context is done or the connection broke, which rows.Err then reports.
EndRows(c) ==
  /\ pc[c] = "rows"
  /\ \E failed \in BOOLEAN :
       /\ failed \/ pos[c] = len[c]
       /\ Return(c, IF failed THEN "error" ELSE "ok")
  /\ UNCHANGED <<given, op, len, per, pos, tx, applied, lost>>

-----------------------------------------------------------------------------
Begin(c) ==
  \/ \E rows \in 0..MaxLen : Query(c, rows)
  \/ Exec(c)
  \/ \E l \in 0..MaxLen, paramNum \in 0..2 : ExecPrepare(c, l, paramNum)

Step(c) ==
  \/ Acquire(c) \/ AcquireFails(c)
  \/ Prepare(c) \/ ExecGroup(c) \/ Commit(c)
  \/ ExecDone(c)
  \/ ScanRow(c) \/ EndRows(c)

Driver(c) == AwaitDone(c) \/ RolledBack(c)

Next ==
  \E c \in Call : \/ Begin(c)
                  \/ Expire(c)
                  \/ Step(c)
                  \/ Committed(c)
                  \/ rollbackCheck(c)
                  \/ Driver(c)

\* A deadline comes, and whatever was given the context ends with it.  Commit
\* and Rollback of the driver are given none: nothing is assumed of them.
Fairness ==
  \A c \in Call : /\ WF_vars(Expire(c))
                  /\ WF_vars(expired[c] /\ Step(c))

Spec == Init /\ [][Next]_vars

-----------------------------------------------------------------------------
TypeOK ==
  /\ op \in [Call -> {"none", "batch", "exec", "query"}]
  /\ pc \in [Call -> {"idle", "begin", "prepare", "batch", "commit", "rollback",
                      "exec", "rows", "returned"}]
  /\ len \in [Call -> Nat]
  /\ per \in [Call -> Nat]
  /\ pos \in [Call -> Nat]
  /\ \A c \in Call : pos[c] <= len[c]
  /\ tx \in [Call -> {"none", "open", "committing", "rolling", "over"}]
  /\ applied \in [Call -> Nat]
  /\ expired \in [Call -> BOOLEAN]
  /\ reply \in [Call -> {"none", "ok", "error", "panic"}]
  /\ lost \in [Call -> BOOLEAN]

Returned(c) == pc[c] = "returned"

\* Whatever a caller is told to have failed has had no effect, except where the
\* server's answer was lost, or the driver knows no insert ids and Exec reports
\* that as a failure (sql_module.go:380): in particular when the context of a
\* batch ends during its commit.
ErrorMeansUndone ==
  \A c \in Call :
    Returned(c) /\ reply[c] # "ok" /\ applied[c] > 0 =>
      lost[c] \/ (op[c] = "exec" /\ ~insertIds)

\* However ExecPrepare ends, by an error, a panic or its time running out, its
\* transaction is over when it returns, or being rolled back by database/sql
\* because the time ran out first (sql_module.go:402, :421).
TxOver ==
  \A c \in Call : Returned(c) => tx[c] \in {"none", "rolling", "over"}

\* Query returns all rows or an error, never the rows that came before the
\* context ended or the connection broke (sql_module.go:359).
QueryWhole ==
  \A c \in Call : Returned(c) /\ op[c] = "query" /\ reply[c] = "ok" => pos[c] = len[c]

\* By its deadline a call has returned, however the server behaves and although
\* other calls hold every connection, or is at its commit or rollback.
Bounded == \A c \in Call : Active(c) ~> pc[c] \in {"returned", "commit", "rollback"}

\* What the callers of batches see; a batch that is refused has no size.
Accepted(c) == op[c] = "batch" /\ per[c] # 0 /\ len[c] % per[c] = 0
batchSize == [c \in Call |-> IF Accepted(c) THEN len[c] ELSE 0]
batchEffect == [c \in Call |-> IF op[c] = "batch" THEN applied[c] ELSE 0]
batchReply == [c \in Call |-> IF op[c] # "batch" \/ reply[c] = "none" THEN "none"
                              ELSE IF reply[c] = "ok" THEN "ok" ELSE "failed"]

Abstract == INSTANCE AtomicBatches
              WITH size <- batchSize, effect <- batchEffect, reply <- batchReply

\* A batch takes effect as a whole or not at all, whichever of its statements
\* fails or panics and whenever its context ends (sql_module.go:387-419).
ImplementsAtomicBatches == Abstract!Spec
=============================================================================
