------------------------------- MODULE Database -------------------------------
(***************************************************************************)
(* A connector with the callers of what it provides.  The sql.DB that      *)
(* Statements works on is the one the connector opened: callers find it in *)
(* the registry once Start has provided it, keep it, and may be in the     *)
(* middle of a call when Stop closes it.  The other connectors take part   *)
(* without callers.                                                        *)
(***************************************************************************)
EXTENDS Connector, Naturals, FiniteSets

CONSTANTS Call, MaxLen, MaxOpen

ASSUME CallAssumption == IsFiniteSet(Call)
ASSUME MaxLenAssumption == MaxLen \in Nat
ASSUME MaxOpenAssumption == MaxOpen \in Nat \ {0}

VARIABLES op, pc, len, per, pos, tx, applied, expired, reply, lost

callVars == <<op, pc, len, per, pos, tx, applied, expired, reply, lost>>

S == INSTANCE Statements WITH pool <- conn, insertIds <- profile.ids

DatabaseInit == Init /\ S!Init

\* BOUND: callers of one connector of each kind of driver, and while there are
\* calls the connector's only steps are those of one Stop.  Health, and a Stop
\* that fails, touch nothing that a call uses.
WithCallers == {pgsql, sqlite}

NoCalls == \A c \in Call : pc[c] = "idle"

\* The connector does not wait for the calls, nor they for it.
ConnectorStep ==
  /\ Next /\ UNCHANGED callVars
  /\ NoCalls \/ (health' = health /\ closeFailed' = closeFailed /\ stopped = "none")

CallStep ==
  /\ UNCHANGED vars
  /\ provided = "client" /\ profile \in WithCallers
  /\ NoCalls => stop = "idle" /\ health = "idle" /\ stopped = "none"
  /\ S!Next

DatabaseNext == ConnectorStep \/ CallStep

DatabaseSpec ==
  /\ DatabaseInit
  /\ [][DatabaseNext]_<<vars, callVars>>
  /\ S!Fairness

-----------------------------------------------------------------------------
TypesOK == TypeOK /\ S!TypeOK

ErrorMeansUndone == S!ErrorMeansUndone
TxOver == S!TxOver
QueryWhole == S!QueryWhole
Bounded == S!Bounded
ImplementsAtomicBatches == S!ImplementsAtomicBatches
=============================================================================
