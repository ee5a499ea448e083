---------------------------- MODULE AtomicBatches -----------------------------
(***************************************************************************)
(* What ExecPrepare promises the callers of a database: each batch takes   *)
(* effect as a whole or not at all, and one that is reported to have       *)
(* succeeded has taken effect.  A batch reported to have failed may have   *)
(* taken effect all the same, as its answer can be lost.                   *)
(***************************************************************************)
EXTENDS Naturals

CONSTANT Call

VARIABLES
  size,                 \* parameters of each call's batch, 0 before the call
  effect,               \* how many of them the database has taken
  reply                 \* "none", "ok" or "failed"

vars == <<size, effect, reply>>

Init ==
  /\ size = [c \in Call |-> 0]
  /\ effect = [c \in Call |-> 0]
  /\ reply = [c \in Call |-> "none"]

Submit(c) ==
  /\ reply[c] = "none" /\ size[c] = 0
  /\ size'[c] \in Nat \ {0}
  /\ size' = [size EXCEPT ![c] = size'[c]]
  /\ UNCHANGED <<effect, reply>>

\* The batch takes effect; the caller may learn of it in the same step.
Apply(c) ==
  /\ reply[c] = "none" /\ effect[c] = 0
  /\ effect' = [effect EXCEPT ![c] = size[c]]
  /\ reply' = [reply EXCEPT ![c] = "ok"] \/ reply' = [reply EXCEPT ![c] = "failed"]
  /\ UNCHANGED size

Fail(c) ==
  /\ reply[c] = "none"
  /\ reply' = [reply EXCEPT ![c] = "failed"]
  /\ UNCHANGED <<size, effect>>

Next == \E c \in Call : Submit(c) \/ Apply(c) \/ Fail(c)

Spec == Init /\ [][Next]_vars
=============================================================================
