----------------------------- MODULE MCDatabase -------------------------------
(***************************************************************************)
(* Database for TLC, and the laws of the conversions of what a query       *)
(* returns, evaluated before the run for integers of four bits.            *)
(***************************************************************************)
EXTENDS Database, Integers

V == INSTANCE Value WITH Half <- 8, Half32 <- 2

Numbers == -20..20

\* The conversions obey each of the laws of module Value (sql_module.go:124-247).
ASSUME ValueLaws ==
  /\ V!Int32Exact(Numbers)
  /\ V!BoolAgrees(Numbers)
  /\ V!NegativeDiffers(-8..8)
  /\ V!StringsLost(Numbers)
=============================================================================
