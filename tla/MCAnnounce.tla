------------------------------ MODULE MCAnnounce ------------------------------
(***************************************************************************)
(* Announce for TLC, and the laws of the addresses that are announced,     *)
(* evaluated before the run.                                               *)
(***************************************************************************)
EXTENDS Announce

A == INSTANCE Address

\* Addresses are announced as module Address says (http.go:81-92, module.go:56).
ASSUME AddressLaws == A!AnnouncedDialable /\ A!EnsureDataIdempotent
=============================================================================
