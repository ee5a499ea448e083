---------------------------- MODULE ServiceCache ----------------------------
(* ServiceCache (discovery/module.go): one cached service and its expiry.   *)
EXTENDS Integers

\* IsExpired, of an entry refreshed age ago; an interval of 0 is for ever.
IsExpired(age, interval) == interval > 0 /\ age > interval
=============================================================================
