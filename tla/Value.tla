-------------------------------- MODULE Value --------------------------------
(***************************************************************************)
(* db/sql_module.go: what a cell of a result holds and what the conversions*)
(* of Value make of it.  A value is [kind, num, text]:                     *)
(*   "int64", "uint64", "time" (its Unix time): num is the number;         *)
(*   "float": num is its integer part, and text "fraction" if there is     *)
(*            more, else "";                                               *)
(*   "bytes": text is "number" (of decimal digits), "signed" (with a sign),*)
(*            "true" or "other", num the number written;                   *)
(*   "bool":  num is 1 for true, 0 for false;                              *)
(*   "string", "nil": what no conversion has a case for.                   *)
(* The widths are constants: Half is 2^63, Half32 is 2^31.                 *)
(***************************************************************************)
EXTENDS Integers

CONSTANTS Half, Half32

Int64 == -Half .. Half - 1
Uint64 == 0 .. 2 * Half - 1
Int32 == -Half32 .. Half32 - 1

\* Go's conversions between the types of one width, and to a narrower one.
ToInt64(u) == IF u < Half THEN u ELSE u - 2 * Half
ToUint64(i) == IF i >= 0 THEN i ELSE i + 2 * Half
ToInt32(i) == ((i + Half32) % (2 * Half32)) - Half32

\* strconv: the nearest number in range comes with the error, which the
\* conversions drop; text that is no number is 0; ParseUint takes no sign.
Clamp(n, lo, hi) == IF n < lo THEN lo ELSE IF n > hi THEN hi ELSE n
ParseInt(v) == IF v.text \in {"number", "signed"} THEN Clamp(v.num, -Half, Half - 1) ELSE 0
ParseUint(v) == IF v.text = "number" THEN Clamp(v.num, 0, 2 * Half - 1) ELSE 0

Bool == {0, 1}

\* The values a cell can hold, of numbers in N.
Values(N) ==
  [kind : {"int64", "time"}, num : N \cap Int64, text : {""}]
    \cup [kind : {"uint64"}, num : N \cap Uint64, text : {""}]
    \cup [kind : {"float"}, num : N, text : {"", "fraction"}]
    \cup [kind : {"bytes"}, num : N \cap Nat, text : {"number"}]
    \cup [kind : {"bytes"}, num : N, text : {"signed"}]
    \cup [kind : {"bytes"}, num : {0}, text : {"true", "other"}]
    \cup [kind : {"bool"}, num : Bool, text : {""}]
    \cup [kind : {"string", "nil"}, num : {0}, text : {""}]

-----------------------------------------------------------------------------
(* The conversions.  The results are sets: what a float that is out of range *)
(* becomes is up to the implementation of Go.                                *)

TryInt64(v) ==
  CASE v.kind \in {"int64", "time", "bool"} -> {v.num}
    [] v.kind = "uint64" -> {ToInt64(v.num)}
    [] v.kind = "float" -> IF v.num \in Int64 THEN {v.num} ELSE Int64
    [] v.kind = "bytes" -> {ParseInt(v)}
    [] OTHER -> {0}

TryUint64(v) ==
  CASE v.kind \in {"uint64", "bool"} -> {v.num}
    [] v.kind \in {"int64", "time"} -> {ToUint64(v.num)}
    [] v.kind = "float" -> IF v.num \in Uint64 THEN {v.num} ELSE Uint64
    [] v.kind = "bytes" -> {ParseUint(v)}
    [] OTHER -> {0}

TryInt32(v) == { ToInt32(i) : i \in TryInt64(v) }

TryBool(v) ==
  CASE v.kind \in {"int64", "uint64", "bool"} -> v.num # 0
    [] v.kind = "float" -> v.num # 0 \/ v.text = "fraction"
    [] v.kind = "bytes" -> v.text = "true" \/ (v.text = "number" /\ v.num = 1)
    [] OTHER -> FALSE

\* String formats everything else that a driver returns.
StringEmpty(v) == v.kind \in {"string", "nil"}

-----------------------------------------------------------------------------
(* Laws, for values of numbers in N *)

\* TryInt32 returns the number of an int64 cell exactly if it fits: a larger one
\* is cut off without a sign of it (sql_module.go:241).
Int32Exact(N) ==
  \A v \in Values(N) : v.kind = "int64" => (TryInt32(v) = {v.num} <=> v.num \in Int32)

\* A cell is true exactly if its number is not 0, for integers and bools; text
\* and fractions are read differently by TryBool and TryInt64.
BoolAgrees(N) ==
  \A v \in Values(N) :
    v.kind \in {"int64", "uint64", "bool"} => (TryBool(v) <=> TryInt64(v) # {0})

\* One negative number is two unsigned ones: as an integer it wraps, as the text
\* that a driver may return in its place it is 0 (sql_module.go:219, :227).
NegativeDiffers(N) ==
  \A v, w \in Values(N) :
    v.kind = "int64" /\ w.kind = "bytes" /\ w.text = "signed" /\ v.num = w.num /\ v.num < 0
      => TryInt64(v) = TryInt64(w) /\ TryUint64(v) # TryUint64(w)

\* A column that the driver returns as a Go string is lost to every conversion:
\* Query keeps it, and no conversion has a case for it (sql_module.go:118, :147).
StringsLost(N) ==
  \A v \in Values(N) :
    v.kind = "string" =>
      StringEmpty(v) /\ TryInt64(v) = {0} /\ TryUint64(v) = {0} /\ ~TryBool(v)
=============================================================================
