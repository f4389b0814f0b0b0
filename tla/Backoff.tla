------------------------------ MODULE Backoff ------------------------------
(***************************************************************************)
(* How long the SDK sleeps before it sends a request again (_retry.py).    *)
(*                                                                         *)
(* Time is counted in ticks, Second of them to a second, so that the ten   *)
(* per cent jitter of a half-second backoff is still a whole number.  An   *)
(* optional value of the code (float | None) is a set of at most one       *)
(* element.                                                                *)
(***************************************************************************)
EXTENDS Integers

CONSTANTS
  Second,         \* ticks in a second
  backoff_factor  \* NetskopeConfig.backoff_factor, in ticks

ASSUME SecondAssumption == Second \in Nat \ {0}

\* NetskopeConfig never checks this field; a negative factor would make
\* time.sleep raise, and is left out.
ASSUME BackoffAssumption == backoff_factor \in Nat

(***************************************************************************)
(* A Retry-After header as the server sends it: absent, a number (which    *)
(* float() accepts), or anything else, of which an HTTP date is the one    *)
(* the HTTP standard allows.  "ticks" is the wait that the server means.   *)
(***************************************************************************)
RetryAfterForms == {"absent", "number", "date"}
Absent == [form |-> "absent", ticks |-> 0]

\* float(raw), or None when the header is missing or float() rejects it.
GetRetryAfter(header) ==
  IF header.form = "number" THEN {header.ticks} ELSE {}

AtMost(x, cap) == IF x < cap THEN x ELSE cap

\* A plausible slip: the header is parsed and then not passed on.
SleepDurationDeaf(attempt, retry_after) ==
  {AtMost(backoff_factor * 2^attempt, 60 * Second)}

\* The sleeps random.uniform may give, as a set.
SleepDuration(attempt, retry_after) ==
  IF \E s \in retry_after : s > 0
  THEN {AtMost(s, 300 * Second) : s \in retry_after}
  ELSE LET capped == AtMost(backoff_factor * 2^attempt, 60 * Second)
       IN  {capped + jitter : jitter \in 0 .. (capped \div 10)}

=============================================================================
