------------------------------ MODULE MCRetry ------------------------------
(* Values for the constants of Retry that a cfg cannot write down.         *)
EXTENDS Retry

\* No header, and one of ten minutes.
LongHeader == {Absent, [form |-> "number", ticks |-> 6000]}

\* Beside these, a header of seven seconds, one that is not positive, and a
\* date two seconds away.
AllHeaders ==
  LongHeader \union
    {[form |-> "number", ticks |-> 70], [form |-> "number", ticks |-> -10],
     [form |-> "date", ticks |-> 20]}

UpToDefaultRetries == -1 .. 3

=============================================================================
