---------------------------- MODULE AtLeastOnce ----------------------------
(***************************************************************************)
(* What a caller may rely on when the SDK retries for it: an at-least-once *)
(* channel.  Up to limit copies of a request are sent; each that gets      *)
(* through is carried out or not, at any time, also after the call has     *)
(* returned.  "ok" is returned only for a request that was carried out.    *)
(***************************************************************************)
EXTENDS Integers

CONSTANT Calls

VARIABLES
  limit,     \* copies of a request that may be sent
  mutating,  \* mutating[c]: does carrying the call out change the server?
  returned,  \* returned[c]: "no", "ok" or "error"
  sent,      \* sent[c]: copies sent, or lost before they left
  inflight,  \* inflight[c]: copies that the server has yet to see
  effects    \* effects[c]: times the call was carried out

vars == <<limit, mutating, returned, sent, inflight, effects>>

Init ==
  /\ limit \in Int
  /\ mutating \in [Calls -> BOOLEAN]
  /\ returned = [c \in Calls |-> "no"]
  /\ sent = [c \in Calls |-> 0]
  /\ inflight = [c \in Calls |-> {}]
  /\ effects = [c \in Calls |-> 0]

\* A copy is sent.  It may be lost at once, and if it was the last the call
\* may return with that.
Send(c) ==
  /\ returned[c] = "no"
  /\ sent[c] < limit
  /\ sent' = [sent EXCEPT ![c] = @ + 1]
  /\ \/ /\ inflight' = [inflight EXCEPT ![c] = @ \union {sent[c]}]
        /\ UNCHANGED returned
     \/ /\ returned' \in {returned, [returned EXCEPT ![c] = "error"]}
        /\ UNCHANGED inflight
  /\ UNCHANGED <<limit, mutating, effects>>

\* A copy arrives and is carried out or turned down.
Arrive(c) ==
  /\ \E i \in inflight[c] : inflight' = [inflight EXCEPT ![c] = @ \ {i}]
  /\ effects' \in {effects} \union
       IF mutating[c] THEN {[effects EXCEPT ![c] = @ + 1]} ELSE {}
  /\ UNCHANGED <<limit, mutating, returned, sent>>

Return(c) ==
  /\ returned[c] = "no"
  /\ \/ /\ mutating[c] => effects[c] > 0
        /\ returned' = [returned EXCEPT ![c] = "ok"]
     \/ returned' = [returned EXCEPT ![c] = "error"]
  /\ UNCHANGED <<limit, mutating, sent, inflight, effects>>

Next == \E c \in Calls : Send(c) \/ Arrive(c) \/ Return(c)

Spec == Init /\ [][Next]_vars

=============================================================================
