---------------------------- MODULE RetryProofs ----------------------------
(***************************************************************************)
(* Proofs about Retry, for every set of calls, every max_retries and every *)
(* set of statuses and headers that satisfies its assumptions.             *)
(***************************************************************************)
EXTENDS Retry, FiniteSetTheorems, TLAPS

(***************************************************************************)
(* The steps of one call, the environment's on its behalf included.        *)
(***************************************************************************)
Step(c) == Start(c) \/ ClientStep(c) \/ Cancelled(c) \/ CarryOut(c) \/ Decline(c)

-----------------------------------------------------------------------------
(* The operators the loop is built from.                                   *)

\* A sleep is a number of ticks, is never negative, and is as long as a
\* number in the Retry-After header asks for, up to five minutes.
LEMMA SleepDurationBounds ==
  ASSUME NEW a \in Nat, 2^a \in Nat,
         NEW h \in [form : RetryAfterForms, ticks : Int],
         NEW d \in SleepDuration(a, GetRetryAfter(h))
  PROVE  /\ d \in Nat
         /\ h.form = "number" => d >= AtMost(h.ticks, 300 * Second)
<1>. DEFINE capped == AtMost(backoff_factor * 2^a, 60 * Second)
<1>1. /\ 60 * Second \in Nat /\ 300 * Second \in Nat
      /\ backoff_factor * 2^a \in Nat
  BY SecondAssumption, BackoffAssumption
<1>2. capped \in Nat
  BY <1>1 DEF AtMost
<1>3. \A j \in 0 .. (capped \div 10) : j \in Nat
  OBVIOUS
<1>4. CASE \E s \in GetRetryAfter(h) : s > 0
  BY <1>1, <1>4 DEF SleepDuration, GetRetryAfter, AtMost
<1>5. CASE ~ \E s \in GetRetryAfter(h) : s > 0
  <2>1. PICK j \in 0 .. (capped \div 10) : d = capped + j
    BY <1>5 DEF SleepDuration
  <2>2. d \in Nat
    BY <1>2, <1>3, <2>1
  <2>3. h.form = "number" => ~(h.ticks > 0)
    BY <1>5 DEF GetRetryAfter
  <2>4. h.form = "number" => d >= AtMost(h.ticks, 300 * Second)
    BY <1>1, <2>2, <2>3 DEF AtMost
  <2>. QED  BY <2>2, <2>4
<1>. QED  BY <1>4, <1>5

\* Every response is turned into a success or an exception of the hierarchy.
LEMMA RaiseForStatusType ==
  ASSUME NEW r \in Response
  PROVE  RaiseForStatus(r) \in {"ok"} \union APIErrors
BY DEF RaiseForStatus, APIErrors, StatusMap, Response

\* A status that is retried is never a success.
LEMMA RetriedIsNotOk ==
  ASSUME NEW r \in Response,
         ShouldRetry(r)
  PROVE  RaiseForStatus(r) # "ok"
<1>1. ~IsSuccess(r.status)
  BY StatusAssumption DEF ShouldRetry
<1>. QED  BY <1>1 DEF RaiseForStatus, StatusMap

\* The server's answers are responses.
LEMMA ResponsesType ==
  Successes \union Crashes \union Failures \union ErrorPayloads \subseteq Response
<1>1. Successes \subseteq Response
  BY HeaderAssumption DEF Successes, Response, Bodies
<1>2. ErrorPayloads \subseteq Response
  BY HeaderAssumption DEF ErrorPayloads, Response, Bodies
<1>3. Failures \subseteq Response
  BY StatusAssumption DEF Failures, Response, Bodies
<1>4. Crashes \subseteq Failures
  BY DEF Crashes
<1>. QED  BY <1>1, <1>2, <1>3, <1>4

\* What a success, a declined request and a crash look like to raise_for_status.
LEMMA ResponsesMeaning ==
  /\ \A r \in Successes : RaiseForStatus(r) = "ok" /\ r.status < 500
  /\ \A r \in Failures \union ErrorPayloads : RaiseForStatus(r) # "ok"
<1>1. \A r \in Successes : RaiseForStatus(r) = "ok" /\ r.status < 500
  BY DEF Successes, RaiseForStatus, IsSuccess
<1>2. \A r \in ErrorPayloads : RaiseForStatus(r) # "ok"
  BY DEF ErrorPayloads, RaiseForStatus, IsSuccess
<1>3. \A r \in Failures : ~IsSuccess(r.status)
  BY StatusAssumption DEF Failures
<1>4. \A r \in Failures : RaiseForStatus(r) # "ok"
  BY <1>3 DEF RaiseForStatus, StatusMap
<1>. QED  BY <1>1, <1>2, <1>4

-----------------------------------------------------------------------------
(* Type correctness.                                                       *)

\* The loop never leaves -1 .. max_retries: needed for the arithmetic of the
\* backoff, whose powers of two are natural numbers only for those attempts.
LoopInv(c) ==
  /\ pc[c] = "idle" => attempt[c] = -1
  /\ pc[c] \in {"sending", "awaiting", "sleeping"} => attempt[c] \in 0 .. max_retries
  /\ pc[c] = "sleeping" => attempt[c] < max_retries
  /\ pc[c] = "done" => \/ attempt[c] = -1 /\ max_retries < 0
                       \/ attempt[c] \in 0 .. max_retries
  /\ outcome[c] = "none" <=> pc[c] # "done"

TypeInv == TypeOK /\ \A c \in Calls : LoopInv(c)

LEMMA OutcomeType ==
  ASSUME NEW c \in Calls, NEW r \in Response
  PROVE  Outcome(c, r) \in Outcomes \ {"none"}
BY RaiseForStatusType DEF Outcome, Outcomes, NetskopeErrors, APIErrors

\* Leaving the loop and sleeping keep the types of the client's variables.
LEMMA FinishType ==
  ASSUME TypeOK, NEW c \in Calls, NEW e \in Outcomes, Finish(c, e)
  PROVE  /\ pc' \in [Calls -> {"idle", "sending", "awaiting", "sleeping", "done"}]
         /\ attempt' \in [Calls -> Int]
         /\ delay' \in [Calls -> Int]
         /\ asked' \in [Calls -> RetryAfters]
         /\ outcome' \in [Calls -> Outcomes]
BY HeaderAssumption DEF TypeOK, Finish

LEMMA SleepType ==
  ASSUME TypeOK, NEW c \in Calls, NEW h \in RetryAfters, Sleep(c, h),
         attempt[c] \in 0 .. max_retries
  PROVE  /\ pc' \in [Calls -> {"idle", "sending", "awaiting", "sleeping", "done"}]
         /\ attempt' \in [Calls -> Int]
         /\ delay' \in [Calls -> Int]
         /\ asked' \in [Calls -> RetryAfters]
         /\ outcome' \in [Calls -> Outcomes]
         /\ h.form = "number" => delay'[c] >= AtMost(h.ticks, 300 * Second)
<1>1. attempt[c] \in Nat /\ 2^attempt[c] \in Nat
  BY PowerAssumption, BudgetAssumption DEF TypeOK
<1>2. h \in [form : RetryAfterForms, ticks : Int]
  BY HeaderAssumption
<1>3. PICK d \in SleepDuration(attempt[c], GetRetryAfter(h)) :
        delay' = [delay EXCEPT ![c] = d]
  BY DEF Sleep
<1>4. d \in Nat /\ (h.form = "number" => d >= AtMost(h.ticks, 300 * Second))
  BY <1>1, <1>2, SleepDurationBounds
<1>. QED  BY <1>3, <1>4 DEF TypeOK, Sleep

\* A processed request leaves the wire; its answer is delivered or dropped.
LEMMA RespondType ==
  ASSUME TypeOK, NEW c \in Calls, NEW a \in wire[c], NEW R \in SUBSET Response, Respond(c, a, R)
  PROVE  wire' \in [Calls -> SUBSET Int] /\ reply' \in [Calls -> SUBSET Response]
<1>1. UNCHANGED reply \/ \E r \in R : reply' = [reply EXCEPT ![c] = {r}]
  BY DEF Respond
<1>2. reply' \in [Calls -> SUBSET Response]
  BY <1>1 DEF TypeOK
<1>. QED  BY <1>2 DEF Respond, TypeOK

LEMMA TypeInit == Init => TypeInv
BY HeaderAssumption DEF Init, TypeInv, TypeOK, LoopInv, Kinds, Outcomes

LEMMA TypeStep == TypeInv /\ [Next]_vars => TypeInv'
<1>. SUFFICES ASSUME TypeInv, [Next]_vars PROVE TypeInv'
  OBVIOUS
<1>. USE DEF TypeInv
<1>1. ASSUME NEW c \in Calls, Start(c) PROVE TypeInv'
  <2>1. CASE max_retries + 1 > 0
    BY <1>1, <2>1, BudgetAssumption DEF Start, TypeOK, LoopInv, server, history
  <2>2. CASE ~(max_retries + 1 > 0)
    <3>1. Finish(c, "RuntimeError") /\ UNCHANGED <<max_retries, kind, server, history>>
      BY <1>1, <2>2 DEF Start
    <3>2. TypeOK'
      BY <3>1, FinishType DEF TypeOK, Outcomes, server, history
    <3>. QED  BY <1>1, <2>2, <3>1, <3>2, BudgetAssumption DEF Start, Finish, TypeOK, LoopInv
  <2>. QED  BY <2>1, <2>2
<1>2. ASSUME NEW c \in Calls, Send(c) PROVE TypeInv'
  BY <1>2 DEF Send, TypeOK, LoopInv, history
<1>3. ASSUME NEW c \in Calls, Unreachable(c) PROVE TypeInv'
  <2>1. attempt[c] \in 0 .. max_retries
    BY <1>3 DEF Unreachable, LoopInv
  <2>2. TypeOK'
    BY <1>3, <2>1, FinishType, SleepType, HeaderAssumption
       DEF Unreachable, TypeOK, Outcomes, NetskopeErrors, server, history
  <2>3. \A d \in Calls : LoopInv(d)'
    BY <1>3, <2>1, BudgetAssumption
       DEF Unreachable, TypeOK, LoopInv, LastAttempt, Finish, Sleep
  <2>. QED  BY <2>2, <2>3
<1>4. ASSUME NEW c \in Calls, ConnectTimesOut(c) PROVE TypeInv'
  <2>1. TypeOK'
    BY <1>4, FinishType DEF ConnectTimesOut, TypeOK, Outcomes, server, history
  <2>2. \A d \in Calls : LoopInv(d)'
    BY <1>4 DEF ConnectTimesOut, TypeOK, LoopInv, Finish
  <2>. QED  BY <2>1, <2>2
<1>5. ASSUME NEW c \in Calls, TimesOut(c) PROVE TypeInv'
  <2>1. attempt[c] \in 0 .. max_retries
    BY <1>5 DEF TimesOut, LoopInv
  <2>2. TypeOK'
    BY <1>5, <2>1, FinishType, SleepType, HeaderAssumption
       DEF TimesOut, TypeOK, Outcomes, NetskopeErrors, GiveUp
  <2>3. \A d \in Calls : LoopInv(d)'
    BY <1>5, <2>1, BudgetAssumption
       DEF TimesOut, TypeOK, LoopInv, LastAttempt, Finish, Sleep
  <2>. QED  BY <2>2, <2>3
<1>6. ASSUME NEW c \in Calls, ConnectionBreaks(c) PROVE TypeInv'
  <2>1. TypeOK'
    BY <1>6, FinishType DEF ConnectionBreaks, TypeOK, Outcomes, GiveUp
  <2>2. \A d \in Calls : LoopInv(d)'
    BY <1>6 DEF ConnectionBreaks, TypeOK, LoopInv, Finish
  <2>. QED  BY <2>1, <2>2
<1>7. ASSUME NEW c \in Calls, Answered(c) PROVE TypeInv'
  <2>1. attempt[c] \in 0 .. max_retries
    BY <1>7 DEF Answered, LoopInv
  <2>2. PICK r \in reply[c] :
          /\ IF ~ShouldRetry(r) \/ LastAttempt(c)
             THEN Finish(c, Outcome(c, r)) ELSE Sleep(c, r.retry_after)
          /\ failed' = [failed EXCEPT ![c] = @ \/ r.status >= 500]
    BY <1>7 DEF Answered
  <2>3. r \in Response /\ r.retry_after \in RetryAfters /\ r.status \in Int
    BY <2>2 DEF TypeOK, Response
  <2>4. Outcome(c, r) \in Outcomes \ {"none"}
    BY <2>3, OutcomeType
  <2>5. failed' \in [Calls -> BOOLEAN]
    BY <2>2 DEF TypeOK
  <2>6. TypeOK'
    BY <1>7, <2>1, <2>2, <2>3, <2>4, <2>5, FinishType, SleepType DEF Answered, TypeOK
  <2>7. \A d \in Calls : LoopInv(d)'
    BY <1>7, <2>1, <2>2, <2>4, BudgetAssumption
       DEF Answered, TypeOK, LoopInv, LastAttempt, Finish, Sleep
  <2>. QED  BY <2>6, <2>7
<1>8. ASSUME NEW c \in Calls, Wake(c) PROVE TypeInv'
  <2>1. attempt[c] \in 0 .. max_retries /\ attempt[c] < max_retries
    BY <1>8 DEF Wake, LoopInv
  <2>2. TypeOK'
    BY <1>8, HeaderAssumption DEF Wake, TypeOK, server, history
  <2>3. \A d \in Calls : LoopInv(d)'
    BY <1>8, <2>1, BudgetAssumption DEF Wake, TypeOK, LoopInv
  <2>. QED  BY <2>2, <2>3
<1>9. ASSUME NEW c \in Calls, Cancelled(c) PROVE TypeInv'
  <2>1. TypeOK'
    BY <1>9, FinishType DEF Cancelled, TypeOK, Outcomes, GiveUp
  <2>2. \A d \in Calls : LoopInv(d)'
    BY <1>9 DEF Cancelled, TypeOK, LoopInv, Finish
  <2>. QED  BY <2>1, <2>2
<1>10. ASSUME NEW c \in Calls, CarryOut(c) \/ Decline(c) PROVE TypeInv'
  <2>1. /\ UNCHANGED <<max_retries, kind, client, history>>
        /\ \E a \in wire[c] :
             Respond(c, a, Successes \union Crashes \union Failures \union ErrorPayloads)
    BY <1>10 DEF CarryOut, Decline, Respond
  <2>2. wire' \in [Calls -> SUBSET Int] /\ reply' \in [Calls -> SUBSET Response]
    BY <2>1, ResponsesType, RespondType
  <2>3. entity' \in BOOLEAN
    BY <1>10 DEF CarryOut, Decline, TypeOK
  <2>4. effects' \in [Calls -> Nat]
    <3>1. effects' = effects \/ effects' = [effects EXCEPT ![c] = IF Mutates(c) THEN @ + 1 ELSE @]
      BY <1>10 DEF CarryOut, Decline
    <3>. QED  BY <3>1 DEF TypeOK
  <2>. QED  BY <2>1, <2>2, <2>3, <2>4 DEF TypeOK, LoopInv, client, history
<1>11. CASE UNCHANGED vars
  BY <1>11 DEF vars, client, server, history, TypeOK, LoopInv
<1>. QED
  BY <1>1, <1>2, <1>3, <1>4, <1>5, <1>6, <1>7, <1>8, <1>9, <1>10, <1>11
     DEF Next, ClientStep, Quiet

\* Every variable keeps its type, and the loop its bounds, for any number of
\* calls and any max_retries, a negative one included.
THEOREM TypeCorrect == Spec => []TypeOK
<1>1. TypeInv => TypeOK
  BY DEF TypeInv
<1>. QED  BY <1>1, TypeInit, TypeStep, PTL DEF Spec

-----------------------------------------------------------------------------
(***************************************************************************)
(* The inductive invariant of one call.  Each property of Retry speaks of  *)
(* finished calls; the invariant says what they rest on while the call is  *)
(* under way: which copies are on the wire, and what the answer on its way *)
(* back means for the number of times the call was carried out.            *)
(***************************************************************************)

\* Copies on the wire are copies of attempts begun, each at most once, and
\* every execution used one up.
WireInv(c) ==
  /\ wire[c] \subseteq 0 .. Sent[c] - 1
  /\ IsFiniteSet(wire[c])
  /\ effects[c] + Cardinality(wire[c]) <= Sent[c]
  /\ reply[c] # {} => pc[c] = "awaiting" /\ attempt[c] \notin wire[c]

\* A successful answer, on its way or returned, tells of an execution.
AnswerInv(c) ==
  /\ \A r \in reply[c] : RaiseForStatus(r) = "ok" /\ Mutates(c) => effects[c] > 0
  /\ outcome[c] = "ok" /\ Mutates(c) => effects[c] > 0

\* As long as no attempt was given up, only the attempt being awaited can be on
\* the wire; and as long as none was answered by a 5xx either, the executions
\* are known from the answers.
SettledInv(c) ==
  ~lost[c] => wire[c] = IF pc[c] = "awaiting" /\ reply[c] = {} THEN {attempt[c]} ELSE {}

ExactInv(c) ==
  ~lost[c] /\ ~failed[c] =>
    /\ pc[c] \in {"idle", "sending", "sleeping"} => effects[c] = 0
    /\ pc[c] = "awaiting" /\ reply[c] = {} => effects[c] = 0
    /\ \A r \in reply[c] : r.status < 500 =>
         effects[c] = IF RaiseForStatus(r) = "ok" /\ Mutates(c) THEN 1 ELSE 0
    /\ outcome[c] = "ok" => effects[c] = IF Mutates(c) THEN 1 ELSE 0
    /\ outcome[c] \in APIErrors => effects[c] = 0

\* Nothing is lost or failed before the first answer, nor by a success.
FirstInv(c) ==
  attempt[c] <= 0 /\ (pc[c] \in {"idle", "sending", "awaiting"} \/ outcome[c] = "ok")
    => ~lost[c] /\ ~failed[c]

\* An attempt whose transient failure is reported was the last.
SpentInv(c) ==
  \/ outcome[c] \in {"ConnectionError", "TimeoutError"}
  \/ outcome[c] = "RateLimitError" /\ 429 \in retry_on_status
  => attempt[c] = max_retries

\* The sleep in progress is as long as the header asked for.
HeaderInv(c) ==
  pc[c] = "sleeping" /\ asked[c].form = "number" =>
    delay[c] >= AtMost(asked[c].ticks, 300 * Second)

CallInv(c) ==
  WireInv(c) /\ AnswerInv(c) /\ SettledInv(c) /\ ExactInv(c) /\ FirstInv(c)
    /\ SpentInv(c) /\ HeaderInv(c)

IInv == TypeInv /\ \A c \in Calls : CallInv(c)

\* A step of one call leaves what belongs to the others alone.
Untouched(d) ==
  /\ pc'[d] = pc[d] /\ attempt'[d] = attempt[d] /\ delay'[d] = delay[d]
  /\ asked'[d] = asked[d] /\ reply'[d] = reply[d] /\ outcome'[d] = outcome[d]
  /\ wire'[d] = wire[d] /\ effects'[d] = effects[d]
  /\ lost'[d] = lost[d] /\ failed'[d] = failed[d]

LEMMA Frame ==
  ASSUME TypeInv, NEW c \in Calls, NEW d \in Calls, c # d, Step(c)
  PROVE  Untouched(d)
<1>. USE DEF TypeInv, TypeOK, Untouched, client, server, history, GiveUp
<1>1. CASE Start(c)
  BY <1>1 DEF Start, Finish
<1>2. CASE Send(c)
  BY <1>2 DEF Send
<1>3. CASE Unreachable(c) \/ ConnectTimesOut(c)
  BY <1>3 DEF Unreachable, ConnectTimesOut, Finish, Sleep
<1>4. CASE TimesOut(c) \/ ConnectionBreaks(c)
  BY <1>4 DEF TimesOut, ConnectionBreaks, Finish, Sleep
<1>5. CASE Answered(c)
  BY <1>5 DEF Answered, Finish, Sleep
<1>6. CASE Wake(c) \/ Cancelled(c)
  BY <1>6 DEF Wake, Cancelled, Finish
<1>7. CASE CarryOut(c) \/ Decline(c)
  <2>1. UNCHANGED <<client, history>> /\ \E a \in wire[c] : \E R : Respond(c, a, R)
    BY <1>7 DEF CarryOut, Decline
  <2>2. wire'[d] = wire[d] /\ reply'[d] = reply[d]
    BY <2>1 DEF Respond
  <2>3. effects'[d] = effects[d]
    BY <1>7 DEF CarryOut, Decline
  <2>. QED  BY <2>1, <2>2, <2>3
<1>. QED  BY <1>1, <1>2, <1>3, <1>4, <1>5, <1>6, <1>7 DEF Step, ClientStep

\* The configuration and what a call asks for never change.
LEMMA Immutable ==
  ASSUME NEW c \in Calls, Step(c)
  PROVE  max_retries' = max_retries /\ kind' = kind
BY DEF Step, ClientStep, Start, Send, Unreachable, ConnectTimesOut, TimesOut,
       ConnectionBreaks, Answered, Wake, Cancelled, CarryOut, Decline

LEMMA UntouchedKeeps ==
  ASSUME NEW d \in Calls, CallInv(d), Untouched(d), max_retries' = max_retries, kind' = kind
  PROVE  CallInv(d)'
<1>. USE DEF Untouched
<1>1. Sent'[d] = Sent[d] /\ (Mutates(d)' <=> Mutates(d))
  BY DEF Sent, Mutates
<1>. QED  BY <1>1 DEF CallInv, WireInv, AnswerInv, SettledInv, ExactInv, FirstInv,
                      SpentInv, HeaderInv

-----------------------------------------------------------------------------
(* The steps of the client.                                                *)

LEMMA StartStep ==
  ASSUME IInv, NEW c \in Calls, Start(c) PROVE CallInv(c)'
<1>. USE DEF IInv, TypeInv, TypeOK, LoopInv, CallInv, Start, Finish, server, history
<1>1. max_retries' = max_retries /\ kind' = kind /\ Mutates(c)' = Mutates(c)
  BY DEF Mutates
<1>2. Sent[c] = 0 /\ Sent'[c] = 0
  BY DEF Sent
<1>3. WireInv(c)'
  BY <1>2 DEF WireInv
<1>4. AnswerInv(c)' /\ SettledInv(c)' /\ ExactInv(c)'
  BY <1>1 DEF AnswerInv, SettledInv, ExactInv, APIErrors
<1>5. FirstInv(c)' /\ SpentInv(c)' /\ HeaderInv(c)'
  BY <1>1 DEF FirstInv, SpentInv, HeaderInv
<1>. QED  BY <1>3, <1>4, <1>5

LEMMA SendStep ==
  ASSUME IInv, NEW c \in Calls, Send(c) PROVE CallInv(c)'
<1>. USE DEF IInv, TypeInv, TypeOK, LoopInv, CallInv, Send, history
<1>1. max_retries' = max_retries /\ kind' = kind /\ Mutates(c)' = Mutates(c)
  BY DEF Mutates
<1>2. Sent[c] = attempt[c] /\ Sent'[c] = attempt[c] + 1 /\ attempt[c] \in Nat
  BY BudgetAssumption DEF Sent
<1>3. attempt[c] \notin wire[c] /\ reply[c] = {}
  BY <1>2 DEF WireInv
<1>4. IsFiniteSet(wire'[c]) /\ Cardinality(wire'[c]) = Cardinality(wire[c]) + 1
  BY <1>3, FS_AddElement DEF WireInv
<1>5. Cardinality(wire[c]) \in Nat
  BY FS_CardinalityType DEF WireInv
<1>6. WireInv(c)'
  BY <1>2, <1>3, <1>4, <1>5 DEF WireInv
<1>7. AnswerInv(c)' /\ SettledInv(c)' /\ ExactInv(c)'
  BY <1>1, <1>3 DEF AnswerInv, SettledInv, ExactInv, APIErrors
<1>8. FirstInv(c)' /\ SpentInv(c)' /\ HeaderInv(c)'
  BY <1>1 DEF FirstInv, SpentInv, HeaderInv
<1>. QED  BY <1>6, <1>7, <1>8

\* A step that puts nothing on the wire keeps WireInv.
LEMMA WireKept ==
  ASSUME TypeOK, NEW c \in Calls, WireInv(c), Sent[c] \in Int,
         Sent'[c] \in {Sent[c], Sent[c] + 1},
         wire'[c] = wire[c], effects'[c] = effects[c], reply'[c] = {}
  PROVE  WireInv(c)'
<1>1. Cardinality(wire[c]) \in Nat /\ effects[c] \in Nat
  BY FS_CardinalityType DEF WireInv, TypeOK
<1>2. wire[c] \subseteq 0 .. Sent'[c] - 1
  BY DEF WireInv
<1>. QED  BY <1>1, <1>2 DEF WireInv

\* Nothing is on its way back to a call that is not awaiting.
LEMMA UnsentStep ==
  ASSUME IInv, NEW c \in Calls, Unreachable(c) \/ ConnectTimesOut(c) PROVE CallInv(c)'
<1>. USE DEF IInv, TypeInv, TypeOK, LoopInv, CallInv
<1>1. /\ pc[c] = "sending" /\ pc'[c] \in {"sleeping", "done"}
      /\ attempt' = attempt /\ max_retries' = max_retries /\ kind' = kind
      /\ outcome'[c] \in {"none", "ConnectionError", "TransportError"}
      /\ UNCHANGED <<wire, effects, reply, lost, failed>>
  BY DEF Unreachable, ConnectTimesOut, Finish, Sleep, server, history
<1>2. Mutates(c)' = Mutates(c)
  BY <1>1 DEF Mutates
<1>3. Sent[c] = attempt[c] /\ Sent'[c] = attempt[c] + 1 /\ attempt[c] \in Nat
  BY <1>1, BudgetAssumption DEF Sent
<1>4. WireInv(c)'
  BY <1>1, <1>3, WireKept DEF WireInv
<1>5. AnswerInv(c)' /\ SettledInv(c)' /\ ExactInv(c)' /\ FirstInv(c)'
  BY <1>1, <1>2 DEF AnswerInv, SettledInv, ExactInv, FirstInv, WireInv, APIErrors
<1>6. SpentInv(c)'
  BY <1>1, BudgetAssumption
     DEF SpentInv, Unreachable, ConnectTimesOut, Finish, Sleep, LastAttempt
<1>7. HeaderInv(c)'
  <2>1. pc'[c] = "sleeping" => asked'[c] = Absent
    BY DEF Unreachable, ConnectTimesOut, Finish, Sleep
  <2>. QED  BY <2>1 DEF HeaderInv, Absent
<1>. QED  BY <1>4, <1>5, <1>6, <1>7

LEMMA GivenUpStep ==
  ASSUME IInv, NEW c \in Calls, TimesOut(c) \/ ConnectionBreaks(c) PROVE CallInv(c)'
<1>. USE DEF IInv, TypeInv, TypeOK, LoopInv, CallInv
<1>1. /\ pc[c] = "awaiting" /\ pc'[c] \in {"sleeping", "done"}
      /\ attempt' = attempt /\ max_retries' = max_retries /\ kind' = kind
      /\ outcome'[c] \in {"none", "TimeoutError", "TransportError"}
      /\ reply'[c] = {} /\ lost'[c]
      /\ UNCHANGED <<wire, effects, failed>>
  BY DEF TimesOut, ConnectionBreaks, Finish, Sleep, GiveUp
<1>2. Sent[c] = attempt[c] + 1 /\ Sent'[c] = attempt[c] + 1 /\ attempt[c] \in Nat
  BY <1>1, BudgetAssumption DEF Sent
<1>3. WireInv(c)'
  BY <1>1, <1>2, WireKept
<1>4. AnswerInv(c)' /\ SettledInv(c)' /\ ExactInv(c)' /\ FirstInv(c)'
  BY <1>1 DEF AnswerInv, SettledInv, ExactInv, FirstInv
<1>5. SpentInv(c)'
  BY <1>1, BudgetAssumption
     DEF SpentInv, TimesOut, ConnectionBreaks, Finish, Sleep, LastAttempt
<1>6. HeaderInv(c)'
  <2>1. pc'[c] = "sleeping" => asked'[c] = Absent
    BY DEF TimesOut, ConnectionBreaks, Finish, Sleep
  <2>. QED  BY <2>1 DEF HeaderInv, Absent
<1>. QED  BY <1>3, <1>4, <1>5, <1>6

LEMMA WakeStep ==
  ASSUME IInv, NEW c \in Calls, Wake(c) PROVE CallInv(c)'
<1>. USE DEF IInv, TypeInv, TypeOK, LoopInv, CallInv, Wake, server, history
<1>1. max_retries' = max_retries /\ kind' = kind /\ Mutates(c)' = Mutates(c)
  BY DEF Mutates
<1>2. attempt[c] \in Nat /\ Sent[c] = attempt[c] + 1 /\ Sent'[c] = attempt[c] + 1
  BY BudgetAssumption DEF Sent
<1>3. reply'[c] = {}
  BY DEF WireInv
<1>4. WireInv(c)'
  BY <1>2, <1>3, WireKept
<1>5. AnswerInv(c)' /\ SettledInv(c)' /\ ExactInv(c)'
  BY <1>1, <1>3 DEF AnswerInv, SettledInv, ExactInv, APIErrors
<1>6. FirstInv(c)' /\ SpentInv(c)' /\ HeaderInv(c)'
  BY <1>1, <1>2 DEF FirstInv, SpentInv, HeaderInv
<1>. QED  BY <1>4, <1>5, <1>6

LEMMA CancelledStep ==
  ASSUME IInv, NEW c \in Calls, Cancelled(c) PROVE CallInv(c)'
<1>. USE DEF IInv, TypeInv, TypeOK, LoopInv, CallInv
<1>1. /\ pc[c] \in {"sending", "awaiting", "sleeping"} /\ pc'[c] = "done"
      /\ attempt' = attempt /\ max_retries' = max_retries /\ kind' = kind
      /\ outcome'[c] = "CancelledError" /\ reply'[c] = {}
      /\ pc[c] = "awaiting" => lost'[c]
      /\ pc[c] # "awaiting" => lost'[c] = lost[c]
      /\ UNCHANGED <<wire, effects, failed>>
  BY DEF Cancelled, Finish, GiveUp
<1>2. /\ Sent[c] \in {attempt[c], attempt[c] + 1} /\ Sent'[c] = attempt[c] + 1
      /\ attempt[c] \in Nat
  BY <1>1, BudgetAssumption DEF Sent
<1>3. WireInv(c)'
  BY <1>1, <1>2, WireKept
<1>4. AnswerInv(c)' /\ SettledInv(c)' /\ ExactInv(c)'
  BY <1>1 DEF AnswerInv, SettledInv, ExactInv, APIErrors
<1>5. FirstInv(c)' /\ SpentInv(c)' /\ HeaderInv(c)'
  BY <1>1 DEF FirstInv, SpentInv, HeaderInv
<1>. QED  BY <1>3, <1>4, <1>5

\* The status behind two verdicts of raise_for_status.
LEMMA VerdictStatus ==
  ASSUME NEW r \in Response
  PROVE  /\ RaiseForStatus(r) = "ok" => r.status < 500
         /\ RaiseForStatus(r) = "RateLimitError" => r.status = 429
BY DEF RaiseForStatus, IsSuccess, StatusMap, Response

LEMMA AnsweredStep ==
  ASSUME IInv, NEW c \in Calls, Answered(c) PROVE CallInv(c)'
<1>. USE DEF IInv, TypeInv, TypeOK, LoopInv, CallInv
<1>1. PICK r \in reply[c] :
        /\ IF ~ShouldRetry(r) \/ LastAttempt(c)
           THEN Finish(c, Outcome(c, r)) ELSE Sleep(c, r.retry_after)
        /\ failed' = [failed EXCEPT ![c] = @ \/ r.status >= 500]
  BY DEF Answered
<1>2. /\ pc[c] = "awaiting" /\ attempt' = attempt /\ reply'[c] = {}
      /\ UNCHANGED <<max_retries, kind, wire, effects, lost>>
  BY <1>1 DEF Answered, Finish, Sleep
<1>3. r \in Response /\ r.status \in Int /\ r.retry_after \in RetryAfters
  BY <1>1 DEF Response
<1>4. Mutates(c)' = Mutates(c)
  BY <1>2 DEF Mutates
<1>5. attempt[c] \in 0 .. max_retries /\ max_retries \in Int
  BY <1>2, BudgetAssumption
<1>6. Sent[c] = attempt[c] + 1 /\ Sent'[c] = attempt[c] + 1
  BY <1>1, <1>2 DEF Sent, Finish, Sleep
<1>7. WireInv(c)'
  BY <1>2, <1>5, <1>6, WireKept
\* The two ways to go on.
<1>8. \/ /\ pc'[c] = "done" /\ outcome'[c] = Outcome(c, r)
         /\ ~ShouldRetry(r) \/ LastAttempt(c)
      \/ /\ pc'[c] = "sleeping" /\ outcome'[c] = "none" /\ ShouldRetry(r)
         /\ Sleep(c, r.retry_after)
  BY <1>1, <1>2 DEF Finish, Sleep
<1>9. /\ outcome'[c] = "ok" => RaiseForStatus(r) = "ok"
      /\ outcome'[c] \in APIErrors => RaiseForStatus(r) = outcome'[c]
      /\ outcome'[c] \notin {"ConnectionError", "TimeoutError"}
  <2>1. RaiseForStatus(r) \in {"ok"} \union APIErrors
    BY <1>3, RaiseForStatusType
  <2>. QED  BY <1>8, <2>1 DEF Outcome, APIErrors
<1>10. AnswerInv(c)'
  BY <1>1, <1>2, <1>4, <1>9 DEF AnswerInv
<1>11. SettledInv(c)'
  BY <1>1, <1>2, <1>8 DEF SettledInv
<1>12. ExactInv(c)'
  <2>. SUFFICES ASSUME ~lost'[c], ~failed'[c] PROVE ExactInv(c)'
    BY DEF ExactInv
  <2>1. ~lost[c] /\ ~failed[c] /\ r.status < 500
    <3>1. failed'[c] = (failed[c] \/ r.status >= 500)
      BY <1>1
    <3>2. ~(r.status >= 500)
      BY <3>1, Zenon
    <3>. QED  BY <1>2, <1>3, <3>1, <3>2
  <2>2. effects[c] = IF RaiseForStatus(r) = "ok" /\ Mutates(c) THEN 1 ELSE 0
    BY <1>1, <2>1 DEF ExactInv
  <2>3. pc'[c] = "sleeping" => RaiseForStatus(r) # "ok"
    BY <1>3, <1>8, RetriedIsNotOk
  <2>. QED  BY <1>2, <1>4, <1>8, <1>9, <2>2, <2>3 DEF ExactInv, APIErrors
<1>13. FirstInv(c)'
  BY <1>1, <1>2, <1>3, <1>8, <1>9, VerdictStatus DEF FirstInv
<1>14. SpentInv(c)'
  <2>. SUFFICES ASSUME outcome'[c] = "RateLimitError", 429 \in retry_on_status
                PROVE  attempt'[c] = max_retries'
    BY <1>9 DEF SpentInv
  <2>1. RaiseForStatus(r) = "RateLimitError"
    BY <1>9 DEF APIErrors
  <2>2. LastAttempt(c)
    BY <1>3, <1>8, <2>1, VerdictStatus DEF ShouldRetry
  <2>. QED  BY <1>2, <1>5, <2>2 DEF LastAttempt
<1>15. HeaderInv(c)'
  <2>1. pc'[c] = "sleeping" => Sleep(c, r.retry_after)
    BY <1>8
  <2>2. pc'[c] = "sleeping" => asked'[c] = r.retry_after
    BY <2>1 DEF Sleep
  <2>. QED  BY <1>3, <1>5, <2>1, <2>2, SleepType DEF HeaderInv
<1>. QED  BY <1>7, <1>10, <1>11, <1>12, <1>13, <1>14, <1>15

-----------------------------------------------------------------------------
(* The steps of the server and the network.                                *)

\* A request that arrives leaves the wire, and what is answered, short of a
\* 5xx, says what was done.
LEMMA ArriveStep ==
  ASSUME IInv, NEW c \in Calls, NEW a \in wire[c],
         NEW R \in SUBSET Response, Respond(c, a, R),
         UNCHANGED <<max_retries, kind, client, history>>,
         effects'[c] \in {effects[c], effects[c] + 1},
         \A r \in R : r.status < 500 =>
           effects'[c] = effects[c] + IF RaiseForStatus(r) = "ok" /\ Mutates(c) THEN 1 ELSE 0
  PROVE  CallInv(c)'
<1>. USE DEF IInv, TypeInv, TypeOK, LoopInv, CallInv, client, history
<1>1. Mutates(c)' = Mutates(c) /\ Sent'[c] = Sent[c]
  BY DEF Mutates, Sent
<1>2. effects[c] \in Nat /\ Sent[c] \in Int
  BY DEF Sent
\* The answer is dropped, or delivered to a call that had none yet.
<1>3. \/ reply'[c] = reply[c] /\ ~(pc[c] = "awaiting" /\ attempt[c] = a)
      \/ /\ pc[c] = "awaiting" /\ attempt[c] = a /\ reply[c] = {}
         /\ \E r \in R : reply'[c] = {r}
  BY DEF Respond, WireInv
<1>4. WireInv(c)'
  <2>1. wire'[c] = wire[c] \ {a}
    BY DEF Respond
  <2>2. IsFiniteSet(wire'[c]) /\ Cardinality(wire'[c]) = Cardinality(wire[c]) - 1
    <3>1. IsFiniteSet(wire[c])
      BY DEF WireInv
    <3>2. /\ IsFiniteSet(wire[c] \ {a})
          /\ Cardinality(wire[c] \ {a}) = Cardinality(wire[c]) - 1
      BY <3>1, FS_RemoveElement, Zenon
    <3>. QED  BY <2>1, <3>2
  <2>3. Cardinality(wire[c]) \in Nat
    BY FS_CardinalityType DEF WireInv
  <2>4. effects'[c] + Cardinality(wire'[c]) <= Sent'[c]
    BY <1>1, <1>2, <2>2, <2>3 DEF WireInv
  <2>5. reply'[c] # {} => pc'[c] = "awaiting" /\ attempt'[c] \notin wire'[c]
    BY <1>3, <2>1 DEF WireInv
  <2>. QED  BY <1>1, <2>1, <2>2, <2>4, <2>5 DEF WireInv
<1>5. AnswerInv(c)'
  <2>1. effects[c] > 0 => effects'[c] > 0
    BY <1>2
  <2>2. \A r \in R : RaiseForStatus(r) = "ok" /\ Mutates(c) => effects'[c] > 0
    BY <1>2, VerdictStatus
  <2>. QED  BY <1>1, <1>3, <2>1, <2>2 DEF AnswerInv
\* Nothing lost: it was the attempt being awaited.
<1>6. ~lost[c] => pc[c] = "awaiting" /\ reply[c] = {} /\ wire[c] = {a} /\ attempt[c] = a
  BY DEF SettledInv
<1>7. SettledInv(c)'
  BY <1>3, <1>6 DEF SettledInv, Respond
<1>8. ExactInv(c)'
  <2>. SUFFICES ASSUME ~lost[c], ~failed[c] PROVE ExactInv(c)'
    BY DEF ExactInv
  <2>1. effects[c] = 0 /\ pc[c] = "awaiting" /\ outcome[c] = "none"
    BY <1>6 DEF ExactInv
  <2>2. PICK r \in R : reply'[c] = {r}
    BY <1>3, <1>6
  <2>3. r.status < 500 =>
          effects'[c] = IF RaiseForStatus(r) = "ok" /\ Mutates(c) THEN 1 ELSE 0
    BY <2>1
  <2>. QED  BY <1>1, <2>1, <2>2, <2>3 DEF ExactInv, APIErrors
<1>9. FirstInv(c)' /\ SpentInv(c)' /\ HeaderInv(c)'
  BY DEF FirstInv, SpentInv, HeaderInv
<1>. QED  BY <1>4, <1>5, <1>7, <1>8, <1>9

LEMMA CarryOutStep ==
  ASSUME IInv, NEW c \in Calls, CarryOut(c) PROVE CallInv(c)'
<1>1. PICK a \in wire[c] : Respond(c, a, Successes \union Crashes)
  BY DEF CarryOut
<1>2. effects'[c] = IF Mutates(c) THEN effects[c] + 1 ELSE effects[c]
  BY DEF CarryOut, IInv, TypeInv, TypeOK
<1>3. effects[c] \in Nat
  BY DEF IInv, TypeInv, TypeOK
<1>4. \A r \in Successes \union Crashes : r.status < 500 => r \in Successes
  <2>1. \A r \in Crashes : r.status \in Int /\ r.status >= 500
    BY StatusAssumption DEF Crashes, Failures
  <2>. QED  BY <2>1
<1>5. \A r \in Successes \union Crashes : r.status < 500 =>
        effects'[c] = effects[c] + IF RaiseForStatus(r) = "ok" /\ Mutates(c) THEN 1 ELSE 0
  BY <1>2, <1>3, <1>4, ResponsesMeaning
<1>. QED  BY <1>1, <1>2, <1>5, ArriveStep, ResponsesType DEF CarryOut

LEMMA DeclineStep ==
  ASSUME IInv, NEW c \in Calls, Decline(c) PROVE CallInv(c)'
<1>1. PICK a \in wire[c] : Respond(c, a, Failures \union ErrorPayloads)
  BY DEF Decline
<1>2. effects' = effects /\ effects[c] \in Nat
  BY DEF Decline, IInv, TypeInv, TypeOK
<1>3. \A r \in Failures \union ErrorPayloads : r.status < 500 =>
        effects'[c] = effects[c] + IF RaiseForStatus(r) = "ok" /\ Mutates(c) THEN 1 ELSE 0
  BY <1>2, ResponsesMeaning
<1>4. UNCHANGED <<max_retries, kind, client, history>>
  BY DEF Decline
<1>. QED  BY <1>1, <1>2, <1>3, <1>4, ArriveStep, ResponsesType

-----------------------------------------------------------------------------
(* The invariant holds, and implies the properties that the runs check.    *)

LEMMA InvInit == Init => IInv
<1>. SUFFICES ASSUME Init PROVE IInv
  OBVIOUS
<1>1. TypeInv
  BY TypeInit
<1>2. ASSUME NEW c \in Calls PROVE CallInv(c)
  <2>1. Sent[c] = 0
    BY DEF Init, Sent
  <2>2. WireInv(c)
    BY <2>1, FS_EmptySet DEF Init, WireInv
  <2>3. AnswerInv(c) /\ SettledInv(c) /\ ExactInv(c)
    BY DEF Init, AnswerInv, SettledInv, ExactInv, APIErrors
  <2>4. FirstInv(c) /\ SpentInv(c) /\ HeaderInv(c)
    BY DEF Init, FirstInv, SpentInv, HeaderInv
  <2>. QED  BY <2>2, <2>3, <2>4 DEF CallInv
<1>. QED  BY <1>1, <1>2 DEF IInv

LEMMA InvStep == IInv /\ [Next]_vars => IInv'
<1>. SUFFICES ASSUME IInv, [Next]_vars PROVE IInv'
  OBVIOUS
<1>1. TypeInv'
  BY TypeStep DEF IInv
<1>2. ASSUME NEW c \in Calls, Step(c), NEW d \in Calls PROVE CallInv(d)'
  <2>1. CASE d = c
    BY <1>2, <2>1, StartStep, SendStep, UnsentStep, GivenUpStep, AnsweredStep,
       WakeStep, CancelledStep, CarryOutStep, DeclineStep DEF Step, ClientStep
  <2>2. CASE d # c
    <3>1. Untouched(d)
      BY <1>2, <2>2, Frame DEF IInv
    <3>2. CallInv(d)
      BY DEF IInv
    <3>. QED  BY <1>2, <3>1, <3>2, Immutable, UntouchedKeeps
  <2>. QED  BY <2>1, <2>2
<1>3. ASSUME UNCHANGED vars, NEW d \in Calls PROVE CallInv(d)'
  <2>1. Untouched(d) /\ max_retries' = max_retries /\ kind' = kind
    BY <1>3 DEF vars, client, server, history, Untouched
  <2>2. CallInv(d)
    BY DEF IInv
  <2>. QED  BY <2>1, <2>2, UntouchedKeeps
<1>4. (\E c \in Calls : Step(c)) \/ UNCHANGED vars
  BY DEF Next, Quiet, Step
<1>5. \A d \in Calls : CallInv(d)'
  BY <1>2, <1>3, <1>4
<1>. QED  BY <1>1, <1>5 DEF IInv

LEMMA InvHolds == Spec => []IInv
BY InvInit, InvStep, PTL DEF Spec

\* A call that succeeds was carried out, whatever was lost, retried or
\* answered late.
THEOREM SuccessIsReal == Spec => []OkMeansCarriedOut
<1>1. IInv => OkMeansCarriedOut
  BY DEF IInv, CallInv, AnswerInv, OkMeansCarriedOut
<1>. QED  BY <1>1, InvHolds, PTL

\* No call is carried out, or still can be, more than max_retries + 1 times.
THEOREM DuplicationIsBounded == Spec => []BoundedDuplication
<1>1. IInv => BoundedDuplication
  <2>. SUFFICES ASSUME IInv, NEW c \in Calls
                PROVE  effects[c] + Cardinality(wire[c])
                         <= IF max_retries < 0 THEN 0 ELSE max_retries + 1
    BY DEF BoundedDuplication
  <2>1. /\ Sent[c] \in Int /\ max_retries \in Int
        /\ Sent[c] <= IF max_retries < 0 THEN 0 ELSE max_retries + 1
    BY BudgetAssumption DEF IInv, TypeInv, TypeOK, LoopInv, Sent
  <2>2. WireInv(c) /\ effects[c] \in Nat
    BY DEF IInv, TypeInv, TypeOK, CallInv
  <2>3. Cardinality(wire[c]) \in Nat
    BY <2>2, FS_CardinalityType DEF WireInv
  <2>. QED  BY <2>1, <2>2, <2>3 DEF WireInv
<1>. QED  BY <1>1, InvHolds, PTL

\* Without timeouts and 5xx answers, results are exact.
THEOREM CertainResults == Spec => []CertainResultIsExact
<1>1. IInv => CertainResultIsExact
  BY DEF IInv, CallInv, SettledInv, ExactInv, CertainResultIsExact
<1>. QED  BY <1>1, InvHolds, PTL

\* max_retries=0 is at most once.
THEOREM FailFast == Spec => []NoRetriesIsAtMostOnce
<1>1. IInv => NoRetriesIsAtMostOnce
  <2>. SUFFICES ASSUME IInv, max_retries = 0, NEW c \in Calls
                PROVE  /\ effects[c] <= 1
                       /\ outcome[c] = "ok" =>
                            wire[c] = {} /\ effects[c] = IF Mutates(c) THEN 1 ELSE 0
    BY DEF NoRetriesIsAtMostOnce
  <2>1. Sent[c] \in Int /\ Sent[c] <= 1 /\ attempt[c] <= 0
    BY DEF IInv, TypeInv, TypeOK, LoopInv, Sent
  <2>2. WireInv(c) /\ effects[c] \in Nat
    BY DEF IInv, TypeInv, TypeOK, CallInv
  <2>3. Cardinality(wire[c]) \in Nat
    BY <2>2, FS_CardinalityType DEF WireInv
  <2>4. effects[c] <= 1
    BY <2>1, <2>2, <2>3 DEF WireInv
  <2>5. outcome[c] = "ok" => ~lost[c] /\ ~failed[c] /\ pc[c] = "done"
    BY <2>1 DEF IInv, TypeInv, TypeOK, LoopInv, CallInv, FirstInv
  <2>. QED  BY <2>4, <2>5 DEF IInv, CallInv, SettledInv, ExactInv
<1>. QED  BY <1>1, InvHolds, PTL

\* Transient failures are reported only after the last retry.
THEOREM RetriesAreUsed == Spec => []TransientErrorsAreRetried
<1>1. IInv => TransientErrorsAreRetried
  BY DEF IInv, CallInv, SpentInv, TransientErrorsAreRetried
<1>. QED  BY <1>1, InvHolds, PTL

\* The server's Retry-After, in seconds and up to five minutes, is kept.
THEOREM ServerIsNotRushed == Spec => []RetryAfterHonoured
<1>1. IInv => RetryAfterHonoured
  BY DEF IInv, CallInv, HeaderInv, RetryAfterHonoured
<1>. QED  BY <1>1, InvHolds, PTL

-----------------------------------------------------------------------------
\* The effect of a call that is over changes on account of a given-up attempt
\* only: without one there is nothing of the call on the wire.
THEOREM ResultsAreFinal == Spec => ResultIsFinal
<1>1. ASSUME IInv, Next, NEW d \in Calls, pc[d] = "done", effects'[d] # effects[d]
      PROVE  lost[d]
  <2>1. PICK c \in Calls : Step(c)
    BY <1>1 DEF Next, Quiet, Step, vars, server
  <2>2. c = d
    BY <1>1, <2>1, Frame DEF IInv, Untouched
  <2>3. CarryOut(d)
    BY <1>1, <2>1, <2>2 DEF Step, ClientStep, Start, Send, Unreachable, ConnectTimesOut,
       TimesOut, ConnectionBreaks, Answered, Wake, Cancelled, Decline, server
  <2>4. wire[d] # {}
    BY <2>3 DEF CarryOut
  <2>. QED  BY <1>1, <2>4 DEF IInv, CallInv, SettledInv
<1>2. IInv /\ [Next]_vars
        => [\A c \in Calls : pc[c] = "done" /\ effects'[c] # effects[c] => lost[c]]_vars
  BY <1>1
<1>. QED  BY <1>2, InvHolds, PTL DEF Spec, ResultIsFinal

-----------------------------------------------------------------------------
(* Retry implements AtLeastOnce.                                           *)

LEMMA ChannelInit == Init => Channel!Init
BY BudgetAssumption DEF Init, Channel!Init, Sent, Returned, Mutates

\* What a step does to one call's copies and return, and to nobody else's.
LEMMA SentChange ==
  ASSUME TypeInv, NEW c \in Calls, Step(c), NEW n, Sent'[c] = n
  PROVE  Sent' = [Sent EXCEPT ![c] = n]
<1>1. \A d \in Calls : d # c => Sent'[d] = Sent[d]
  BY Frame DEF Sent, Untouched
<1>. QED  BY <1>1 DEF Sent

LEMMA ReturnedChange ==
  ASSUME TypeInv, NEW c \in Calls, Step(c), NEW r, Returned'[c] = r
  PROVE  Returned' = [Returned EXCEPT ![c] = r]
<1>1. \A d \in Calls : d # c => Returned'[d] = Returned[d]
  BY Frame DEF Returned, Untouched
<1>. QED  BY <1>1 DEF Returned

\* Leaving the loop, or going on with it, once a request was sent.
LEMMA ChannelReturns ==
  ASSUME IInv, NEW c \in Calls, Step(c), Sent'[c] = Sent[c],
         UNCHANGED <<wire, effects>>, pc[c] # "done"
  PROVE  [Channel!Next]_(Channel!vars)
<1>1. UNCHANGED <<max_retries, kind>>
  BY Immutable
<1>2. UNCHANGED Sent /\ UNCHANGED [d \in Calls |-> Mutates(d)]
  BY <1>1, SentChange DEF IInv, Sent, Mutates
<1>3. Returned[c] = "no" /\ Returned'[c] \in {"no", "ok", "error"}
  BY DEF Returned
<1>4. CASE Returned'[c] = "no"
  <2>1. UNCHANGED Returned
    <3>1. Returned' = [Returned EXCEPT ![c] = "no"]
      BY <1>4, ReturnedChange DEF IInv
    <3>. QED  BY <1>3, <3>1 DEF Returned
  <2>. QED  BY <1>1, <1>2, <2>1 DEF Channel!vars
<1>5. CASE Returned'[c] = "error"
  <2>1. Returned' = [Returned EXCEPT ![c] = "error"]
    BY <1>5, ReturnedChange DEF IInv
  <2>. QED  BY <1>1, <1>2, <1>3, <2>1 DEF Channel!Next, Channel!Return
<1>6. CASE Returned'[c] = "ok"
  <2>1. Returned' = [Returned EXCEPT ![c] = "ok"]
    BY <1>6, ReturnedChange DEF IInv
  <2>2. outcome'[c] = "ok"
    BY <1>6 DEF Returned
  <2>3. Mutates(c) => effects[c] > 0
    <3>1. AnswerInv(c)'
      BY InvStep DEF IInv, CallInv, Next, Step
    <3>. QED  BY <1>1, <2>2, <3>1 DEF AnswerInv, Mutates
  <2>. QED  BY <1>1, <1>2, <1>3, <2>1, <2>3 DEF Channel!Next, Channel!Return
<1>. QED  BY <1>3, <1>4, <1>5, <1>6

\* A copy is sent, or lost before it leaves.
LEMMA ChannelSends ==
  ASSUME IInv, NEW c \in Calls, Step(c), pc[c] = "sending", UNCHANGED effects,
         pc'[c] # "sending", attempt'[c] = attempt[c],
         \/ UNCHANGED Returned /\ wire' = [wire EXCEPT ![c] = @ \union {attempt[c]}]
         \/ Returned'[c] \in {"no", "error"} /\ UNCHANGED wire
  PROVE  Channel!Next
<1>. USE DEF IInv
<1>1. UNCHANGED <<max_retries, kind>>
  BY Immutable
<1>2. UNCHANGED [d \in Calls |-> Mutates(d)]
  BY <1>1 DEF Mutates
<1>3. Sent[c] = attempt[c] /\ Sent'[c] = Sent[c] + 1 /\ Sent[c] < max_retries + 1
  BY BudgetAssumption DEF Sent, TypeInv, TypeOK, LoopInv
<1>4. Sent' = [Sent EXCEPT ![c] = @ + 1]
  BY <1>3, SentChange DEF Sent
<1>5. Returned[c] = "no"
  BY DEF Returned
<1>6. CASE UNCHANGED wire /\ Returned'[c] \in {"no", "error"}
  <2>1. Returned' \in {Returned, [Returned EXCEPT ![c] = "error"]}
    <3>1. \/ Returned' = [Returned EXCEPT ![c] = "no"]
          \/ Returned' = [Returned EXCEPT ![c] = "error"]
      BY <1>6, ReturnedChange
    <3>2. [Returned EXCEPT ![c] = "no"] = Returned
      BY <1>5 DEF Returned
    <3>. QED  BY <3>1, <3>2
  <2>. QED  BY <1>1, <1>2, <1>3, <1>4, <1>5, <1>6, <2>1 DEF Channel!Next, Channel!Send
<1>7. CASE UNCHANGED Returned /\ wire' = [wire EXCEPT ![c] = @ \union {attempt[c]}]
  BY <1>1, <1>2, <1>3, <1>4, <1>5, <1>7 DEF Channel!Next, Channel!Send
<1>. QED  BY <1>6, <1>7

LEMMA ChannelArrives ==
  ASSUME IInv, NEW c \in Calls, CarryOut(c) \/ Decline(c)
  PROVE  Channel!Next
<1>1. PICK a \in wire[c] : wire' = [wire EXCEPT ![c] = @ \ {a}]
  BY DEF CarryOut, Decline, Respond
<1>2. UNCHANGED <<max_retries, kind, client>>
  BY DEF CarryOut, Decline
<1>3. UNCHANGED <<Sent, Returned, [d \in Calls |-> Mutates(d)]>>
  BY <1>2 DEF client, Sent, Returned, Mutates
<1>4. \/ effects' = effects
      \/ Mutates(c) /\ effects' = [effects EXCEPT ![c] = @ + 1]
  <2>1. CASE Decline(c)
    BY <2>1 DEF Decline
  <2>2. CASE CarryOut(c) /\ Mutates(c)
    BY <2>2 DEF CarryOut
  <2>3. CASE CarryOut(c) /\ ~Mutates(c)
    BY <2>3 DEF CarryOut, IInv, TypeInv, TypeOK
  <2>. QED  BY <2>1, <2>2, <2>3
<1>. QED  BY <1>1, <1>2, <1>3, <1>4 DEF Channel!Next, Channel!Arrive

LEMMA ChannelStep == IInv /\ [Next]_vars => [Channel!Next]_(Channel!vars)
<1>. SUFFICES ASSUME IInv, [Next]_vars PROVE [Channel!Next]_(Channel!vars)
  OBVIOUS
<1>. USE DEF IInv, TypeInv, TypeOK, LoopInv
<1>1. ASSUME NEW c \in Calls, Start(c) PROVE [Channel!Next]_(Channel!vars)
  <2>1. Sent'[c] = Sent[c]
    BY <1>1 DEF Start, Finish, Sent
  <2>. QED  BY <1>1, <2>1, ChannelReturns DEF Start, server, Step
<1>2. ASSUME NEW c \in Calls, Send(c) PROVE Channel!Next
  <2>1. pc[c] = "sending" /\ pc'[c] = "awaiting" /\ UNCHANGED <<effects, attempt>>
    BY <1>2 DEF Send
  <2>2. UNCHANGED Returned
    BY <1>2, <2>1 DEF Send, Returned
  <2>. QED  BY <1>2, <2>1, <2>2, ChannelSends DEF Send, Step, ClientStep
<1>3. ASSUME NEW c \in Calls, pc[c] = "sending",
             Unreachable(c) \/ ConnectTimesOut(c) \/ Cancelled(c)
      PROVE  Channel!Next
  <2>1. /\ pc'[c] \in {"sleeping", "done"} /\ attempt'[c] = attempt[c]
        /\ UNCHANGED <<wire, effects>>
        /\ outcome'[c] # "ok"
    BY <1>3 DEF Unreachable, ConnectTimesOut, Cancelled, Finish, Sleep, server
  <2>2. Returned'[c] \in {"no", "error"}
    BY <2>1 DEF Returned
  <2>. QED  BY <1>3, <2>1, <2>2, ChannelSends DEF Step, ClientStep
<1>4. ASSUME NEW c \in Calls, pc[c] # "sending",
             TimesOut(c) \/ ConnectionBreaks(c) \/ Answered(c) \/ Wake(c) \/ Cancelled(c)
      PROVE  [Channel!Next]_(Channel!vars)
  <2>1. UNCHANGED <<wire, effects>> /\ pc[c] # "done"
    BY <1>4 DEF TimesOut, ConnectionBreaks, Answered, Wake, Cancelled, server
  <2>2. Sent'[c] = Sent[c]
    BY <1>4 DEF TimesOut, ConnectionBreaks, Answered, Wake, Cancelled, Finish, Sleep, Sent
  <2>. QED  BY <1>4, <2>1, <2>2, ChannelReturns DEF Step, ClientStep
<1>5. CASE UNCHANGED vars
  BY <1>5 DEF vars, client, server, Channel!vars, Sent, Returned, Mutates
<1>. QED
  BY <1>1, <1>2, <1>3, <1>4, <1>5, ChannelArrives
     DEF Next, ClientStep, Quiet, Unreachable, ConnectTimesOut, TimesOut,
         ConnectionBreaks, Answered, Wake

\* The retry loop, transport and status check implement the at-least-once
\* channel of the module AtLeastOnce.
THEOREM Refinement == Spec => ImplementsAtLeastOnce
BY ChannelInit, ChannelStep, InvHolds, PTL DEF Spec, ImplementsAtLeastOnce, Channel!Spec

=============================================================================
