------------------------------- MODULE Retry -------------------------------
(***************************************************************************)
(* A call of the SDK on its way through resource helper, transport and     *)
(* retry loop to the server and back (resources/_base.py, _transport.py,   *)
(* _retry.py, exceptions.py).  Several calls run at the same time: tasks   *)
(* of one event loop that share an AsyncNetskopeClient, or threads with a  *)
(* client each.                                                            *)
(*                                                                         *)
(* The network and the server are the environment.  A request that was put *)
(* on the wire may be carried out at any later time or never, also after   *)
(* the client stopped waiting for it.  The server holds one entity that    *)
(* the calls are about, and counts how often it carried each call out.     *)
(***************************************************************************)
EXTENDS Integers, FiniteSets, Backoff, StatusErrors

CONSTANTS
  Calls,            \* calls of the SDK
  RetryBudgets,     \* values of NetskopeConfig.max_retries to consider
  retry_on_status,  \* NetskopeConfig.retry_on_status
  FailureStatuses,  \* statuses, other than 2xx, that the server answers with
  RetryAfters       \* Retry-After headers it may send along with them

ASSUME BudgetAssumption == RetryBudgets \subseteq Int
\* A fact of arithmetic, for which the provers have no rule.
ASSUME PowerAssumption == \A b \in RetryBudgets : \A n \in 0 .. b : 2^n \in Nat
ASSUME StatusAssumption ==
  /\ FailureStatuses \subseteq Int
  /\ \A s \in FailureStatuses : ~IsSuccess(s)
  /\ retry_on_status \subseteq FailureStatuses
ASSUME HeaderAssumption ==
  /\ RetryAfters \subseteq [form : RetryAfterForms, ticks : Int]
  /\ Absent \in RetryAfters

VARIABLES
  max_retries,  \* the client's configuration, immutable
  kind,         \* kind[c]: what the call asks of the server
  pc,           \* pc[c]: where the call is
  attempt,      \* attempt[c]: the loop variable, -1 before the loop
  delay,        \* delay[c]: the sleep in progress, 0 when there is none
  asked,        \* asked[c]: Retry-After header of the answer being slept on
  reply,        \* reply[c]: the response on its way back, at most one
  outcome,      \* outcome[c]: how the call ended
  wire,         \* wire[c]: attempts whose request the server has yet to see
  entity,       \* does the entity exist on the server?
  effects,      \* effects[c]: how often the server carried the call out
  lost,         \* history: did an attempt end without an answer?
  failed        \* history: was an attempt answered with a 5xx?

client == <<pc, attempt, delay, asked, outcome>>
server == <<wire, entity, effects, reply>>
history == <<lost, failed>>
vars == <<max_retries, kind, client, server, history>>

(***************************************************************************)
(* "get" reads.  "append" is a POST or PATCH that the server carries out   *)
(* each time it arrives (an API token is reissued).  "create" needs that   *)
(* the entity is not there (a unique name), "delete" that it is.           *)
(***************************************************************************)
Kinds == {"get", "append", "create", "delete"}

\* _base.py calls resp.json() outside any try, except in _delete.
BodyError(c, response) ==
  response.body = "empty" /\ kind[c] # "delete"

Mutates(c) == kind[c] # "get"

\* A plausible change: an undecodable body becomes an APIError.
OutcomeWrapped(c, response) ==
  IF RaiseForStatus(response) # "ok" THEN RaiseForStatus(response)
  ELSE IF BodyError(c, response) THEN "APIError" ELSE "ok"

\* What SyncTransport.request and the _get/_post/_put/_patch/_delete helper
\* above it make of a response that the retry loop returned.
Outcome(c, response) ==
  IF RaiseForStatus(response) # "ok" THEN RaiseForStatus(response)
  ELSE IF BodyError(c, response) THEN "JSONDecodeError" ELSE "ok"

-----------------------------------------------------------------------------
Response == [status : Int, body : Bodies, retry_after : RetryAfters]

\* What a call ends with: a result, an exception of the SDK, or one that is not.
Outcomes ==
  {"none", "ok", "RuntimeError", "JSONDecodeError", "TransportError", "CancelledError"}
    \union NetskopeErrors

TypeOK ==
  /\ max_retries \in RetryBudgets
  /\ kind \in [Calls -> Kinds]
  /\ pc \in [Calls -> {"idle", "sending", "awaiting", "sleeping", "done"}]
  /\ attempt \in [Calls -> Int]
  /\ delay \in [Calls -> Int]
  /\ asked \in [Calls -> RetryAfters]
  /\ reply \in [Calls -> SUBSET Response]
  /\ outcome \in [Calls -> Outcomes]
  /\ wire \in [Calls -> SUBSET Int]
  /\ entity \in BOOLEAN
  /\ effects \in [Calls -> Nat]
  /\ lost \in [Calls -> BOOLEAN]
  /\ failed \in [Calls -> BOOLEAN]

Init ==
  /\ max_retries \in RetryBudgets
  /\ kind \in [Calls -> Kinds]
  /\ pc = [c \in Calls |-> "idle"]
  /\ attempt = [c \in Calls |-> -1]
  /\ delay = [c \in Calls |-> 0]
  /\ asked = [c \in Calls |-> Absent]
  /\ reply = [c \in Calls |-> {}]
  /\ outcome = [c \in Calls |-> "none"]
  /\ wire = [c \in Calls |-> {}]
  /\ entity \in BOOLEAN
  /\ effects = [c \in Calls |-> 0]
  /\ lost = [c \in Calls |-> FALSE]
  /\ failed = [c \in Calls |-> FALSE]

-----------------------------------------------------------------------------
(* Leaving the loop, and sleeping until its next iteration.                *)

Finish(c, result) ==
  /\ pc' = [pc EXCEPT ![c] = "done"]
  /\ outcome' = [outcome EXCEPT ![c] = result]
  /\ delay' = [delay EXCEPT ![c] = 0]
  /\ asked' = [asked EXCEPT ![c] = Absent]
  /\ UNCHANGED attempt

Sleep(c, header) ==
  /\ pc' = [pc EXCEPT ![c] = "sleeping"]
  /\ \E d \in SleepDuration(attempt[c], GetRetryAfter(header)) :
       delay' = [delay EXCEPT ![c] = d]
  /\ asked' = [asked EXCEPT ![c] = header]
  /\ UNCHANGED <<attempt, outcome>>

GiveUp(c) == lost' = [lost EXCEPT ![c] = TRUE]

\* A plausible slip: one retry too many.
LastAttemptOffByOne(c) == attempt[c] > max_retries

\* A plausible slip: the last retry is never made.
LastAttemptEarly(c) == attempt[c] + 1 >= max_retries

LastAttempt(c) == attempt[c] >= max_retries

-----------------------------------------------------------------------------
(* The client.                                                             *)

\* for attempt in range(max_retries + 1): a negative max_retries, which
\* NetskopeConfig accepts, makes no attempt and falls out of the loop.
Start(c) ==
  /\ pc[c] = "idle"
  /\ IF max_retries + 1 > 0
     THEN /\ pc' = [pc EXCEPT ![c] = "sending"]
          /\ attempt' = [attempt EXCEPT ![c] = 0]
          /\ UNCHANGED <<delay, asked, outcome>>
     ELSE Finish(c, "RuntimeError")
  /\ UNCHANGED <<max_retries, kind, server, history>>

\* A plausible change: a second, hedged copy of the request leaves at once.
SendHedged(c) ==
  /\ pc[c] = "sending"
  /\ pc' = [pc EXCEPT ![c] = "awaiting"]
  /\ wire' = [wire EXCEPT ![c] = @ \union {attempt[c], attempt[c] + 1}]
  /\ UNCHANGED <<max_retries, kind, attempt, delay, asked, outcome,
                 entity, effects, reply, history>>

\* client.send(_copy_request(request)): the request leaves.
Send(c) ==
  /\ pc[c] = "sending"
  /\ pc' = [pc EXCEPT ![c] = "awaiting"]
  /\ wire' = [wire EXCEPT ![c] = @ \union {attempt[c]}]
  /\ UNCHANGED <<max_retries, kind, attempt, delay, asked, outcome,
                 entity, effects, reply, history>>

\* httpx.ConnectError: no connection, nothing was sent.
Unreachable(c) ==
  /\ pc[c] = "sending"
  /\ IF LastAttempt(c) THEN Finish(c, "ConnectionError") ELSE Sleep(c, Absent)
  /\ UNCHANGED <<max_retries, kind, server, history>>

\* httpx.ConnectTimeout and PoolTimeout: nothing was sent either, and the
\* except clause names neither.
ConnectTimesOut(c) ==
  /\ pc[c] = "sending"
  /\ Finish(c, "TransportError")
  /\ UNCHANGED <<max_retries, kind, server, history>>

\* httpx.ReadTimeout or WriteTimeout.  A response that comes later is lost.
TimesOut(c) ==
  /\ pc[c] = "awaiting"
  /\ IF LastAttempt(c) THEN Finish(c, "TimeoutError") ELSE Sleep(c, Absent)
  /\ GiveUp(c)
  /\ reply' = [reply EXCEPT ![c] = {}]
  /\ UNCHANGED <<max_retries, kind, wire, entity, effects, failed>>

\* httpx.ReadError, WriteError, RemoteProtocolError: outside the except clause.
ConnectionBreaks(c) ==
  /\ pc[c] = "awaiting"
  /\ Finish(c, "TransportError")
  /\ GiveUp(c)
  /\ reply' = [reply EXCEPT ![c] = {}]
  /\ UNCHANGED <<max_retries, kind, wire, entity, effects, failed>>

\* _should_retry
ShouldRetry(response) == response.status \in retry_on_status

\* The response is here: it is slept on, or returned, checked and decoded.
Answered(c) ==
  /\ pc[c] = "awaiting"
  /\ \E response \in reply[c] :
       /\ IF ~ShouldRetry(response) \/ LastAttempt(c)
          THEN Finish(c, Outcome(c, response))
          ELSE Sleep(c, response.retry_after)
       /\ failed' = [failed EXCEPT ![c] = @ \/ response.status >= 500]
  /\ reply' = [reply EXCEPT ![c] = {}]
  /\ UNCHANGED <<max_retries, kind, wire, entity, effects, lost>>

\* A plausible slip: a while loop that forgets to count.
WakeUncounted(c) ==
  /\ pc[c] = "sleeping"
  /\ pc' = [pc EXCEPT ![c] = "sending"]
  /\ delay' = [delay EXCEPT ![c] = 0]
  /\ asked' = [asked EXCEPT ![c] = Absent]
  /\ UNCHANGED <<max_retries, kind, attempt, outcome, server, history>>

\* time.sleep / asyncio.sleep is over: the next iteration.
Wake(c) ==
  /\ pc[c] = "sleeping"
  /\ pc' = [pc EXCEPT ![c] = "sending"]
  /\ attempt' = [attempt EXCEPT ![c] = @ + 1]
  /\ delay' = [delay EXCEPT ![c] = 0]
  /\ asked' = [asked EXCEPT ![c] = Absent]
  /\ UNCHANGED <<max_retries, kind, outcome, server, history>>

\* The awaiting task is cancelled (asyncio.wait_for, a TaskGroup), or the
\* thread gets a KeyboardInterrupt; nothing in the SDK shields a request.
Cancelled(c) ==
  /\ pc[c] \in {"sending", "awaiting", "sleeping"}
  /\ Finish(c, "CancelledError")
  /\ IF pc[c] = "awaiting" THEN GiveUp(c) ELSE UNCHANGED lost
  /\ reply' = [reply EXCEPT ![c] = {}]
  /\ UNCHANGED <<max_retries, kind, wire, entity, effects, failed>>

-----------------------------------------------------------------------------
(* The server and the network.                                             *)

CanCarryOut(c) ==
  CASE kind[c] = "create" -> ~entity
    [] kind[c] = "delete" -> entity
    [] OTHER              -> TRUE

Successes == [status : {200}, body : {"json", "empty"}, retry_after : {Absent}]
\* A Retry-After header is read on a retried status only.
Failures ==
  {r \in [status : FailureStatuses, body : {"json"}, retry_after : RetryAfters] :
     r.status \in retry_on_status \/ r.retry_after = Absent}
ErrorPayloads == [status : {200}, body : {"error", "missing"}, retry_after : {Absent}]
Crashes == {r \in Failures : r.status >= 500}

\* The answer reaches the client only if it still waits for this attempt.
Respond(c, a, responses) ==
  /\ wire' = [wire EXCEPT ![c] = @ \ {a}]
  /\ IF pc[c] = "awaiting" /\ attempt[c] = a
     THEN \E r \in responses : reply' = [reply EXCEPT ![c] = {r}]
     ELSE UNCHANGED reply

\* The server carries the request out.  It may still fail on the way back:
\* a gateway answers 502 or 504 for work that was done.
CarryOut(c) ==
  /\ CanCarryOut(c)
  /\ \E a \in wire[c] : Respond(c, a, Successes \union Crashes)
  /\ entity' = CASE kind[c] = "create" -> TRUE
                 [] kind[c] = "delete" -> FALSE
                 [] OTHER              -> entity
  /\ effects' = [effects EXCEPT ![c] = IF Mutates(c) THEN @ + 1 ELSE @]
  /\ UNCHANGED <<max_retries, kind, client, history>>

\* The server turns the request down, with an HTTP error or in a 200.
Decline(c) ==
  /\ \E a \in wire[c] : Respond(c, a, Failures \union ErrorPayloads)
  /\ UNCHANGED <<max_retries, kind, client, entity, effects, history>>

-----------------------------------------------------------------------------
ClientStep(c) ==
  \/ Send(c) \/ Unreachable(c) \/ ConnectTimesOut(c)
  \/ TimesOut(c) \/ ConnectionBreaks(c) \/ Answered(c)
  \/ Wake(c)

\* Every call has returned and the wire is empty: the system may stop.
Quiet ==
  /\ \A c \in Calls : pc[c] = "done" /\ wire[c] = {}
  /\ UNCHANGED vars

Next ==
  \/ \E c \in Calls :
       Start(c) \/ ClientStep(c) \/ Cancelled(c) \/ CarryOut(c) \/ Decline(c)
  \/ Quiet

(***************************************************************************)
(* A call that was started is driven on: the read and write timeouts of    *)
(* httpx fire and sleeps end.  Nothing is assumed of the server or of the  *)
(* network, nor that the program makes a call.                             *)
(***************************************************************************)
Spec == Init /\ [][Next]_vars /\ \A c \in Calls : WF_vars(ClientStep(c))

-----------------------------------------------------------------------------
(* Safety.                                                                 *)

\* A call the caller sees succeed was carried out: no error payload in a 200,
\* no answer to another request and no exhausted retry passes for a success.
OkMeansCarriedOut ==
  \A c \in Calls : outcome[c] = "ok" /\ Mutates(c) => effects[c] > 0

\* Retrying never multiplies a mutation beyond max_retries + 1 executions, the
\* requests still on the wire included.
BoundedDuplication ==
  \A c \in Calls :
    effects[c] + Cardinality(wire[c]) <= IF max_retries < 0 THEN 0 ELSE max_retries + 1

\* As long as every attempt was answered and no answer was a 5xx, the result
\* is the truth: a mutation that succeeds was carried out exactly once, one that
\* raises an APIError was not and will not be.  (After a timeout or a 5xx a
\* ConflictError or a NotFoundError may be due to the call's own earlier try.)
CertainResultIsExact ==
  \A c \in Calls :
    ~lost[c] /\ ~failed[c] /\ pc[c] = "done" =>
      /\ wire[c] = {}
      /\ outcome[c] = "ok" => effects[c] = IF Mutates(c) THEN 1 ELSE 0
      /\ outcome[c] \in APIErrors => effects[c] = 0

\* max_retries=0 is at most once, and exact unless the exchange broke: the
\* "fail fast" configuration of the documentation.
NoRetriesIsAtMostOnce ==
  max_retries = 0 =>
    \A c \in Calls :
      /\ effects[c] <= 1
      /\ outcome[c] = "ok" => wire[c] = {} /\ effects[c] = IF Mutates(c) THEN 1 ELSE 0

\* The transient failures the documentation names are reported only after
\* every retry was used.
TransientErrorsAreRetried ==
  \A c \in Calls :
    \/ outcome[c] \in {"ConnectionError", "TimeoutError"}
    \/ outcome[c] = "RateLimitError" /\ 429 \in retry_on_status
    => attempt[c] = max_retries

\* A server that says in seconds how long to stay away, up to five minutes, is
\* not asked again earlier, whichever attempt it says so on.
RetryAfterHonoured ==
  \A c \in Calls :
    pc[c] = "sleeping" /\ asked[c].form = "number" =>
      delay[c] >= AtMost(asked[c].ticks, 300 * Second)

\* Once a call is over, its effect on the server can only change on account of
\* an attempt that the client gave up without an answer.
ResultIsFinal ==
  [][\A c \in Calls :
       pc[c] = "done" /\ effects'[c] # effects[c] => lost[c]]_vars

(* Liveness.                                                               *)

\* Whatever the server and the network do, a call that was made returns.
CallReturns == \A c \in Calls : pc[c] = "sending" ~> pc[c] = "done"

-----------------------------------------------------------------------------
(* What the documentation says, and the code does not do.                  *)

\* exceptions.py: "All exceptions inherit from NetskopeError, enabling callers
\* to catch everything with a single except NetskopeError".  (Cancellation is
\* the caller's own.)
EveryErrorIsANetskopeError ==
  \A c \in Calls : outcome[c] \in {"none", "ok", "CancelledError"} \union NetskopeErrors

-----------------------------------------------------------------------------
(* The retry loop is an at-least-once channel.                             *)

\* Requests that a call has put on the wire or tried to.
Sent == [c \in Calls |-> IF pc[c] = "sending" THEN attempt[c] ELSE attempt[c] + 1]

Returned ==
  [c \in Calls |-> IF pc[c] # "done" THEN "no"
                   ELSE IF outcome[c] = "ok" THEN "ok" ELSE "error"]

Channel == INSTANCE AtLeastOnce WITH
  limit <- max_retries + 1,
  mutating <- [c \in Calls |-> Mutates(c)],
  returned <- Returned,
  sent <- Sent,
  inflight <- wire

\* The loop, the transport and the status check together implement a channel
\* that carries a mutation out at least once if it reports success, at most
\* max_retries + 1 times in any case, and sends nothing once it returned.
ImplementsAtLeastOnce == Channel!Spec

=============================================================================
