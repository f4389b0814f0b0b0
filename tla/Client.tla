------------------------------- MODULE Client -------------------------------
(***************************************************************************)
(* The life of a client (_client.py): it is constructed from arguments and *)
(* the environment of that moment, its calls share one transport and one   *)
(* httpx client (_transport.py), and it is closed, by close() or at the    *)
(* end of a with block, while calls may be in flight, asleep between two   *)
(* attempts, or between two pages of a listing.                            *)
(*                                                                         *)
(* A call is a listing of a number of pages; any other call is like one of *)
(* a single page.  Retry and Pagination have the details of both loops;    *)
(* what matters here is where they meet a client that is closed.           *)
(***************************************************************************)
EXTENDS Config

CONSTANTS
  Calls,
  Pages,         \* Pages[c]: the pages that the call is about
  Arguments,     \* arguments of the constructor to consider
  Environments,  \* environments to consider
  Statuses       \* statuses that the server answers with, beside 200

ASSUME PagesAssumption == Pages \in [Calls -> Nat \ {0}]
\* retry_on_status is a set of at most one set: None, or what the caller asks for.
ASSUME ArgumentsAssumption ==
  \A given \in Arguments :
    /\ given.max_retries \in Nat
    /\ \A asked, other \in given.retry_on_status : asked = other
ASSUME StatusesAssumption ==
  /\ Statuses \subseteq Nat \ {0, 200} /\ DefaultStatuses \subseteq Nat \ {0, 200}
  /\ \A given \in Arguments : 200 \notin UNION given.retry_on_status

VARIABLES
  args,      \* what the program passes to the constructor
  env,       \* os.environ
  found,     \* history: os.environ when the client was constructed
  client,    \* "none", "rejected", "open" or "closed"
  config,    \* the configuration: a set of at most one
  pc,        \* pc[c]: where the call is
  page,      \* page[c]: pages that the caller holds
  attempt,   \* attempt[c]: the loop variable of the retry loop
  status,    \* status[c]: of the answer that the call last got, or 0
  outcome,   \* outcome[c]: how the call ended
  requests,  \* history: what the client put on the wire, and for whom
  late,      \* history: calls that were begun on a closed client
  after      \* history: after[c]: requests of the call that left after close()

calls == <<pc, page, attempt, status, outcome>>
setup == <<args, env, found, client, config>>
history == <<requests, late, after>>
vars == <<setup, calls, history>>

Outcomes == {"none", "ok", "APIError", "ConnectionError", "TimeoutError",
             "TransportError", "RuntimeError"}

TypeOK ==
  /\ args \in Arguments
  /\ env \in Environments /\ found \in Environments
  /\ client \in {"none", "rejected", "open", "closed"}
  /\ config = IF client = "none" THEN {} ELSE Resolve(args, found)
  /\ config # {} <=> client \in {"open", "closed"}
  /\ pc \in [Calls -> {"idle", "sending", "connecting", "awaiting", "sleeping",
                       "holding", "done"}]
  /\ page \in [Calls -> Nat] /\ \A c \in Calls : page[c] <= Pages[c]
  /\ attempt \in [Calls -> 0 .. args.max_retries]
  /\ status \in [Calls -> Statuses \union {0, 200}]
  /\ outcome \in [Calls -> Outcomes]
  /\ late \subseteq Calls
  /\ after \in [Calls -> Nat]

Init ==
  /\ args \in Arguments
  /\ env \in Environments
  /\ found = env
  /\ client = "none"
  /\ config = {}
  /\ pc = [c \in Calls |-> "idle"]
  /\ page = [c \in Calls |-> 0]
  /\ attempt = [c \in Calls |-> 0]
  /\ status = [c \in Calls |-> 0]
  /\ outcome = [c \in Calls |-> "none"]
  /\ requests = {}
  /\ late = {}
  /\ after = [c \in Calls |-> 0]

The(set) == CHOOSE x \in set : TRUE

-----------------------------------------------------------------------------
(* The client.                                                             *)

\* resolve() reads the environment now; then the transport is built.
Construct ==
  /\ client = "none"
  /\ found' = env
  /\ config' = Resolve(args, env)
  /\ client' = IF config' = {} THEN "rejected" ELSE "open"
  /\ UNCHANGED <<args, env, calls, history>>

\* close(), or the end of a with block.  Closing again changes nothing.
Close ==
  /\ client = "open"
  /\ client' = "closed"
  /\ UNCHANGED <<args, env, found, config, calls, history>>

\* Other code of the program, such as what sets up the next client.
ChangeEnvironment ==
  /\ client # "none"
  /\ env' \in Environments \ {env}
  /\ UNCHANGED <<args, found, client, config, calls, history>>

-----------------------------------------------------------------------------
(* A call.                                                                 *)

Finish(c, result) ==
  /\ pc' = [pc EXCEPT ![c] = "done"]
  /\ outcome' = [outcome EXCEPT ![c] = result]
  /\ UNCHANGED <<page, attempt>>

Goto(c, place) ==
  /\ pc' = [pc EXCEPT ![c] = place]
  /\ UNCHANGED <<page, attempt, outcome>>

\* A plausible slip: > for >=.
LastAttemptOffByOne(c) == attempt[c] > The(config).max_retries

LastAttempt(c) == attempt[c] >= The(config).max_retries

\* The method is called, or the first item of its listing asked for; nothing
\* in the SDK looks at whether the client is closed.
Begin(c) ==
  /\ client \in {"open", "closed"}
  /\ pc[c] = "idle"
  /\ Goto(c, "sending")
  /\ late' = IF client = "closed" THEN late \union {c} ELSE late
  /\ UNCHANGED <<setup, status, requests, after>>

\* A plausible change: a closed client opens itself again.
SendReopening(c) ==
  /\ pc[c] = "sending"
  /\ Goto(c, "connecting")
  /\ UNCHANGED <<setup, status, history>>

\* A plausible slip: what httpx says of a closed client is taken for the end.
SendEnding(c) ==
  /\ pc[c] = "sending"
  /\ IF client = "closed" THEN Finish(c, "ok") ELSE Goto(c, "connecting")
  /\ UNCHANGED <<setup, status, history>>

\* client.send of httpx: a RuntimeError if the client is closed, which neither
\* the retry loop nor the transport catches.
Send(c) ==
  /\ pc[c] = "sending"
  /\ IF client = "closed" THEN Finish(c, "RuntimeError") ELSE Goto(c, "connecting")
  /\ UNCHANGED <<setup, status, history>>

\* A plausible slip: the address and the token are looked up for each request.
TargetLive ==
  LET now == The(IF Resolve(args, env) = {} THEN config ELSE Resolve(args, env))
  IN  [to |-> BaseUrl(now), token |-> now.api_token]

\* Base URL and token header of the httpx client.
Target == [to |-> BaseUrl(The(config)), token |-> The(config).api_token]

\* There is a connection, and the request leaves; also after close(), which
\* does not stop a request that httpx has begun.
Transmit(c) ==
  /\ pc[c] = "connecting"
  /\ Goto(c, "awaiting")
  /\ requests' = requests \union {Target}
  /\ after' = [after EXCEPT ![c] = IF client = "closed" THEN @ + 1 ELSE @]
  /\ UNCHANGED <<setup, status, late>>

Unreachable(c) ==
  /\ pc[c] = "connecting"
  /\ IF LastAttempt(c) THEN Finish(c, "ConnectionError") ELSE Goto(c, "sleeping")
  /\ status' = [status EXCEPT ![c] = 0]
  /\ UNCHANGED <<setup, history>>

TimesOut(c) ==
  /\ pc[c] = "awaiting"
  /\ IF LastAttempt(c) THEN Finish(c, "TimeoutError") ELSE Goto(c, "sleeping")
  /\ status' = [status EXCEPT ![c] = 0]
  /\ UNCHANGED <<setup, history>>

\* The connection is lost, for instance because close() shuts the pool.
ConnectionBreaks(c) ==
  /\ pc[c] \in {"connecting", "awaiting"}
  /\ Finish(c, "TransportError")
  /\ status' = [status EXCEPT ![c] = 0]
  /\ UNCHANGED <<setup, history>>

AnsweredWithPage(c) ==
  /\ pc[c] = "awaiting"
  /\ pc' = [pc EXCEPT ![c] = "holding"]
  /\ page' = [page EXCEPT ![c] = @ + 1]
  /\ status' = [status EXCEPT ![c] = 200]
  /\ UNCHANGED <<setup, attempt, outcome, history>>

AnsweredWithError(c) ==
  /\ pc[c] = "awaiting"
  /\ \E s \in Statuses :
       /\ status' = [status EXCEPT ![c] = s]
       /\ IF s \in The(config).retry_on_status /\ ~LastAttempt(c)
          THEN Goto(c, "sleeping")
          ELSE Finish(c, "APIError")
  /\ UNCHANGED <<setup, history>>

\* A plausible slip: a call that is asleep when the client is closed stays so.
WakeUnlessClosed(c) ==
  /\ pc[c] = "sleeping" /\ client = "open"
  /\ pc' = [pc EXCEPT ![c] = "sending"]
  /\ attempt' = [attempt EXCEPT ![c] = @ + 1]
  /\ UNCHANGED <<setup, page, status, outcome, history>>

Wake(c) ==
  /\ pc[c] = "sleeping"
  /\ pc' = [pc EXCEPT ![c] = "sending"]
  /\ attempt' = [attempt EXCEPT ![c] = @ + 1]
  /\ UNCHANGED <<setup, page, status, outcome, history>>

\* The caller has what is on the page and asks for more.
Continue(c) ==
  /\ pc[c] = "holding"
  /\ IF page[c] = Pages[c]
     THEN Finish(c, "ok")
     ELSE /\ pc' = [pc EXCEPT ![c] = "sending"]
          /\ attempt' = [attempt EXCEPT ![c] = 0]
          /\ UNCHANGED <<page, outcome>>
  /\ UNCHANGED <<setup, status, history>>

CallStep(c) ==
  \/ Send(c) \/ Transmit(c) \/ Unreachable(c) \/ TimesOut(c) \/ ConnectionBreaks(c)
  \/ AnsweredWithPage(c) \/ AnsweredWithError(c) \/ Wake(c) \/ Continue(c)

Next ==
  \/ Construct \/ Close \/ ChangeEnvironment
  \/ \E c \in Calls : Begin(c) \/ CallStep(c)

\* A call that was begun is driven on: httpx's timeouts fire, sleeps end, and
\* the caller of a listing keeps iterating.  Nobody has to close the client.
Spec == Init /\ [][Next]_vars /\ \A c \in Calls : WF_vars(CallStep(c))

-----------------------------------------------------------------------------
(* Configuration.                                                          *)

\* The host that a text names: its only fragment that is one.
HostNamed(text) == The(ToSet(text) \ Separators)

\* Every request goes to the tenant, and carries the token, that the arguments
\* name, or the environment as it was when the client was constructed: blanks, a
\* protocol or a slash around the name make no difference, and neither does what
\* the environment says later, such as the variables of another tenant.
RequestsGoWhereTheClientPoints ==
  \A request \in requests :
    /\ request.to = <<Https, HostNamed(
         IF args.tenant = <<>> THEN found.NETSKOPE_TENANT ELSE args.tenant)>>
    /\ request.token =
         IF args.api_token = <<>> THEN found.NETSKOPE_API_TOKEN ELSE args.api_token

\* "Explicit constructor parameters" come first (_config.py): where they say
\* everything, no environment makes a difference, not even to a refusal.
ExplicitArgumentsDecide ==
  client # "none" /\ args.tenant # <<>> /\ args.api_token # <<>> /\ args.verify # "True" =>
    \A other \in Environments : Resolve(args, other) = config

\* A client trusts what it was told to: the bundle in the arguments or the first
\* that the environment names, and the system's store only if nobody names one.
\* A bundle that is missing is an error and never falls back on anything else.
TrustIsAsTold ==
  \A accepted \in config :
    LET naming == {i \in DOMAIN CaBundleVariables : found[CaBundleVariables[i]] # Unset}
    IN  /\ accepted.verify \in {"True", "False"} \union Files
        /\ args.verify # "True" => accepted.verify = args.verify
        /\ args.verify = "True" =>
             accepted.verify = IF naming = {} THEN "True"
                               ELSE found[CaBundleVariables[Min(naming)]]

\* A client that is told which statuses to retry retries these and no others,
\* and reports one of them only when its retries are used up.  The empty set is
\* the exception: it stands for the default.
RetriesWhatItIsTold ==
  \A c \in Calls : \A asked \in args.retry_on_status \ {{}} :
    /\ pc[c] = "sleeping" /\ status[c] # 0 => status[c] \in asked
    /\ outcome[c] = "APIError" /\ status[c] \in asked => attempt[c] = args.max_retries

-----------------------------------------------------------------------------
(* Closing.                                                                *)

\* A call that is begun on a closed client sends nothing, and one that the
\* closing meets sends no more than the request that httpx is working on: no
\* further attempt after a sleep, no further page of a listing.
NothingNewAfterClose ==
  \A c \in Calls : after[c] <= IF c \in late THEN 0 ELSE 1

\* Closing is no way to end: a listing that says that it is complete has handed
\* over all its pages, and a call that returns was answered.
OkMeansComplete ==
  \A c \in Calls : outcome[c] = "ok" => page[c] = Pages[c]

\* A call that was begun returns, on a closed client, too.
CallsReturn == \A c \in Calls : pc[c] = "sending" ~> pc[c] = "done"

-----------------------------------------------------------------------------
(* What the documentation says, and the code does not do.                  *)

\* _client.py: "retry_on_status: HTTP status codes that trigger retries."
OnlyTheseTriggerRetries ==
  \A c \in Calls : \A asked \in args.retry_on_status :
    pc[c] = "sleeping" /\ status[c] # 0 => status[c] \in asked

=============================================================================
