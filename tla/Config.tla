------------------------------- MODULE Config -------------------------------
(***************************************************************************)
(* NetskopeConfig (_config.py): how the arguments of a client, the         *)
(* environment and the defaults become a configuration, or are refused.    *)
(*                                                                         *)
(* A text is a sequence of fragments: hosts, "https://", "/", " ".  None   *)
(* and "" are both <<>>: the code tells them apart nowhere.                *)
(***************************************************************************)
EXTENDS Naturals, Sequences, SequencesExt, FiniteSetsExt

CONSTANTS
  Hosts,           \* fragments that end in a domain of Netskope
  Addresses,       \* fragments that are IP addresses
  Files,           \* files that exist
  DefaultStatuses  \* _DEFAULT_RETRY_STATUSES

\* What may stand around a host.
Space == " "
Slash == "/"
Https == "https://"
Http == "http://"
Separators == {Space, Slash, Https, Http}

ASSUME HostsAssumption == Hosts \intersect Separators = {}

\* The order in which the variables for a CA bundle are looked at.
CaBundleVariables ==
  <<"NETSKOPE_CA_BUNDLE", "REQUESTS_CA_BUNDLE", "SSL_CERT_FILE", "CURL_CA_BUNDLE">>

\* The value of such a variable that is not set, or empty: the code tells them
\* apart nowhere.
Unset == ""

-----------------------------------------------------------------------------
(* Texts.                                                                  *)

Strip(text) ==
  LET ink == {i \in DOMAIN text : text[i] # Space}
  IN  IF ink = {} THEN <<>> ELSE SubSeq(text, Min(ink), Max(ink))

RemovePrefix(text, prefix) ==
  IF text # <<>> /\ Head(text) = prefix THEN Tail(text) ELSE text

StripSlashes(text) ==
  LET ink == {i \in DOMAIN text : text[i] # Slash}
  IN  IF ink = {} THEN <<>> ELSE SubSeq(text, 1, Max(ink))

\* A plausible slip: the prefix is looked for before the blanks are gone.
NormalizeUnstripped(text) ==
  StripSlashes(Strip(RemovePrefix(RemovePrefix(text, Https), Http)))

Normalize(text) ==
  StripSlashes(RemovePrefix(RemovePrefix(Strip(text), Https), Http))

IsAddress(host) == Len(host) = 1 /\ host[1] \in Addresses

Recognized(host) == host # <<>> /\ Last(host) \in Hosts

-----------------------------------------------------------------------------
(* Merging.                                                                *)

\* A plausible slip: the environment first.
OrReversed(argument, variable) == IF variable # <<>> THEN variable ELSE argument

\* argument or os.environ.get(...)
Or(argument, variable) == IF argument # <<>> THEN argument ELSE variable

\* A plausible slip: a bundle that does not exist is passed over.
VerifyLenient(verify, env) ==
  LET named == SelectSeq(CaBundleVariables, LAMBDA variable : env[variable] \in Files)
  IN  IF verify = "True" /\ named # <<>> THEN env[Head(named)] ELSE verify

\* True, unless a variable names a bundle; False or a path as they are.
\* named[n] is what the first n variables have named, if anything.
Verify(verify, env) ==
  LET named[n \in 0 .. Len(CaBundleVariables)] ==
        IF n = 0 THEN Unset
        ELSE IF named[n - 1] # Unset THEN named[n - 1]
        ELSE env[CaBundleVariables[n]]
      bundle == named[Len(CaBundleVariables)]
  IN  IF verify = "True" /\ bundle # Unset THEN bundle ELSE verify

\* A plausible slip: the statuses that the caller asks for are added to the
\* default ones.
RetryOnStatusAdded(statuses) == DefaultStatuses \union UNION statuses

\* retry_on_status or _DEFAULT_RETRY_STATUSES.  The argument is None or a set,
\* given as a set of at most one.
RetryOnStatus(statuses) ==
  IF UNION statuses = {} THEN DefaultStatuses ELSE UNION statuses

\* The configuration, as a set of at most one: none if a ValidationError is
\* raised.  (The clients do not pass allow_custom_tenant.)
Resolve(args, env) ==
  LET tenant == Or(args.tenant, env.NETSKOPE_TENANT)
      token  == Or(args.api_token, env.NETSKOPE_API_TOKEN)
      host   == Normalize(tenant)
      verify == Verify(args.verify, env)
  IN  IF \/ tenant = <<>> \/ token = <<>>
         \/ IsAddress(host) \/ ~Recognized(host)
         \/ verify \notin {"True", "False"} \union Files
      THEN {}
      ELSE {[tenant |-> host, api_token |-> token, verify |-> verify,
             max_retries |-> args.max_retries,
             retry_on_status |-> RetryOnStatus(args.retry_on_status)]}

BaseUrl(config) ==
  LET host == config.tenant
  IN  StripSlashes(IF Head(host) = Https THEN host ELSE <<Https>> \o host)

=============================================================================
