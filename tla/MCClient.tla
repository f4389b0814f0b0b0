------------------------------ MODULE MCClient ------------------------------
(* The programs and environments that the runs of Client consider.         *)
EXTENDS Client

ThePages == [c \in Calls |-> IF c = "listing" THEN 2 ELSE 1]

Blank ==
  [NETSKOPE_TENANT |-> <<>>, NETSKOPE_API_TOKEN |-> <<>>, NETSKOPE_CA_BUNDLE |-> "",
   REQUESTS_CA_BUNDLE |-> "", SSL_CERT_FILE |-> "", CURL_CA_BUNDLE |-> ""]

Staging ==
  [Blank EXCEPT !.NETSKOPE_TENANT = <<" ", "https://", "staging">>,
                !.NETSKOPE_API_TOKEN = <<"t2">>]

Production ==
  [Blank EXCEPT !.NETSKOPE_TENANT = <<"prod">>, !.NETSKOPE_API_TOKEN = <<"t3">>,
                !.SSL_CERT_FILE = "corp.pem", !.CURL_CA_BUNDLE = "missing.pem"]

TheEnvironments ==
  {Blank, Staging, Production,
   [Staging EXCEPT !.REQUESTS_CA_BUNDLE = "missing.pem", !.SSL_CERT_FILE = "corp.pem"]}

Plain ==
  [tenant |-> <<"prod">>, api_token |-> <<"t1">>, verify |-> "True",
   max_retries |-> 0, retry_on_status |-> {}]

Tenants ==
  {<<>>, <<"/">>, <<"https://", "prod", "/">>, <<" ", "http://", "prod", " ">>,
   <<"https://", "https://", "prod">>, <<"192.0.2.1">>, <<"elsewhere">>}

\* Every argument varied on its own, and two that the environment completes.
TheArguments ==
  {Plain}
  \union {[Plain EXCEPT !.tenant = text] : text \in Tenants}
  \union {[Plain EXCEPT !.api_token = <<>>], [Plain EXCEPT !.tenant = <<>>, !.api_token = <<>>]}
  \union {[Plain EXCEPT !.verify = how] : how \in {"False", "corp.pem", "missing.pem"}}
  \union {[Plain EXCEPT !.max_retries = 1, !.retry_on_status = statuses] :
            statuses \in {{}, {{}}, {{503}}}}

NoStatuses == {[Plain EXCEPT !.max_retries = 1, !.retry_on_status = {{}}]}

=============================================================================
