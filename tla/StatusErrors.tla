---------------------------- MODULE StatusErrors ----------------------------
(***************************************************************************)
(* What an HTTP response becomes in the caller's hands: the exception that *)
(* raise_for_status picks (exceptions.py), or none.                        *)
(*                                                                         *)
(* A response is [status, body, retry_after].  Of its body only what the   *)
(* code tells apart is kept:                                               *)
(*   "json"     a JSON document that is not an error payload               *)
(*   "error"    {"status": "error", ...}                                   *)
(*   "missing"  the same, with a message that says a thing was not found   *)
(*   "empty"    no JSON at all (a 204, a proxy's HTML page)                *)
(***************************************************************************)
EXTENDS Integers

Bodies == {"json", "error", "missing", "empty"}

\* _STATUS_MAP
StatusMap ==
  [s \in {401, 403, 404, 409, 429} |->
     CASE s = 401 -> "AuthenticationError"
       [] s = 403 -> "ForbiddenError"
       [] s = 404 -> "NotFoundError"
       [] s = 409 -> "ConflictError"
       [] s = 429 -> "RateLimitError"]

IsSuccess(status) == status \in 200 .. 299

\* A plausible slip: an HTTP 200 is taken for a success whatever it carries.
RaiseForStatusTrusting(response) ==
  IF IsSuccess(response.status) THEN "ok" ELSE "APIError"

\* A plausible slip: _STATUS_MAP is indexed where the code uses .get().
RaiseForStatusStrict(response) ==
  IF IsSuccess(response.status) THEN "ok"
  ELSE IF response.status \in DOMAIN StatusMap
       THEN StatusMap[response.status] ELSE "KeyError"

RaiseForStatus(response) ==
  IF IsSuccess(response.status)
  THEN CASE response.body = "missing" -> "NotFoundError"
         [] response.body = "error"   -> "APIError"
         [] OTHER                     -> "ok"
  ELSE IF response.status \in DOMAIN StatusMap
       THEN StatusMap[response.status]
       ELSE IF response.status >= 500 THEN "ServerError" ELSE "APIError"

APIErrors == {"AuthenticationError", "ForbiddenError", "NotFoundError",
              "ConflictError", "RateLimitError", "ServerError", "APIError"}

\* The hierarchy under NetskopeError.
NetskopeErrors == APIErrors \union {"ValidationError", "ConnectionError", "TimeoutError"}

=============================================================================
