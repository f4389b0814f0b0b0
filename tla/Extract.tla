------------------------------ MODULE Extract ------------------------------
(***************************************************************************)
(* Where a listing looks for its rows in the body of a reply               *)
(* (resources/_extract.py, the extractors of single resources, and the     *)
(* paginators' own).                                                       *)
(*                                                                         *)
(* A body is described by what stands at the places that some extractor    *)
(* looks at: "body" is the body itself, "data.key" and "key" the key that  *)
(* the resource has for its rows ("rules", "private_apps", "urllists"),    *)
(* and "data.data" the key "data" inside "data".                           *)
(***************************************************************************)
EXTENDS Naturals, Sequences

Places == {"body", "result", "data", "data.data", "data.key", "key", "Resources"}

\* A list, a JSON object, anything else (null included), or no such key.
Found == {"list", "object", "other", "missing"}

\* Keys are looked up in objects only.
WellFormed(body) ==
  /\ body["body"] \in {"list", "object"}
  /\ \A place \in {"result", "data", "key", "Resources"} :
       body["body"] = "list" => body[place] = "missing"
  /\ \A place \in {"data.data", "data.key"} :
       body["data"] # "object" => body[place] = "missing"

Bodies == {body \in [Places -> Found] : WellFormed(body)}

\* The extractors that a paginator is built with.
Extractors == {"extract_list", "alerts", "scim", "private_apps", "url_lists",
               "offset_default", "scim_default"}

\* The first of these places with a list: a set of at most one.
FirstList(body, places) ==
  {places[n] : n \in {m \in DOMAIN places :
     /\ body[places[m]] = "list"
     /\ \A k \in 1 .. m - 1 : body[places[k]] # "list"}}

\* A plausible slip: what is nested in "data" is not looked at.
ExtractListShallow(body) ==
  FirstList(body, <<"body", "result", "data", "key", "Resources">>)

ExtractList(body) ==
  FirstList(body, <<"body", "result", "data", "data.key", "key", "Resources">>)

\* body.get(first, []) is a list already if the key is missing, so that the
\* second key counts only beside a first one that holds something else.
ExtractEither(body, first, second) ==
  CASE body[first] = "list"    -> {first}
    [] body[first] = "missing" -> {}
    [] OTHER                   -> FirstList(body, <<second>>)

ExtractAlerts(body) == ExtractEither(body, "result", "data")

ExtractScim(body) == ExtractEither(body, "Resources", "data")

\* _extract of private_apps: data.private_apps, or data.
ExtractPrivateApps(body) ==
  IF body["data"] = "object" THEN FirstList(body, <<"data.key">>)
  ELSE FirstList(body, <<"data">>)

\* _extract of url_lists: the body, data.urllists or data.  (With a urllists
\* that is not a list, data itself passes for a row; the model has no such row.)
ExtractUrlLists(body) ==
  IF body["data"] = "object" THEN FirstList(body, <<"data.key">>)
  ELSE FirstList(body, <<"body", "data">>)

\* A paginator without an extractor.  A "data" that is there hides "result".
\* (A result that is an object has no "data" in the model.)
ExtractOffsetDefault(body) ==
  CASE body["body"] = "list"    -> {"body"}
    [] body["data"] = "object"  -> FirstList(body, <<"data.data">>)
    [] body["data"] = "missing" -> FirstList(body, <<"result">>)
    [] OTHER                    -> FirstList(body, <<"data">>)

ExtractScimDefault(body) == FirstList(body, <<"Resources">>)

\* The place that the rows are taken from.
Extracted(extractor, body) ==
  CASE extractor = "extract_list"   -> ExtractList(body)
    [] extractor = "alerts"         -> ExtractAlerts(body)
    [] extractor = "scim"           -> ExtractScim(body)
    [] extractor = "private_apps"   -> ExtractPrivateApps(body)
    [] extractor = "url_lists"      -> ExtractUrlLists(body)
    [] extractor = "offset_default" -> ExtractOffsetDefault(body)
    [] extractor = "scim_default"   -> ExtractScimDefault(body)

\* body.get is called on a list.
Fails(extractor, body) ==
  body["body"] = "list" /\ extractor \in {"alerts", "scim", "private_apps", "scim_default"}

\* _only_dicts: entries that are not JSON objects are dropped; the other
\* extractors hand them to the model, which refuses them.
DropsNonObjects(extractor) == extractor \in {"extract_list", "url_lists"}

=============================================================================
