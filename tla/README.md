# A verification project for netskope-py-sdk

TLA+ modules that model the parts of the Netskope Python SDK whose behaviour
depends on failures, on the order of events or on other clients; TLC runs that
check them on small instances; and proofs that TLAPS checks for every instance.
Line numbers refer to `src/src/netskope/`.

## The system

The SDK is a library: a caller's thread (`NetskopeClient`) or the tasks of one
event loop (`AsyncNetskopeClient`) call methods of resource objects, which call
a transport, which calls a retry loop around httpx. There is no background
work and nothing is persisted. What makes it hard is the other side: the API
may be slow, carry a request out and lose the answer, refuse it for a while, and
other administrators change the objects that a call is about.

| component | state it keeps | operations | hard part | what makes it correct |
|---|---|---|---|---|
| retry loop (`_retry.py`) | loop counter, last response, sleep | send with retries, sync and async | lost answers, late executions, Retry-After, limits, cancellation | a result says what happened on the server; effects are bounded; it returns |
| transport (`_transport.py`) | httpx client | `request`, `close` | status check after the retries | errors become exceptions of the hierarchy |
| errors (`exceptions.py`) | none | `raise_for_status` | errors in a 200 | no error passes for a success |
| resource helpers (`resources/_base.py`) | transport | `_get` ... `_delete` | the body is decoded after the work is done | as the retry loop |
| pagination (`_pagination.py`) | offset or start index, empty pages, pages fetched | `pages`, iteration, `to_list`, `first` | the collection changes between pages; two index bases; servers without a total or that ignore the offset | no row lost or repeated beyond what the changes explain; it ends |
| read-merge-write updates (`url_lists.py`, `upgrade_profiles.py`) | the object read | `update` (GET, merge, PUT) | another update in between; a late copy of the PUT | what the caller leaves out is kept |
| `dem.users.diagnose` (`dem.py`) | list of errors shared by tasks, slices | up to 7 calls per device, plus one per host | concurrent tasks, partial failure | a report accounts for each of its slices |
| `npa.policy.groups.create` (`npa_policy.py`) | none | list, pick an anchor, POST | the anchor may be gone | a refusal made nothing |
| `rbac.roles.create/update` (`rbac.py`) | none | write, then read back | the read fails after the write | as above, but for that |
| `tokens`, registration tokens (`tokens.py`, `publishers.py`, `local_brokers.py`) | none | requests that return a secret once | a retry voids the secret of a lost answer | the secret that the caller holds is the valid one |
| drafts and deployment (`url_lists.py`, `dns.py`, `rbi.py`) | none | update, `deploy`, `revert` | a late copy of a deploy | a deploy that returned took effect |
| `incidents.update` (`incidents.py`) | none | PATCH with the value that it expects | two callers, retries | one of them wins |
| configuration (`_config.py`) | immutable record | `resolve`, `base_url` | precedence of sources, blank and empty values, missing bundles | requests go where, and trust whom, the caller said |
| clients (`_client.py`) | transport, resource objects | construct, `close`, context manager | closed while calls are in flight, asleep or between two pages | nothing new is sent, and no call hangs or passes for complete |
| extraction (`resources/_extract.py`, and in single resources) | none | `extract_list`, `extract_item`, ids | many shapes of a reply | no rows where there are some is never the answer |
| the other resources | none | checks, one HTTP call or a listing, each | order of checks and requests; requests are repeated; CCI tags are deleted in the background | retries do not show, but where a request is new each time |
| models (`models/`) | data | validation | none | - |

Every method of a resource goes through a helper of `_base.py` into
`Transport.request` (or a paginator's `_fetch_page`, which calls the transport
as well), from there into the retry loop and httpx, and back through
`raise_for_status`. Calls share the httpx client and the configuration, which
is immutable, so that calls interact on the server only; the one list that
several tasks of the SDK write is `diagnose`'s `errors`.

## Modules

| module | models | abstract spec / instance |
|---|---|---|
| `Backoff` | `_sleep_duration`, `_get_retry_after` (`_retry.py:21-47`) | operators |
| `StatusErrors` | `raise_for_status`, `_STATUS_MAP`, the hierarchy (`exceptions.py`) | operators |
| `AtLeastOnce` | what a retrying caller may rely on | abstract |
| `Retry` | `_base.py` + `_transport.py` + `_retry.py`, with network and server | refines `AtLeastOnce` |
| `MCRetry` | constants of the runs of `Retry` | |
| `RetryProofs` | the proofs about `Retry` | |
| `Listing` | what a listing promises while nobody changes it | abstract |
| `Extract` | `extract_list` (`resources/_extract.py`), the extractors of alerts, SCIM, private apps and URL lists, those of the paginators | operators |
| `Pagination` | `_pagination.py`, with a caller, a server and other clients | refines `Listing`, extends `Extract` |
| `MCPagination` | the listings that its runs consider | |
| `PaginationProofs` | the proofs about `Pagination`, and that it refines `Listing` | |
| `Config` | `NetskopeConfig.resolve`, `base_url` (`_config.py`) | operators |
| `Client` | `_client.py` and `_transport.py`: a client's life, with calls at work and an environment that changes | extends `Config` |
| `MCClient` | the programs and environments that its runs consider | |
| `ClientProofs` | the proofs about `Client` | |
| `MergedUpdate` | `update()` of URL lists and upgrade profiles | composed with `AtLeastOnce` |
| `MergedUpdateProofs` | the proofs about `MergedUpdate` | |
| `Diagnose` | `DemUsersResource.diagnose` and its async twin | uses `StatusErrors` |
| `DiagnoseProofs` | the proofs about `Diagnose` | |
| `Resources` | the methods of the 41 resource classes and their asynchronous twins, each a set of step sequences | operators |
| `ResourceProofs` | what all programs of that table have in common | |
| `Operations` | callers that run these methods against a server | extends `Resources` |
| `OperationsProofs` | the proofs about `Operations` | |
| `SequenceLemmas` | induction over the natural numbers, and what the operators on sequences that the models use return | |

### Retry

One call is a process `c` with the program counter `pc[c]`: `idle`, `sending`
(top of the loop body), `awaiting` (inside httpx's `send`), `sleeping`, `done`.
`attempt[c]` is the loop variable. The client's actions are the branches of the
loop: `Start` (the range may be empty), `Send`, `Unreachable`
(`httpx.ConnectError`), `TimesOut` (`ReadTimeout`, `WriteTimeout`),
`ConnectTimesOut` and `ConnectionBreaks` (the httpx errors that the except
clause does not name), `Answered` (status test, `raise_for_status`, `resp.json()`),
`Wake`, and `Cancelled` (the task is cancelled or interrupted anywhere).

The environment is `CarryOut` and `Decline`: a request that was sent (`wire[c]`
holds the attempts whose request the server has yet to see) may be processed at
any later time, or never, and the answer reaches the client only if it still
waits for that attempt. The answer to a request that was carried out may be a
5xx of a gateway. `kind[c]` says what the request does: `get`, `append` (a POST
or PATCH that takes effect whenever it arrives), `create` (needs that the entity
is absent), `delete` (that it is present). The calls share one entity, so that
they interfere. `effects[c]` counts executions; `lost` and `failed` are history.

The sync and async loops are the same but for the exception at their unreachable
end (`RuntimeError`, `AssertionError`), for which one name stands.

### Pagination

The generator's locals are variables (`offset`, `empties`, `fetched`, `page`,
`total`), `pc` is where it is suspended, `results` what the caller was handed.
`paginator` selects between the offset and the SCIM class, which differ in the
index base, the comparison with the total and the empty pages they tolerate.
`hidden` are rows that are no JSON objects: the server counts them, `extract_list`
drops them, and other extractors hand them to the model, which raises. `first()` is
a `max_items` of 1, and plain iteration one larger than the collection.

What a run lists is a record, `listing`: paginator, page size, `max_items`, how many
rows there are, how many a page holds at most (`cap`), how many changes others make,
which extractor reads the replies, what stands at the places it may look at (`body`)
and at which of them the rows are (`envelope`). `Extracted` says where the
extractor takes its list from, and `Fails` when it calls `get` on a list. A reply
whose list is not taken is a page without items, as in the code, which cannot tell
the two apart; `ExactlyTheShownRows` and `ImplementsListing` are about replies whose
list is taken, and `EmptyMeansEmpty` about which those are.

### Config and Client

`Resolve` maps arguments and an environment to a configuration, or to none where
the code raises a `ValidationError`. Texts are sequences of fragments (a host, a
protocol, a slash, a blank), which is what `strip`, `removeprefix`, `rstrip` and
`endswith` tell apart; `""` and `None` are both the empty one. The fragments that are no
hosts have names, `Space`, `Slash`, `Https`, `Http`; an unset or empty variable is `Unset`.

`Client` is one client from construction (`Construct`, which reads `env` of that
moment) to `Close`, with several calls at work. `ChangeEnvironment` is other code of
the program, at any time. A call is a listing of `Pages[c]` pages, or one request. It
goes through `sending` (httpx's `send` is about to look at whether the client is
closed), `connecting`, `awaiting`, `sleeping`, `holding` (the caller has a page) and
`done`. These are `Retry`'s and `Pagination`'s loops with what does not meet `close`
left out: here a call's answers do not depend on what others did. `ConnectionBreaks`
is also what closing the pool does to a request in flight; such a request may as
well be answered. `after` counts what a call sent after the closing, `late` has the
calls begun then, `requests` where requests went and with which token.

httpx is outside the repository: it is assumed to look at its state once for every
`send` and to raise a `RuntimeError` if it is closed. Its check and its mark that it
is open are one step here; between two threads they are two in httpx.

### MergedUpdate

`update(u)` is `Begin` (argument checks), `Read` or `ReadRaises`, then a PUT that
goes through the channel of `AtLeastOnce` (`SendPut`, `PutArrives`, `PutReturns`),
which is what `Retry` was proved to implement: the copies of a PUT may be lost,
may be late and may come twice. A field's value is the name of the update that
wrote it. `deploy()` of URL lists is a plain POST (kind `append` of `Retry`).

### Diagnose

A task is the sequence of calls that it has left. In the sync client task 0 has
them all; in the async client `Gather` gives every device its own. `Answer` is
a call that returns or fails with an `APIError`, `Escape` one that
raises what `_safe` does not catch, `Raise` is gather passing it on while the other
tasks continue. How a single call behaves is `Retry`'s business; here it ends
with a member of `Results`.

`Safe` is the entry that a failed call leaves in `errors`, `Store` what becomes of its
value. `values` and `nones` are the slices that hold one or the other. The docstring says
that a failing endpoint stores a None "for that slice" (`dem.py:1113-1115`); two do not.
`devices or []` makes an empty list of devices of a failed `getlist` (`dem.py:1150` and
`1406`), and a failed `getnetworkpaths` is not appended (`dem.py:1210` and `1475`), so
that neither can be told from "no devices" or "no such host" without looking at `errors`.
`HoldsNone` names the other calls, and `ReportIsComplete` says of each slice what it
holds. `diagnose_guards` contradicts the same sentence in a worse way.

The ids of devices, and the hosts of a device, are taken to be different from each
other. The application filter (`_filter_apps`) does not change which slices there are,
and is left out, as is a reply of JSON null, which the code takes for a failed call
without an entry.

### Resources and Operations

`Resources` is a table: for each class a record from its methods to programs,
sequences such as `check, get, parse, set, parse` (the `update` of URL lists) in
the order of the code. A method has more than one program if arguments or a reply
decide between them (`rbac.roles.create` reads the role back if the reply names
it). Steps say what a request asks for: to make an object, to give it values, to
give them if it still has others, to add or remove members, for a new secret, to
deploy drafts. One PATCH of a CCI tag may do several of these at once (`add_set`,
`remove_set`, `replace_set`; `cci.py:129-143`). What happens anew whenever it is asked
for is an `append`: notes, reports, scans, upgrades of publishers
(`publishers.py:243`), resets of cloud storage (`rbi.py:274`). Each asynchronous class is defined as its twin: they were compared,
syntax tree by syntax tree, and apart from `await` are the same (`scim`
validates an id a line earlier or later, always before the request).

In `Operations` all callers use one resource, each runs one of its programs,
and `step[c]` is the program counter. `Check` and `Parse` may raise; a request is
`Answered` (carried out, and the reply may not decode), `Refused` (any status
that `raise_for_status` turns into an exception), or has `NoAnswer`, which is
the retry loop in short: the next attempt, or the end of the call. `strays[c]`
are the attempts without an answer, whose copy `StrayArrives` carries out later or
drops, as `AtLeastOnce` allows. The deletion of CCI tags returns when it is accepted
(202) and happens in the background (`cci.py:266-268`): its request puts the caller
into `accepted`, and `Purge` carries it out at any later time. The server holds one
object with its live version,
the tenant's settings, the members of a set, the latest secret and a count of
entries. `done`, `lost`, `before` and `found` are history.

The server is the part that the repository does not contain. Assumed of it: it
takes no second object of the same name ("HTTP 409 - a resource conflict occurred
(e.g. duplicate name)", `exceptions.py:75`), finds nothing that was deleted,
refuses a swap whose old value is wrong ("optimistic lock", `incidents.py:189`), a
new secret voids the one before ("invalidating the old one", `tokens.py:203`), and
updates of resources with a deploy are drafts until then. A deletion that was accepted
is carried out at some time; when that is, nothing is assumed of, and no property needs it.

A cancelled call is one that has no answer and is not repeated, which `NoAnswer`
covers as far as the server is concerned.

## Runs

| run | question | instance | states |
|---|---|---|---|
| `retry` | do two concurrent calls of any kinds report what they did? | 2 calls, `max_retries` 0 and 1 | 770 thousand |
| `retry_loop` | does the loop use its retries, keep to the server's pace, end, and implement `AtLeastOnce`? | 1 call, `max_retries` -1 to 3, 12 statuses, all header forms | 38 thousand |
| `retry_errors` | *violated*: is every exception a `NetskopeError`? | 1 call, no retries | |
| `pages` | what does a listing hold, of a collection that others change, that nobody does, that is served in short pages or in any envelope? does it end? | see below | 1.11 million |
| `to_list_limit` | *violated*: does `to_list` return at most `max_items`? | `max_items` 0 | |
| `updates` | do updates one after the other compose? what loses fields? | 2 updates, 2 fields, 1 object, 1 or 2 attempts | 1.03 million |
| `lost_update` | *violated*: are fields that the caller left out preserved? | as above, 1 attempt, two updates of different fields | |
| `diagnose` | is a report complete, final, and does it come? | 2 devices, 1 host each | 210 thousand |
| `diagnose_guards` | *violated*: is every sub-call guarded? | 1 device | |
| `operations` | what may the callers of any two methods of a resource rely on? | 82 classes, every pair of programs, 2 callers, 2 attempts | 1.10 million |
| `client` | where do requests go, whom does a client trust, what does it retry, and how do calls end when it is closed? | 16 programs, 4 environments that change into each other, a listing of 2 pages and a call, `max_retries` 0 and 1 | 400 thousand |
| `empty_retry_set` | *violated*: do only the statuses that the caller named trigger retries? | the empty set, `max_retries` 1 | |

What the passing runs show:

* `OkMeansCarriedOut`, `CertainResultIsExact`, `BoundedDuplication`,
  `NoRetriesIsAtMostOnce`: a success was carried out at least once, at most
  `max_retries + 1` times, and if no attempt ended without an answer and none was
  answered with a 5xx, exactly once; then an `APIError` means that nothing
  happened. The qualification is needed: after a 503 a create may end in
  `ConflictError`, and a delete in `NotFoundError`, although the call did its work.
* `ResultIsFinal`: what a finished call did can change later only if one of its
  attempts was given up without an answer.
* `TransientErrorsAreRetried`, `RetryAfterHonoured`, `CallReturns`: the retries
  the documentation announces are made, a numeric Retry-After of up to five
  minutes is a lower bound of the sleep, and a call returns whatever the server does.
* `InsertionsHideNothing`, `DeletionsRepeatNothing`: concurrent insertions
  repeat rows and hide none; concurrent deletions hide rows and repeat none.
  `IterationEnds`: also over an endpoint that ignores the offset.
* `ExactlyTheShownRows`: a listing of a stable collection that ended has handed over
  the rows that the server showed on its pages, up to the last of `_MAX_PAGES` or to
  a run of empty pages, and nothing else. So a longer collection, a gap of two
  pages (one with SCIM) or a server with shorter pages than it was asked for lose
  exactly the rows that the formula leaves out.
* `EmptyMeansEmpty`: where a reply has one list, at a place `extract_list` documents,
  no rows means that there are none.
* `NoNeedlessRequest`, `ImplementsListing`: a stable collection without such gaps is
  handed over row by row, complete and in order, by both paginators, with no page
  fetched before it is wanted or after the announced total.
* `SequentialUpdatesCompose`: updates of an object that do not overlap, late
  copies of a PUT included, never undo each other. `OnlyStaleReadsLoseFields`: a
  write loses a field only if another write came between its GET and itself.
* `ReportIsComplete`, `NothingRunsOn`, `DiagnoseEnds`: each slice of a report holds
  a value, or has exactly one entry in `errors`, and then it holds a None, unless it is
  the list of devices (empty) or a network path (absent); nothing changes a report
  that was handed over; `diagnose` ends, and so do the tasks that it leaves behind.

* `RefusedMeansUntouched`: a `ValidationError` means that nothing was sent, an
  error of the server that nothing was changed, unless an attempt had no answer;
  `rbac.roles.create` and `update`, which read after they write, are the one
  exception of the whole SDK (without it, TLC shows a `create` that raises and
  leaves a role behind).
* `RetriesAreInvisible`: when the server has seen the last of a call that no other
  overlaps, it is as if the call had been carried out once, however often it was sent, or
  not at all, which is no longer open if it returned. Not covered are requests that are
  new each time: secrets, notes, scans, reports, upgrades of publishers, resets of cloud
  storage. Of a deletion of CCI tags it says so once the deletion has happened, which may
  be after the call returned.
* `HeldSecretIsLatest`: the secret that a caller holds is the valid one, unless an
  attempt had no answer: after a retry it may be void already.
* `DeployMakesLive`: a deploy that returned deployed what was staged before. That
  nothing else goes live is not promised: copies of a deploy may arrive late and take
  along what was staged since. `OneSwapWins`: of two
  callers that expect the same value, at most one is told that it succeeded.

* `RequestsGoWhereTheClientPoints`, `ExplicitArgumentsDecide`, `TrustIsAsTold`,
  `RetriesWhatItIsTold`: a client uses what it was told at construction, arguments
  first, whatever the environment says later; a missing CA bundle is refused and never
  replaced by another; statuses that were named are retried, and only these, unless the
  set is empty.
* `NothingNewAfterClose`, `OkMeansComplete`, `CallsReturn` (of `Client`): closing lets a
  call finish the request it is at and nothing more, never makes a listing look
  complete, and leaves no call without an end: it raises httpx's `RuntimeError`, which
  is no `NetskopeError` either.

What the violated runs show is in `PROJECT.json` under `findings`, each with the
sentence of the documentation that it contradicts.

### Bounds, and why they are enough

Two calls are enough for one to interfere with the entity of the other, and a
call's effects on its own depend on the number of its attempts only; `retry_loop`
goes to the default `max_retries` of 3 and the proofs cover every number. For the
listing, a row can only be lost or repeated at a page boundary: four rows with
page size 1 or 2 have several, and two changes allow an insertion and a deletion
in any order. `MCPagination` unites four sets: `Busy` (up to 4 rows, 2 changes),
`Quiet` (up to 7 rows, page sizes 1 to 3, four `max_items`), whose seven rows hold pages
of hidden rows between two visible ones for every page size, `Capped` (pages of 1 or 2
rows where 2 or 3 were asked for), and `Shapes` (every extractor, every reply with up
to two keys, and every place its rows may be). `_MAX_PAGES` is 1000 in the code and 5
here: collections of up to 7 rows end before it, at it and, with page size 1, beyond
it, as does every listing of the stuck server. Two updates are enough for a lost update; the second
attempt gives a PUT a late copy. Two devices give gather two tasks. The properties
of `operations` are about one call or two, and the second attempt is the first with
a late copy before it. A client differs from
another by one argument at a time from a plain one, which is how `resolve` treats
them, but for tenant and token, which are also left out together; a listing of two
pages has one boundary for `close` to fall on. `changes`
bounds the other clients of `Pagination`; `RetryBudgets` the attempts; all other
variables are bounded by these.

Deadlock is checked in the runs of `Retry`, `MergedUpdate` and `Operations`, whose `Quiet` step
says when the system may stop. A listing, a report and the calls of a client end for good, and their
configurations turn the check off; that they end well is a liveness property.

### Fairness

* `Retry`: `WF(ClientStep(c))`. httpx's read and write timeouts fire and sleeps
  end, so a call that was started makes its next step. Nothing is assumed of the
  server, of the network, of cancellation, or that a call is made.
* `Pagination`: `WF(Proceed)`: the caller keeps iterating (a `for` loop,
  `to_list`), and a request that does not fail is answered (`CallReturns`). Nothing
  of the other clients. `Listing` has the same assumption.
* `Diagnose`: weak fairness for each task: its calls return (`CallReturns`) and
  the event loop resumes every task that is ready.
* `Client`: `WF(CallStep(c))`, as `Retry`, and a caller that keeps iterating. Nobody
  has to close the client or to leave the environment alone.
* `MergedUpdate` and `Operations` state safety only.

## Proofs

Each `...Proofs` module EXTENDS the module that it is about. Its theorems hold for every
value of the constants under the named assumptions (`ASSUME ...Assumption`), which the
runs evaluate for theirs. The pattern is the same everywhere: an invariant that is
inductive, one lemma for each action that shows that it is kept, with one step for each of
its parts, and theorems that read the properties off it. Every such invariant was checked
by TLC before it was proved.

### Retry

For any set `Calls`, any set of integers for `max_retries` and any set of statuses and
headers: `TypeCorrect`, `SuccessIsReal`, `DuplicationIsBounded`, `CertainResults`,
`FailFast`, `RetriesAreUsed`, `ServerIsNotRushed`, `ResultsAreFinal`, and `Refinement`,
that `Retry` implements `AtLeastOnce`.

The assumptions are those of `Backoff` and `Retry`: a positive number of
ticks per second, a backoff factor that is not negative, integer budgets,
statuses that are not 2xx and include those that are retried, headers of the
three forms. `PowerAssumption` is arithmetic (2^n is a natural number), for which
the provers have no rule.

Types alone are not inductive: a sleep is a number only if the attempt it is
computed from is a natural number with a power of two, so `TypeInv` adds `LoopInv`,
which ties `attempt` to `pc` and `max_retries`. The safety invariants need
`CallInv`, per call:

* `WireInv`: requests on the wire belong to attempts that were made;
* `SpentInv`: executions plus requests on the wire do not exceed the attempts
  that were sent (the induction behind `BoundedDuplication`);
* `AnswerInv`: an answer on its way is the answer of the current attempt, whose
  request has left the wire, and says "ok" only if the request was carried out;
* `SettledInv`, `ExactInv`, `FirstInv`: as long as no attempt was lost and none
  crashed, the earlier attempts had no effect and left nothing on the wire;
* `HeaderInv`: the sleep against the header it is due to.

A step of one call leaves the others' conjuncts alone (`Frame`).

### Client

For any set of calls, any number of pages, and any arguments, environments and statuses:
`TypeCorrect`, `ClosingStopsCalls` (`NothingNewAfterClose`), `CompleteIsComplete`
(`OkMeansComplete`), `RetriesAsTold` (`RetriesWhatItIsTold`), `ExplicitFirst`
(`ExplicitArgumentsDecide`), `TrustsAsTold` (`TrustIsAsTold`) and `RequestsAim`
(`RequestsGoWhereTheClientPoints`). Assumed: `max_retries` is not negative (`Retry` covers
that case), no 200 is retried, `retry_on_status` is None or one set, and no host is a
blank, a slash or a protocol. `Inv` adds to the types, per call:

* `LifeInv`: a call that holds no page has one to come, a sleeping one an attempt
  left, and a result belongs to a call that is done;
* `CloseInv`: on a closed client, a call that is connecting has sent nothing since,
  and one that was begun late is before its first `send` or done. Without it a call
  could send a request, and then connect again;
* `StatusInv`: a status that a call sleeps for is one that was asked for.

`TrustsAsTold` rests on `VerifyChooses`: the loop over the variables finds the first that
is set. `RequestsAim` has a hypothesis of its own, `TextsAreOrderly`: a tenant is written
as blanks, perhaps a protocol, one host, then slashes and blanks; or it is nothing but such
separators, which is refused. Two protocols in a row are allowed unless both are
`http://`, since `Normalize` takes one away and `base_url` may keep an `https://`.
`PrefixesGo`, `NormalizeFindsHost` and `BaseUrlOfHost` show that the code makes the same
address of all of these. The hypothesis holds of every text of the run. Outside it the
property need not hold: of `http://http://host` the code makes `https://http://host`.

### Pagination

For listings of any length, page size, cap, `max_items`, number of changes and page limit:
`TypeCorrect`, `NothingTwice` (`DeletionsRepeatNothing`), `NothingHidden`
(`InsertionsHideNothing`), `ListingIsExact` (`ExactlyTheShownRows`), `EmptyIsEmpty`
(`EmptyMeansEmpty`), `PagesOnDemand` (`NoNeedlessRequest`) and `ListingSteps`: the
refinement of `Listing`, but for its fairness (`List!Init` and `[][List!Next]`). Assumed: a
positive `MaxPages`, and listings that are records of the right form.

`Reach` is the first position that the listing has not asked for. On top of the types,
with the arithmetic that ties `offset`, `fetched` and `page_size` together (`CountInv`):

* `OrderInv`: while nobody inserts, collection, results and page are in the server's
  order, and everything behind `Reach` comes after everything taken. A deletion moves rows
  ahead of `Reach`, never back;
* `FrontInv`: while nobody deletes, every row before `Reach` was taken or is new; once a
  total is reached, so is every row there is. An insertion moves rows behind `Reach`;
* `PagesInv`: of an undisturbed listing, what was taken is what the pages up to `fetched`
  showed, with no run of empty pages in between;
* `DemandInv`: of a listing that can be listed in full, how many rows were taken, and that
  the pages fetched so far were needed.

The refinement adds that the rows taken are a prefix of the visible ones. Both are in the
server's order, so that they are the same sequence if they are the same set
(`IncreasingPrefix`, `IncreasingEqual`); `PagesInv` says that they are.

### MergedUpdate

For any updates, objects, fields and numbers of attempts: `TypeCorrect`,
`SequentialCompose` (`SequentialUpdatesCompose`) and `FieldsSurvive`
(`OnlyStaleReadsLoseFields`). Assumed: attempts are positive, and no update is called
"nobody" or "other", which stand for other writers. The invariant says what the history
variables mean:

* `WriterInv`: an object holds the whole payload of its last writer;
* `SeenInv`: an update holds what the last writer before its GET had written, unless the
  reply was misread;
* `OverlapInv`: two updates of an object that are under way at once are noted in
  `overlap`; the object of one that overlaps with none was last written by itself, or by
  whom it read. Under way includes copies of a PUT that are still to come;
* `ChannelInv`: no copies before the PUT.

### Diagnose

For any number of devices and hosts: `TypeCorrect`, `ReportsAreComplete`
(`ReportIsComplete`) and `NothingIsLeftRunning` (`NothingRunsOn`). Assumed: at least one
device is possible, and calls may succeed. `OwnerInv`: a call is on the list of one task,
once. `SliceInv`: the calls made and the calls left are disjoint, and together they are
the slices, of which more become known as devices and hosts do. `ErrorInv`: `errors` has
each failed call once, and those that can hold a None do. `EndInv`: how the call ends tells what is left.

### Resources and Operations

`ProgramsAreOrderly` goes through the table: each program of each of the 82 classes checks
its arguments first or not at all, and writes at most once. The proofs about `Operations`
use the table through this and a few facts of the same kind (only two programs read back
what they wrote; no class has both swaps and reverts).

For any callers, any resource, any of its programs and any number of attempts:
`TypeCorrect`, `RefusalIsReal` (`RefusedMeansUntouched`), `InvisibleRetries`
(`RetriesAreInvisible`), `LatestSecret` (`HeldSecretIsLatest`), `DeployIsLive`
(`DeployMakesLive`) and `SwapsExclude` (`OneSwapWins`). Assumed: an attempt at least, and no caller called "absent" or
"original", which stand for contents that nobody wrote. The invariant has two halves.
`ControlInv` is about calls: where one that ended has stopped (`LifeInv`), and that a
write was taken, that is carried out or accepted, if its step was passed, and not before
it was reached (`WriteInv`).
`ServerInv` is about what the server holds, and rests on the first:

* `SecretInv`: once a step that hands a secret out is passed, without a lost attempt and
  without rivals, the secret held is the server's;
* `DeployInv`: what a deploy that was passed found staged is live;
* `SwapInv`: a swap that was carried out did away with the value that every other expects;
* `AloneInv`: the server is what the only caller found, with its write applied once if it
  was carried out. Keeping it takes that applying a write twice is applying it once.

### What is left to TLC

Liveness: `CallReturns` of `Retry`, `CallsReturn` of `Client`, `IterationEnds`,
`DiagnoseEnds`, and the fairness in `ImplementsListing`: temporal reasoning under
fairness is outside the prover. Everything else that a passing run checks is a theorem.

Induction has no rule in the provers' library that they can use, since it takes an operator
for a parameter. `SequenceLemmas` therefore states it for sets: a set that has 0, and n + 1
with every n, has all natural numbers. What a recursive function of the models computes
(`Visible`, the loop of `Verify`, `FlattenSeq` of the community modules) is proved with it.

## Not modelled, and why

TLS, headers and log lines have no control flow. Pydantic models are data. A
negative `backoff_factor`, NaN and infinite Retry-After values are left out of
`Backoff`. The payloads and query parameters that methods build from their arguments
are left out of `Resources`, and so are the pages of a listing there; where the anchor
of `npa.policy.groups.create` puts a group is up to the server. `extract_item` and
`validate_id` may raise, and which documents and ids make them is left out.

`Extract` has no URL list whose `urllists` is not a list (the code then takes the
envelope for a row) and no `result` that is an object with `data` in it. `Config` has
no tenant that is malformed inside ("http://" twice, "HTTPS://", a blank between two
letters; of two protocols in a row it has "https://" twice): the code accepts some of these and builds a base URL that no request can be
sent to. `allow_custom_tenant`, which the clients do not pass, and
`find_netskope_ca_cert`, which looks for files and is never called by the SDK, are left out.
A generator that has raised and is asked again ends at once, as every Python generator
does: the state `raised` of `Pagination` is final.

## Plan

Done, in this order, the most important first: the retry loop with its abstract
channel and its proofs; pagination; the read-merge-write updates composed with
the channel; `diagnose`; the methods of all resource classes, synchronous and
asynchronous; the extractors, composed with pagination; the configuration and the life
of a client, with its proofs.

Then the proofs, of all components in this order: `Retry`, `Client`, `MergedUpdate`,
`Operations`, `Diagnose`, `Pagination` with its refinement of `Listing`. Every invariant and
every action property of the runs is a theorem.

Next:

1. Links between the models: that the channel of `Operations` (`Answered`, `NoAnswer`,
   `StrayArrives`) is `AtLeastOnce` for one request, and that the calls of `Client` are
   those of `Retry`; so far both are by reading.
2. Lemmas about `Backoff` and `StatusErrors` on their own: bounds of `SleepDuration`,
   which bodies `RaiseForStatus` lets pass.

## Running the checks

    tlc -workers 2 -config Retry.cfg MCRetry.tla     # any run: its cfg, its module
    tlapm RetryProofs.tla                            # any ...Proofs module, SequenceLemmas

`PROJECT.json` lists for every run its module, configuration and properties; for
every definition of a module the lines of the source it models; for every
property a mutation of the model that it detects; and the hazards of the code
with the properties that watch them.
