------------------------------ MODULE Diagnose ------------------------------
(***************************************************************************)
(* dem.users.diagnose(): one report put together from many calls           *)
(* (resources/dem.py).  A call that fails with an APIError leaves an entry *)
(* in a list of errors that all parts share, and a None in its slice.  The *)
(* list of devices and a network path leave no None: the code takes a None *)
(* for an empty list, and appends no path.                                 *)
(*                                                                         *)
(* The sync client makes the calls one after the other.  The async client  *)
(* runs the devices as tasks of one asyncio.gather.  A task is the         *)
(* sequence of calls it has left; task 0 is diagnose() itself.             *)
(***************************************************************************)
EXTENDS Integers, Sequences, SequencesExt, Bags, StatusErrors

CONSTANTS
  MaxDevices,  \* bound: devices of a user
  MaxHosts,    \* bound: NPA hosts that a device may reach
  Results      \* how a call may end: "ok" or an exception, as in Retry

ASSUME CountAssumption == MaxDevices \in Nat \ {0} /\ MaxHosts \in Nat
ASSUME ResultAssumption == "ok" \in Results

VARIABLES
  client,       \* "sync" or "async"
  include_npa,  \* argument
  device_id,    \* argument: was a device given?
  device_ids,   \* the devices of the report
  hosts,        \* hosts[d]: the hosts of the device, from npaHosts
  pc,           \* "resolving" or "gathering" the devices
  todo,         \* todo[t]: calls the task has left
  escaped,      \* tasks that ended with an exception
  values,       \* slices that hold what a call returned, or were made from it
  nones,        \* slices that hold None
  errors,       \* the report's errors: the calls they are about, in any order
  outcome       \* "none", "report", "raised" or "cancelled"

arguments == <<client, include_npa, device_id>>
slices == <<values, nones, errors>>
vars == <<arguments, device_ids, hosts, pc, todo, escaped, slices, outcome>>

Devices == 1 .. MaxDevices
Hosts == 1 .. MaxHosts
Tasks == {0} \union Devices
Endpoints == {"getinfo", "getlist", "getdetails", "getapplications",
              "getaggregatedscores", "getrca", "getnpahosts", "getnetworkpaths"}
SubCalls == [endpoint : Endpoints, device : Tasks, host : {0} \union Hosts]

Call(endpoint, d) == [endpoint |-> endpoint, device |-> d, host |-> 0]

TypeOK ==
  /\ client \in {"sync", "async"}
  /\ include_npa \in BOOLEAN
  /\ device_id \in BOOLEAN
  /\ device_ids \subseteq Devices
  /\ hosts \in [Devices -> SUBSET Hosts]
  /\ pc \in {"resolving", "gathering"}
  /\ todo \in [Tasks -> Seq(SubCalls)]
  /\ escaped \subseteq Tasks
  /\ values \subseteq SubCalls
  /\ nones \subseteq SubCalls
  /\ IsABag(errors) /\ BagToSet(errors) \subseteq SubCalls
  /\ outcome \in {"none", "report", "raised", "cancelled"}

Init ==
  /\ client \in {"sync", "async"}
  /\ include_npa \in BOOLEAN
  /\ device_id \in BOOLEAN
  /\ device_ids = IF device_id THEN {1} ELSE {}
  /\ hosts = [d \in Devices |-> {}]
  /\ pc = "resolving"
  /\ todo = [t \in Tasks |->
       IF t # 0 THEN <<>>
       ELSE IF device_id THEN <<Call("getinfo", 0)>>
       ELSE <<Call("getinfo", 0), Call("getlist", 0)>>]
  /\ escaped = {}
  /\ values = {}
  /\ nones = {}
  /\ errors = EmptyBag
  /\ outcome = "none"

-----------------------------------------------------------------------------
\* _diagnose_device: the calls for one device.
Work(d) ==
  <<Call("getdetails", d), Call("getapplications", d),
    Call("getaggregatedscores", d), Call("getrca", d)>>
      \o IF include_npa THEN <<Call("getnpahosts", d)>> ELSE <<>>

\* _diagnose_npa: the calls for the hosts of a device.
PathTo(d, h) == [endpoint |-> "getnetworkpaths", device |-> d, host |-> h]
Paths(d, found) == SetToSeq({PathTo(d, h) : h \in found})

\* _safe: except APIError.
Guarded(result) == result \in APIErrors

\* A plausible slip: the exception is swallowed where it should be noted.
SafeSilent(call, result) == UNCHANGED errors

\* _safe, when it does not raise: without a value there is an entry.
Safe(call, result) ==
  IF result = "ok" THEN UNCHANGED errors ELSE errors' = errors (+) SetToBag({call})

\* "devices or []" makes an empty list of a None, and "if path is not None" leaves
\* a path out: only the other calls have a slice that can hold one.
HoldsNone(call) == call.endpoint \notin {"getlist", "getnetworkpaths"}

\* What becomes of the value, or of the None.
Store(call, result) ==
  /\ values' = IF result = "ok" THEN values \union {call} ELSE values
  /\ nones' = IF result # "ok" /\ HoldsNone(call) THEN nones \union {call} ELSE nones

\* A plausible slip: devices without an id are kept.
FoundUnfiltered(call, result) ==
  /\ IF result = "ok" /\ call.endpoint = "getlist"
     THEN device_ids' \in {m .. n : m \in {0, 1}, n \in 0 .. MaxDevices} ELSE UNCHANGED device_ids
  /\ IF result = "ok" /\ call.endpoint = "getnpahosts"
     THEN \E n \in 0 .. MaxHosts : hosts' = [hosts EXCEPT ![call.device] = 1 .. n]
     ELSE UNCHANGED hosts

\* The devices that a list holds, or the hosts: what the next calls are about.  They
\* are taken to be different from each other.
Found(call, result) ==
  /\ IF result = "ok" /\ call.endpoint = "getlist"
     THEN device_ids' \in {1 .. n : n \in 0 .. MaxDevices} ELSE UNCHANGED device_ids
  /\ IF result = "ok" /\ call.endpoint = "getnpahosts"
     THEN \E n \in 0 .. MaxHosts : hosts' = [hosts EXCEPT ![call.device] = 1 .. n]
     ELSE UNCHANGED hosts

\* A call of the task ends well, or with an exception that _safe turns into an
\* entry, and the task goes on to its next.
Answer(t) ==
  /\ todo[t] # <<>> /\ t \notin escaped
  /\ LET call == Head(todo[t])
     IN  /\ \E result \in Results :
              /\ result = "ok" \/ Guarded(result)
              /\ Safe(call, result)
              /\ Store(call, result)
              /\ Found(call, result)
         /\ todo' = [todo EXCEPT ![t] =
              IF call.endpoint = "getnpahosts"
              THEN Paths(call.device, hosts'[call.device]) \o Tail(@) ELSE Tail(@)]
  /\ UNCHANGED <<arguments, pc, escaped, outcome>>

\* It ends with one that _safe lets through: ConnectionError, TimeoutError, or
\* what the retry loop does not translate.  This is the end of the task.
Escape(t) ==
  /\ todo[t] # <<>> /\ t \notin escaped
  /\ \E result \in Results : result # "ok" /\ ~Guarded(result)
  /\ escaped' = escaped \union {t}
  /\ UNCHANGED <<arguments, device_ids, hosts, pc, todo, slices, outcome>>

\* The devices are known: a loop over them, or a task for each.
Gather ==
  /\ outcome = "none"
  /\ pc = "resolving" /\ todo[0] = <<>>
  /\ pc' = "gathering"
  /\ todo' = [t \in Tasks |->
       IF client = "sync" /\ t = 0
       THEN FlattenSeq([i \in 1 .. Cardinality(device_ids) |-> Work(i)])
       ELSE IF client = "async" /\ t \in device_ids THEN Work(t) ELSE <<>>]
  /\ UNCHANGED <<arguments, device_ids, hosts, escaped, slices, outcome>>

\* A plausible slip: the report is returned when the first device is through.
FinishedFirst ==
  \/ \E d \in device_ids : todo[d] = <<>> /\ todo[0] = <<>> /\ d \notin escaped
  \/ \A t \in Tasks : todo[t] = <<>>

Finished == \A t \in Tasks : todo[t] = <<>>

Return ==
  /\ outcome = "none"
  /\ pc = "gathering" /\ Finished
  /\ outcome' = "report"
  /\ UNCHANGED <<arguments, device_ids, hosts, pc, todo, escaped, slices>>

\* A plausible slip: all tasks are waited for before the exception is passed on.
RaiseAfterAll ==
  /\ outcome = "none"
  /\ escaped # {} /\ \A t \in Tasks : todo[t] = <<>>
  /\ outcome' = "raised"
  /\ UNCHANGED <<arguments, device_ids, hosts, pc, todo, escaped, slices>>

\* gather passes the first exception on, and leaves the other tasks running.
Raise ==
  /\ outcome = "none"
  /\ escaped # {}
  /\ outcome' = "raised"
  /\ UNCHANGED <<arguments, device_ids, hosts, pc, todo, escaped, slices>>

\* The caller is cancelled, and gather's tasks with it.
Cancel ==
  /\ outcome = "none"
  /\ outcome' = "cancelled"
  /\ todo' = [t \in Tasks |-> <<>>]
  /\ UNCHANGED <<arguments, device_ids, hosts, pc, escaped, slices>>

Next ==
  \/ \E t \in Tasks : Answer(t) \/ Escape(t)
  \/ Gather \/ Return \/ Raise \/ Cancel

(***************************************************************************)
(* Every call returns (CallReturns in Retry), and the event loop resumes   *)
(* every task that it can.                                                 *)
(***************************************************************************)
Spec ==
  /\ Init /\ [][Next]_vars
  /\ WF_vars(Gather) /\ WF_vars(Return) /\ WF_vars(Raise)
  /\ \A t \in Tasks : WF_vars(Answer(t) \/ Escape(t))

-----------------------------------------------------------------------------
(* Safety.                                                                 *)

\* What a report that nothing went wrong with is made from.
AllSlices ==
  {Call("getinfo", 0)}
    \union {Call("getlist", 0) : x \in {y \in {1} : ~device_id}}
    \union UNION {ToSet(Work(d)) \union {PathTo(d, h) : h \in hosts[d]} : d \in device_ids}

\* The calls that the report's errors are about.
Failed == BagToSet(errors)

\* A report accounts for every slice: what holds no value has exactly one entry in
\* errors that says why, in whichever order the tasks came to it, and nothing that
\* holds one has.  Of those a failed list of devices and failed network paths are
\* just absent, so that a reader who looks for a None (docstring of diagnose)
\* takes them for "no devices" and "no such host"; all others hold a None.
ReportIsComplete ==
  outcome = "report" =>
    /\ errors = SetToBag(Failed)
    /\ Failed \subseteq AllSlices
    /\ values = AllSlices \ Failed
    /\ nones = {call \in Failed : HoldsNone(call)}

\* What the caller was handed does not change under its hands, and no call goes
\* on behind a caller that was cancelled, or behind one of the sync client.
\* (Behind an exception of the async client the other devices' calls do.)
NothingRunsOn ==
  [][ \/ outcome \in {"report", "cancelled"}
      \/ outcome = "raised" /\ client = "sync"
      => slices' = slices /\ todo' = todo /\ escaped' = escaped ]_vars

(* Liveness.                                                               *)

\* diagnose() returns or raises, also when one of its tasks has died, and what
\* it leaves behind comes to an end as well.
DiagnoseEnds ==
  <>(outcome # "none" /\ \A t \in Tasks : todo[t] = <<>> \/ t \in escaped)

-----------------------------------------------------------------------------
(* What the documentation says, and the code does not do.                  *)

\* "Every sub-call is guarded: a failing endpoint stores None for that slice
\* [...] rather than raising."
EverySubCallIsGuarded == outcome # "raised"

=============================================================================
