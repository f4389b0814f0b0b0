---------------------------- MODULE MergedUpdate ----------------------------
(***************************************************************************)
(* update() of url_lists and of npa.upgrade_profiles: the API wants every  *)
(* field on a PUT, so the SDK GETs the object, merges the fields that the  *)
(* caller supplied over it and PUTs the whole.  Nothing locks the object   *)
(* in between, and the PUT is retried.                                     *)
(*                                                                         *)
(* The PUT goes through the channel of AtLeastOnce, which Retry implements *)
(* (RetryProofs): its copies may be lost, arrive late and arrive twice.    *)
(* The values a caller supplies are named by the update they come from.    *)
(***************************************************************************)
EXTENDS Integers, FiniteSets

CONSTANTS
  Objects,   \* URL lists, or upgrade profiles
  Fields,    \* what update() takes: name, urls and list_type, or the like
  Updates,   \* calls of update()
  Attempts   \* values of max_retries + 1 to consider

ASSUME AttemptsAssumption == Attempts \subseteq Nat \ {0}

\* The history does not take an update for another client.
ASSUME UpdatesAssumption == Updates \intersect {"nobody", "other"} = {}

VARIABLES
  kind,      \* what the objects are: see Kinds
  store,     \* the objects on the server
  target,    \* target[u]: the object that the call updates
  supplied,  \* supplied[u]: fields that the caller supplied
  pc,        \* "idle", "reading", "putting" or "raised"
  current,   \* current[u]: the object as the GET found it
  limit, returned, sent, inflight, writes,  \* the channel of the PUTs
  writer,    \* history: the last to write an object
  seen,      \* history: writer of what current[u] holds
  misread,   \* history: calls whose GET found no item
  overlap,   \* history: objects of which two updates overlapped
  intended   \* history: the objects, had each write been a patch

channel == <<limit, returned, sent, inflight, writes>>
history == <<writer, seen, misread, overlap, intended>>
vars == <<kind, store, target, supplied, pc, current, channel, history>>

Kinds == {"url_list", "upgrade_profile"}
Values == {"original", "created", "default"} \union Updates
Gone == [f \in {} |-> "original"]
Writers == {"nobody", "other"} \union Updates

Put == INSTANCE AtLeastOnce WITH
  Calls <- Updates, mutating <- [u \in Updates |-> TRUE], effects <- writes

TypeOK ==
  /\ kind \in Kinds
  /\ store \in [Objects -> [Fields -> Values] \union {Gone}]
  /\ target \in [Updates -> Objects]
  /\ supplied \in [Updates -> SUBSET Fields]
  /\ pc \in [Updates -> {"idle", "reading", "putting", "raised"}]
  /\ current \in [Updates -> [Fields -> Values]]
  /\ limit \in Attempts
  /\ returned \in [Updates -> {"no", "ok", "error"}]
  /\ sent \in [Updates -> Nat]
  /\ inflight \in [Updates -> SUBSET Nat]
  /\ writes \in [Updates -> Nat]
  /\ writer \in [Objects -> Writers]
  /\ seen \in [Updates -> Writers]
  /\ misread \subseteq Updates
  /\ overlap \subseteq Objects
  /\ intended \in [Objects -> [Fields -> Values] \union {Gone}]

Init ==
  /\ kind \in Kinds
  /\ store \in [Objects -> {[f \in Fields |-> "original"], Gone}]
  /\ target \in [Updates -> Objects]
  /\ supplied \in [Updates -> SUBSET Fields]
  /\ pc = [u \in Updates |-> "idle"]
  /\ current = [u \in Updates |-> [f \in Fields |-> "original"]]
  /\ limit \in Attempts
  /\ returned = [u \in Updates |-> "no"]
  /\ sent = [u \in Updates |-> 0]
  /\ inflight = [u \in Updates |-> {}]
  /\ writes = [u \in Updates |-> 0]
  /\ writer = [o \in Objects |-> "nobody"]
  /\ seen = [u \in Updates |-> "nobody"]
  /\ misread = {}
  /\ overlap = {}
  /\ intended = store

-----------------------------------------------------------------------------
Over(u) == pc[u] = "raised" \/ returned[u] # "no"

\* The call is under way, or something of it may still arrive.
Pending(u) == pc[u] # "idle" /\ (~Over(u) \/ inflight[u] # {})

\* A plausible slip: only what changed is sent, as with a PATCH.
MergeSparse(u, base) == [f \in supplied[u] |-> u]

\* The fields of the caller over those of base.
Merge(u, base) == [f \in Fields |-> IF f \in supplied[u] THEN u ELSE base[f]]

\* A URL list needs a field to update, or it is a ValueError.  A profile does
\* not, but refuses a release_type that it does not know.
Begin(u) ==
  /\ pc[u] = "idle"
  /\ \/ /\ kind = "url_list" => supplied[u] # {}
        /\ pc' = [pc EXCEPT ![u] = "reading"]
     \/ /\ supplied[u] = {} <=> kind = "url_list"
        /\ pc' = [pc EXCEPT ![u] = "raised"]
  /\ overlap' = overlap \union
       {target[v] : v \in {v \in Updates \ {u} : target[v] = target[u] /\ Pending(v)}}
  /\ UNCHANGED <<kind, store, target, supplied, current, channel,
                 writer, seen, misread, intended>>

\* A plausible slip: the object an earlier call saw is taken for current.
ReadCached(u) ==
  /\ pc[u] = "reading"
  /\ store[target[u]] # Gone
  /\ pc' = [pc EXCEPT ![u] = "putting"]
  /\ seen' = [seen EXCEPT ![u] = writer[target[u]]]
  /\ UNCHANGED <<kind, store, target, supplied, current, channel,
                 writer, misread, overlap, intended>>

\* The GET: a reply whose body holds no item reads as an object without fields,
\* for which the merge has defaults.
Read(u) ==
  /\ pc[u] = "reading"
  /\ store[target[u]] # Gone
  /\ \/ /\ current' = [current EXCEPT ![u] = store[target[u]]]
        /\ UNCHANGED misread
     \/ /\ current' = [current EXCEPT ![u] = [f \in Fields |-> "default"]]
        /\ misread' = misread \union {u}
  /\ pc' = [pc EXCEPT ![u] = "putting"]
  /\ seen' = [seen EXCEPT ![u] = writer[target[u]]]
  /\ UNCHANGED <<kind, store, target, supplied, channel, writer, overlap, intended>>

\* NotFoundError, or any other failure of the GET: there is no PUT.
ReadRaises(u) ==
  /\ pc[u] = "reading"
  /\ pc' = [pc EXCEPT ![u] = "raised"]
  /\ UNCHANGED <<kind, store, target, supplied, current, channel, history>>

\* A copy of the PUT is sent: the first one, or a retry.
SendPut(u) ==
  /\ pc[u] = "putting"
  /\ Put!Send(u)
  /\ UNCHANGED <<kind, store, target, supplied, pc, current, history>>

\* The PUT's answer, or its failure, gets back to the caller.
PutReturns(u) ==
  /\ pc[u] = "putting"
  /\ sent[u] > 0
  /\ Put!Return(u)
  /\ UNCHANGED <<kind, store, target, supplied, pc, current, history>>

\* A plausible slip: fields the caller left out keep the SDK's defaults.
PayloadUnmerged(u) == [f \in Fields |-> IF f \in supplied[u] THEN u ELSE "default"]

Payload(u) == Merge(u, current[u])

\* A copy arrives.  The server replaces the object, unless it is gone or the
\* request is turned down.
PutArrives(u) ==
  /\ Put!Arrive(u)
  /\ LET o == target[u]
     IN  IF writes' = writes
         THEN UNCHANGED <<store, writer, intended>>
         ELSE /\ store[o] # Gone
              /\ store' = [store EXCEPT ![o] = Payload(u)]
              /\ writer' = [writer EXCEPT ![o] = u]
              /\ intended' = [intended EXCEPT ![o] = Merge(u, @)]
  /\ UNCHANGED <<kind, target, supplied, pc, current, seen, misread, overlap>>

-----------------------------------------------------------------------------
(* The other operations, when the server carries them out.                 *)

Create(o) ==
  /\ store[o] = Gone /\ writer[o] = "nobody"
  /\ store' = [store EXCEPT ![o] = [f \in Fields |-> "created"]]
  /\ intended' = [intended EXCEPT ![o] = [f \in Fields |-> "created"]]
  /\ writer' = [writer EXCEPT ![o] = "other"]
  /\ UNCHANGED <<kind, target, supplied, pc, current, channel, seen, misread, overlap>>

Remove(o) ==
  /\ store[o] # Gone
  /\ store' = [store EXCEPT ![o] = Gone]
  /\ intended' = [intended EXCEPT ![o] = Gone]
  /\ writer' = [writer EXCEPT ![o] = "other"]
  /\ UNCHANGED <<kind, target, supplied, pc, current, channel, seen, misread, overlap>>

\* Every call is over and none of their copies is under way.
Quiet ==
  /\ \A u \in Updates : Over(u) /\ inflight[u] = {}
  /\ UNCHANGED vars

Next ==
  \/ \E u \in Updates :
       Begin(u) \/ Read(u) \/ ReadRaises(u) \/ SendPut(u) \/ PutReturns(u) \/ PutArrives(u)
  \/ \E o \in Objects : Create(o) \/ Remove(o)
  \/ Quiet

Spec == Init /\ [][Next]_vars

-----------------------------------------------------------------------------
(* Safety.                                                                 *)

\* Updates of an object that are made one after the other compose, each keeping
\* what the earlier ones wrote, if an update that ended without an answer is
\* waited for as well, and each GET found the object.
SequentialUpdatesCompose ==
  \A o \in Objects :
    o \notin overlap /\ (\A u \in misread : target[u] # o) => store[o] = intended[o]

\* Nothing but a stale read loses fields: a write by an update that no other
\* write came between, its own earlier copies aside, keeps what the caller did
\* not supply.
OnlyStaleReadsLoseFields ==
  [][\A u \in Updates :
       writes'[u] # writes[u] /\ u \notin misread /\ writer[target[u]] \in {seen[u], u} =>
         \A f \in Fields \ supplied[u] : store'[target[u]][f] = store[target[u]][f]]_vars

-----------------------------------------------------------------------------
(* What the documentation says, and the code does not do.                  *)

\* Every update supplies something, no two of them the same field, and the GETs
\* found the object: nothing but the order of the updates can undo one.
OfDifferentFields ==
  /\ misread = {}
  /\ \A u \in Updates : supplied[u] # {}
  /\ \A u, v \in Updates : u # v => supplied[u] \intersect supplied[v] = {}

\* README: "Partial updates are merged over the current list"; upgrade_profiles:
\* "unspecified fields are preserved".  So updates of different fields should not
\* undo each other, at whatever times they are made.
UnspecifiedFieldsPreserved ==
  [][OfDifferentFields =>
       \A u \in Updates : writes'[u] # writes[u] =>
         \A f \in Fields \ supplied[u] : store'[target[u]][f] = store[target[u]][f]]_vars

=============================================================================
