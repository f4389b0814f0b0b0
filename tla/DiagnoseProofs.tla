---------------------------- MODULE DiagnoseProofs ----------------------------
(***************************************************************************)
(* Proofs about Diagnose, for any number of devices and hosts and any set  *)
(* of exceptions a call may end with.                                      *)
(***************************************************************************)
EXTENDS Diagnose, SequenceLemmas

-----------------------------------------------------------------------------
(* The inductive invariant.                                                *)

Done == values \union Failed
Pending == UNION {ToSet(todo[t]) : t \in Tasks}

\* The calls that find the devices out, and those that a report is about.
Started == {Call("getinfo", 0)} \union (IF device_id THEN {} ELSE {Call("getlist", 0)})
Slices == IF pc = "resolving" THEN Started ELSE AllSlices

Owner(call) == IF pc = "gathering" /\ client = "async" THEN call.device ELSE 0

\* A call is on the list of one task, once.
OwnerInv ==
  \A t \in Tasks :
    IsInjective(todo[t]) /\ \A call \in ToSet(todo[t]) : t = Owner(call)

\* Calls that were made and calls that are left: together they are the slices, as
\* far as these are known.  The hosts of a device become known once.
SliceInv ==
  /\ Pending \intersect Done = {}
  /\ Pending \union Done \subseteq Slices
  /\ outcome # "cancelled" => Slices \subseteq Pending \union Done
  /\ pc = "gathering" => Started \subseteq Done
  /\ \A d \in Devices : hosts[d] # {} => Call("getnpahosts", d) \in Done
  /\ \E n \in 0 .. MaxDevices : device_ids = 1 .. n

\* A call that failed is not made again: it has one entry.
ErrorInv ==
  /\ values \intersect Failed = {}
  /\ errors = SetToBag(Failed)
  /\ nones = {call \in Failed : HoldsNone(call)}

EndInv ==
  /\ outcome = "report" => pc = "gathering" /\ Finished
  /\ outcome = "cancelled" => Finished
  /\ outcome = "raised" => escaped # {}
  /\ client = "sync" => escaped \subseteq {0}

Inv == TypeOK /\ OwnerInv /\ SliceInv /\ ErrorInv /\ EndInv

-----------------------------------------------------------------------------
(* The calls of a device.                                                  *)

DeviceEndpoints ==
  {"getdetails", "getapplications", "getaggregatedscores", "getrca"}
    \union (IF include_npa THEN {"getnpahosts"} ELSE {})

LEMMA WorkProperties ==
  ASSUME NEW d \in Devices, include_npa \in BOOLEAN
  PROVE  /\ Work(d) \in Seq(SubCalls) /\ IsInjective(Work(d))
         /\ ToSet(Work(d)) = {Call(e, d) : e \in DeviceEndpoints}
<1>. DEFINE s == <<Call("getdetails", d), Call("getapplications", d),
                   Call("getaggregatedscores", d), Call("getrca", d)>>
            n == <<Call("getnpahosts", d)>>
<1>1. \A e \in Endpoints : Call(e, d) \in SubCalls /\ Call(e, d).endpoint = e
  BY DEF Call, SubCalls, Tasks
<1>2. s \in Seq(SubCalls) /\ n \in Seq(SubCalls)
  BY <1>1 DEF Endpoints
<1>3. /\ Call("getdetails", d) # Call("getapplications", d)
      /\ Call("getdetails", d) # Call("getaggregatedscores", d)
      /\ Call("getdetails", d) # Call("getrca", d)
      /\ Call("getapplications", d) # Call("getaggregatedscores", d)
      /\ Call("getapplications", d) # Call("getrca", d)
      /\ Call("getaggregatedscores", d) # Call("getrca", d)
  BY <1>1 DEF Endpoints
<1>. HIDE DEF Call
<1>4. IsInjective(s) /\ IsInjective(n)
  BY <1>3 DEF IsInjective
<1>5. /\ ToSet(s) = {Call("getdetails", d), Call("getapplications", d),
                     Call("getaggregatedscores", d), Call("getrca", d)}
      /\ ToSet(n) = {Call("getnpahosts", d)}
  BY DEF ToSet
<1>6. ToSet(s) \intersect ToSet(n) = {}
  BY <1>1, <1>5 DEF Endpoints
<1>. HIDE DEF s, n
<1>7. CASE include_npa
  <2>1. Work(d) = s \o n
    BY <1>7 DEF Work, s, n
  <2>2. /\ s \o n \in Seq(SubCalls) /\ IsInjective(s \o n)
        /\ ToSet(s \o n) = ToSet(s) \union ToSet(n)
    BY <1>2, <1>4, <1>6, ConcatElements
  <2>3. ToSet(s \o n) = {Call(e, d) : e \in DeviceEndpoints}
    BY <1>5, <1>7, <2>2 DEF DeviceEndpoints
  <2>. QED BY <2>1, <2>2, <2>3
<1>8. CASE ~include_npa
  <2>1. Work(d) = s
    BY <1>2, <1>8, ConcatEmptySeq DEF Work, s
  <2>2. ToSet(s) = {Call(e, d) : e \in DeviceEndpoints}
    BY <1>5, <1>8 DEF DeviceEndpoints
  <2>. QED BY <1>2, <1>4, <2>1, <2>2
<1>. QED BY <1>7, <1>8

LEMMA PathsProperties ==
  ASSUME NEW d \in Devices, NEW found \in SUBSET Hosts
  PROVE  /\ Paths(d, found) \in Seq(SubCalls) /\ IsInjective(Paths(d, found))
         /\ ToSet(Paths(d, found)) = {PathTo(d, h) : h \in found}
<1>. DEFINE S == {PathTo(d, h) : h \in found}
<1>1. \A h \in Hosts : PathTo(d, h) \in SubCalls
  BY DEF PathTo, SubCalls, Endpoints, Tasks
<1>2. IsFiniteSet(found)
  <2>1. IsFiniteSet(Hosts)
    BY CountAssumption, FS_Interval DEF Hosts
  <2>. QED BY <2>1, FS_Subset
<1>3. IsFiniteSet(S)
  <2>. DEFINE f == [h \in found |-> PathTo(d, h)]
  <2>1. f \in Surjection(found, S)
    BY DEF Surjection
  <2>. HIDE DEF f, S
  <2>. QED BY <1>2, <2>1, FS_Surjection
<1>4. SetToSeq(S) \in Seq(S) /\ ToSet(SetToSeq(S)) = S /\ IsInjective(SetToSeq(S))
  <2>. HIDE DEF S
  <2>. QED BY <1>3, SetToSeqProperties
<1>5. S \subseteq SubCalls
  BY <1>1
<1>6. SetToSeq(S) \in Seq(SubCalls)
  <2>. HIDE DEF S
  <2>. QED BY <1>4, <1>5, SeqMonotonic
<1>. QED BY <1>4, <1>6 DEF Paths

LEMMA SlicesAre ==
  ASSUME device_id \in BOOLEAN, include_npa \in BOOLEAN, device_ids \subseteq Devices
  PROVE  AllSlices = Started
           \union {Call(e, d) : e \in DeviceEndpoints, d \in device_ids}
           \union UNION {{PathTo(d, h) : h \in hosts[d]} : d \in device_ids}
<1>1. \A d \in device_ids : ToSet(Work(d)) = {Call(e, d) : e \in DeviceEndpoints}
  BY WorkProperties
<1>2. Started = {Call("getinfo", 0)} \union {Call("getlist", 0) : x \in {y \in {1} : ~device_id}}
  BY DEF Started
<1>. HIDE DEF Call, PathTo
<1>. QED BY <1>1, <1>2 DEF AllSlices

-----------------------------------------------------------------------------
(* Every action keeps the invariant.                                       *)

LEMMA InitInv == Init => Inv
<1>. SUFFICES ASSUME Init PROVE Inv
  OBVIOUS
<1>. DEFINE s == <<Call("getinfo", 0)>>
            l == <<Call("getinfo", 0), Call("getlist", 0)>>
<1>1. Call("getinfo", 0) \in SubCalls /\ Call("getlist", 0) \in SubCalls
      /\ Call("getinfo", 0) # Call("getlist", 0)
  BY DEF Call, SubCalls, Endpoints, Tasks
<1>. HIDE DEF Call
<1>2. /\ <<>> \in Seq(SubCalls) /\ s \in Seq(SubCalls) /\ l \in Seq(SubCalls)
      /\ IsInjective(<<>>) /\ IsInjective(s) /\ IsInjective(l)
  BY <1>1 DEF IsInjective
<1>3. /\ ToSet(<<>>) = {} /\ ToSet(s) = {Call("getinfo", 0)}
      /\ ToSet(l) = {Call("getinfo", 0), Call("getlist", 0)}
  BY DEF ToSet
<1>. HIDE DEF s, l
<1>4. /\ DOMAIN todo = Tasks
      /\ todo[0] = IF device_id THEN s ELSE l
      /\ \A t \in Tasks \ {0} : todo[t] = <<>>
  BY DEF Init, Tasks, s, l
<1>5. TypeOK
  <2>1. todo \in [Tasks -> Seq(SubCalls)]
    <3>1. \A t \in Tasks : todo[t] \in Seq(SubCalls)
      BY <1>2, <1>4
    <3>2. todo = [t \in Tasks |-> todo[t]]
      BY DEF Init
    <3>. QED BY <3>1, <3>2
  <2>2. device_ids \subseteq Devices
    BY CountAssumption DEF Init, Devices
  <2>3. IsABag(errors) /\ BagToSet(errors) \subseteq SubCalls
    BY DEF Init, EmptyBag, SetToBag, IsABag, BagToSet
  <2>. QED BY <2>1, <2>2, <2>3 DEF TypeOK, Init
<1>6. OwnerInv
  BY <1>2, <1>3, <1>4 DEF OwnerInv, Owner, Init
<1>7. Failed = {}
  BY DEF Failed, Init, EmptyBag, SetToBag, BagToSet
<1>8. SliceInv
  <2>1. Pending = Started
    BY <1>3, <1>4 DEF Pending, Started, Tasks
  <2>2. \E n \in 0 .. MaxDevices : device_ids = 1 .. n
    <3>1. CASE device_id
      <4>1. 1 \in 0 .. MaxDevices /\ device_ids = 1 .. 1
        BY <3>1, CountAssumption DEF Init
      <4>. QED BY <4>1
    <3>2. CASE ~device_id
      <4>1. 0 \in 0 .. MaxDevices /\ device_ids = 1 .. 0
        BY <3>2, CountAssumption DEF Init
      <4>. QED BY <4>1
    <3>. QED BY <3>1, <3>2
  <2>3. Done = {}
    BY <1>7 DEF Done, Init
  <2>. QED BY <2>1, <2>2, <2>3 DEF SliceInv, Slices, Init
<1>9. ErrorInv /\ EndInv
  BY <1>7 DEF ErrorInv, EndInv, Init, EmptyBag
<1>. QED BY <1>5, <1>6, <1>8, <1>9 DEF Inv

\* What _safe does with the result of a call that is made for the first time.
LEMMA SafeStep ==
  ASSUME Inv, NEW call \in SubCalls, call \notin Done, NEW result,
         Safe(call, result), Store(call, result)
  PROVE  /\ Done' = Done \union {call} /\ ErrorInv'
         /\ values' \subseteq SubCalls /\ nones' \subseteq SubCalls
         /\ IsABag(errors') /\ BagToSet(errors') \subseteq SubCalls
<1>1. Failed \subseteq SubCalls /\ values \subseteq SubCalls /\ nones \subseteq SubCalls
  BY DEF Failed, Inv, TypeOK
<1>2. errors' = SetToBag(Failed \union {y \in {call} : result # "ok"})
  <2>1. errors = SetToBag(Failed)
    BY DEF Inv, ErrorInv
  <2>2. CASE result = "ok"
    <3>1. Failed \union {y \in {call} : result # "ok"} = Failed
      BY <2>2
    <3>. QED BY <2>1, <2>2, <3>1 DEF Safe
  <2>3. CASE result # "ok"
    <3>1. Failed \union {y \in {call} : result # "ok"} = Failed \union {call}
      BY <2>3
    <3>2. SetToBag(Failed) (+) SetToBag({call}) = SetToBag(Failed \union {call})
      BY DEF Done, SetToBag, (+)
    <3>. QED BY <2>1, <2>3, <3>1, <3>2 DEF Safe
  <2>. QED BY <2>2, <2>3
<1>3. /\ IsABag(errors')
      /\ Failed' = IF result = "ok" THEN Failed ELSE Failed \union {call}
  BY <1>2 DEF Failed, SetToBag, IsABag, BagToSet
<1>4. /\ values' \subseteq SubCalls /\ nones' \subseteq SubCalls
      /\ BagToSet(errors') \subseteq SubCalls
  BY <1>1, <1>3 DEF Store, Failed
<1>5. Done' = Done \union {call} /\ values' \intersect Failed' = {}
  BY <1>3 DEF Store, Done, Inv, ErrorInv
<1>6. errors' = SetToBag(Failed')
  <2>1. Failed' = Failed \union {y \in {call} : result # "ok"}
    BY <1>3
  <2>. QED BY <1>2, <2>1
<1>7. nones' = {y \in Failed' : HoldsNone(y)}
  BY <1>3 DEF Store, Inv, ErrorInv
<1>. QED BY <1>3, <1>4, <1>5, <1>6, <1>7 DEF ErrorInv

LEMMA EscapeKeepsInv == ASSUME Inv, NEW t \in Tasks, Escape(t) PROVE Inv'
<1>. USE DEF Escape, Inv
<1>1. /\ UNCHANGED <<arguments, device_ids, hosts, pc, todo, slices, outcome>>
      /\ t \in Tasks
  OBVIOUS
<1>2. client = "sync" => t = 0
  <2>1. todo[t] \in Seq(SubCalls) /\ todo[t] # <<>>
    BY DEF TypeOK
  <2>2. todo[t][1] \in ToSet(todo[t])
    BY <2>1 DEF ToSet
  <2>. QED BY <2>2 DEF OwnerInv, Owner
<1>3. TypeOK'
  BY DEF TypeOK, arguments, slices
<1>4. OwnerInv'
  BY DEF OwnerInv, Owner, arguments, slices
<1>5. SliceInv'
  <2>1. Pending' = Pending /\ Done' = Done /\ Slices' = Slices /\ Started' = Started
    BY DEF Pending, Done, Failed, Slices, Started, AllSlices, Work, arguments, slices
  <2>. QED BY <2>1 DEF SliceInv
<1>6. ErrorInv' /\ EndInv'
  BY <1>2 DEF ErrorInv, Failed, EndInv, Finished, arguments, slices
<1>. QED BY <1>3, <1>4, <1>5, <1>6

LEMMA EndKeepsInv == ASSUME Inv, Return \/ Raise PROVE Inv'
<1>. USE DEF Return, Raise, Inv
<1>0. UNCHANGED <<client, include_npa, device_id, device_ids, hosts, pc, todo, escaped, values,
                  nones, errors>>
  BY DEF arguments, slices
<1>1. TypeOK'
  BY DEF TypeOK, arguments, slices
<1>2. OwnerInv'
  BY DEF OwnerInv, Owner, arguments, slices
<1>3. SliceInv'
  <2>1. Pending' = Pending /\ Done' = Done /\ Slices' = Slices /\ Started' = Started
    BY <1>0 DEF Pending, Done, Failed, Slices, Started, AllSlices, Work
  <2>. QED BY <1>0, <2>1 DEF SliceInv
<1>4. ErrorInv' /\ EndInv'
  BY DEF ErrorInv, Failed, EndInv, Finished, arguments, slices
<1>. QED BY <1>1, <1>2, <1>3, <1>4

LEMMA CancelKeepsInv == ASSUME Inv, Cancel PROVE Inv'
<1>. USE DEF Cancel, Inv
<1>1. <<>> \in Seq(SubCalls) /\ IsInjective(<<>>) /\ ToSet(<<>>) = {}
  BY DEF IsInjective, ToSet
<1>2. TypeOK'
  BY <1>1 DEF TypeOK, arguments, slices
<1>3. OwnerInv'
  BY <1>1 DEF OwnerInv, Owner
<1>4. SliceInv'
  <2>1. Pending' = {}
    BY <1>1 DEF Pending
  <2>2. Done' = Done /\ Slices' = Slices /\ Started' = Started
    BY DEF Done, Failed, Slices, Started, AllSlices, Work, arguments, slices
  <2>. QED BY <2>1, <2>2 DEF SliceInv
<1>5. ErrorInv' /\ EndInv'
  BY DEF ErrorInv, Failed, EndInv, Finished, arguments, slices
<1>. QED BY <1>2, <1>3, <1>4, <1>5

\* The devices' calls are handed out to task 0 or to a task for each.
LEMMA GatherKeepsInv == ASSUME Inv, Gather PROVE Inv'
<1>. DEFINE works == [i \in 1 .. Cardinality(device_ids) |-> Work(i)]
            Calls(d) == {Call(e, d) : e \in DeviceEndpoints}
<1>. USE DEF Inv
<1>1. /\ UNCHANGED <<client, include_npa, device_id, device_ids, hosts, escaped, values, nones,
                     errors, outcome>>
      /\ outcome = "none" /\ pc = "resolving" /\ pc' = "gathering"
  BY DEF Gather, arguments, slices
<1>2. /\ <<>> \in Seq(SubCalls) /\ IsInjective(<<>>) /\ ToSet(<<>>) = {}
  BY DEF IsInjective, ToSet
<1>3. /\ device_ids \subseteq Devices /\ include_npa \in BOOLEAN /\ device_id \in BOOLEAN
      /\ client \in {"sync", "async"}
  BY DEF TypeOK
<1>4. \A d \in Devices : /\ Work(d) \in Seq(SubCalls) /\ IsInjective(Work(d))
                         /\ ToSet(Work(d)) = Calls(d)
  BY <1>3, WorkProperties
<1>5. \A d \in Devices : \A call \in Calls(d) : call.device = d
  BY DEF Call
<1>6. PICK n \in 0 .. MaxDevices : device_ids = 1 .. n
  BY DEF SliceInv
<1>7. Cardinality(device_ids) \in Nat /\ device_ids = 1 .. Cardinality(device_ids)
  <2>1. Cardinality(1 .. n) = n
    BY FS_Interval
  <2>. QED BY <1>6, <2>1
<1>8. /\ FlattenSeq(works) \in Seq(SubCalls) /\ IsInjective(FlattenSeq(works))
      /\ ToSet(FlattenSeq(works)) = UNION {Calls(d) : d \in device_ids}
  <2>1. \A d \in device_ids : works[d] = Work(d)
    BY <1>7
  <2>2. works \in Seq(Seq(SubCalls)) /\ DOMAIN works = device_ids
    <3>1. works \in [1 .. Cardinality(device_ids) -> Seq(SubCalls)]
      BY <1>3, <1>4, <1>7
    <3>. HIDE DEF works
    <3>2. works \in Seq(Seq(SubCalls))
      BY <1>7, <3>1
    <3>. QED BY <1>7, <3>1, <3>2
  <2>. HIDE DEF works, Calls
  <2>3. \A c, d \in device_ids : c # d => ToSet(works[c]) \intersect ToSet(works[d]) = {}
    BY <1>3, <1>4, <1>5, <2>1
  <2>4. \A d \in device_ids : IsInjective(works[d]) /\ ToSet(works[d]) = Calls(d)
    BY <1>3, <1>4, <2>1
  <2>. QED BY <2>2, <2>3, <2>4, FlattenSeqProperties
<1>9. /\ DOMAIN todo' = Tasks
      /\ \A t \in Tasks :
           todo'[t] = IF client = "sync" /\ t = 0 THEN FlattenSeq(works)
                      ELSE IF client = "async" /\ t \in device_ids THEN Work(t) ELSE <<>>
  BY DEF Gather
<1>. HIDE DEF works, Calls
<1>10. TypeOK'
  <2>1. todo' \in [Tasks -> Seq(SubCalls)]
    <3>1. \A t \in Tasks : todo'[t] \in Seq(SubCalls)
      BY <1>2, <1>3, <1>4, <1>8, <1>9
    <3>2. todo' = [t \in Tasks |-> todo'[t]]
      BY DEF Gather
    <3>. QED BY <3>1, <3>2
  <2>. QED BY <1>1, <2>1 DEF TypeOK
<1>11. OwnerInv'
  <2>1. ASSUME NEW t \in Tasks
        PROVE  IsInjective(todo'[t]) /\ \A call \in ToSet(todo'[t]) : t = Owner(call)'
    <3>1. CASE client = "sync" /\ t = 0
      BY <1>1, <1>8, <1>9, <3>1 DEF Owner
    <3>2. CASE client = "async" /\ t \in device_ids
      BY <1>1, <1>3, <1>4, <1>5, <1>9, <3>2 DEF Owner
    <3>3. CASE ~(client = "sync" /\ t = 0) /\ ~(client = "async" /\ t \in device_ids)
      BY <1>2, <1>9, <3>3
    <3>. QED BY <3>1, <3>2, <3>3
  <2>. QED BY <2>1 DEF OwnerInv
<1>12. SliceInv'
  <2>1. Done = Started
    <3>1. Pending = {}
      <4>1. \A t \in Tasks : \A call \in ToSet(todo[t]) : t = 0
        BY <1>1 DEF OwnerInv, Owner
      <4>2. ToSet(todo[0]) = {}
        BY <1>2 DEF Gather
      <4>. QED BY <4>1, <4>2 DEF Pending
    <3>. QED BY <1>1, <3>1 DEF SliceInv, Slices
  <2>2. Pending' = UNION {Calls(d) : d \in device_ids}
    <3>1. CASE client = "sync"
      BY <1>2, <1>8, <1>9, <3>1 DEF Pending, Tasks
    <3>2. CASE client = "async"
      BY <1>2, <1>3, <1>4, <1>9, <3>2 DEF Pending, Tasks
    <3>. QED BY <1>3, <3>1, <3>2
  <2>3. Done' = Done /\ Started' = Started
    BY <1>1 DEF Done, Failed, Started
  <2>4. \A d \in Devices : hosts[d] = {}
    <3>1. \A d \in Devices : Call("getnpahosts", d) \notin Started
      BY DEF Started, Call
    <3>. QED BY <2>1, <3>1 DEF SliceInv
  <2>5. Slices' = Started \union UNION {Calls(d) : d \in device_ids}
    <3>1. AllSlices' = AllSlices
      BY <1>1 DEF AllSlices, Work
    <3>2. UNION {{PathTo(d, h) : h \in hosts[d]} : d \in device_ids} = {}
      BY <1>3, <2>4
    <3>3. UNION {Calls(d) : d \in device_ids} = {Call(e, d) : e \in DeviceEndpoints, d \in device_ids}
      BY DEF Calls
    <3>4. AllSlices = Started \union UNION {Calls(d) : d \in device_ids}
      BY <1>3, <3>2, <3>3, SlicesAre
    <3>. QED BY <1>1, <3>1, <3>4 DEF Slices
  <2>6. (UNION {Calls(d) : d \in device_ids}) \intersect Started = {}
    <3>1. \A call \in Started : call.device = 0
      BY DEF Started, Call
    <3>2. 0 \notin device_ids
      BY <1>6
    <3>3. \A call \in UNION {Calls(d) : d \in device_ids} : call.device \in device_ids
      BY <1>3, <1>5
    <3>. QED BY <3>1, <3>2, <3>3
  <2>7. (\A d \in Devices : hosts[d] # {} => Call("getnpahosts", d) \in Done)'
    BY <1>1, <2>4
  <2>8. (\E m \in 0 .. MaxDevices : device_ids = 1 .. m)'
    BY <1>1, <1>6
  <2>9. Slices' = Pending' \union Done' /\ Pending' \intersect Done' = {}
    <3>1. PICK all : all = UNION {Calls(d) : d \in device_ids}
      OBVIOUS
    <3>. QED BY <2>1, <2>2, <2>3, <2>5, <2>6, <3>1, Zenon
  <2>. QED BY <2>1, <2>3, <2>7, <2>8, <2>9 DEF SliceInv
<1>13. ErrorInv' /\ EndInv'
  BY <1>1 DEF ErrorInv, Failed, EndInv
<1>. QED BY <1>10, <1>11, <1>12, <1>13

LEMMA AnswerKeepsInv == ASSUME Inv, NEW t \in Tasks, Answer(t) PROVE Inv'
<1>. USE DEF Inv
<1>1. PICK call : call = Head(todo[t])
  OBVIOUS
<1>2. /\ todo[t] \in Seq(SubCalls) /\ todo[t] # <<>> /\ IsInjective(todo[t])
  BY DEF Answer, TypeOK, OwnerInv
<1>3. /\ call \in SubCalls /\ call \in ToSet(todo[t])
      /\ Tail(todo[t]) \in Seq(SubCalls) /\ IsInjective(Tail(todo[t]))
      /\ ToSet(Tail(todo[t])) = ToSet(todo[t]) \ {call}
  BY <1>1, <1>2, HeadTailElements
<1>4. call \in Pending /\ call \in Slices /\ call \notin Done /\ t = Owner(call)
  BY <1>3 DEF Pending, SliceInv, OwnerInv
<1>5. PICK result \in Results :
        Safe(call, result) /\ Store(call, result) /\ Found(call, result)
  BY <1>1 DEF Answer
<1>6. /\ Done' = Done \union {call} /\ ErrorInv'
      /\ values' \subseteq SubCalls /\ nones' \subseteq SubCalls
      /\ IsABag(errors') /\ BagToSet(errors') \subseteq SubCalls
  BY <1>3, <1>4, <1>5, SafeStep
<1>7. /\ UNCHANGED <<client, include_npa, device_id, pc, escaped, outcome>>
      /\ todo' = [todo EXCEPT ![t] =
           IF call.endpoint = "getnpahosts"
           THEN Paths(call.device, hosts'[call.device]) \o Tail(@) ELSE Tail(@)]
      /\ todo \in [Tasks -> Seq(SubCalls)]
  BY <1>1 DEF Answer, arguments, TypeOK
<1>8. \A s \in Tasks \ {t} : todo'[s] = todo[s]
  BY <1>7
<1>. DEFINE news == IF call.endpoint = "getnpahosts"
                    THEN {PathTo(call.device, h) : h \in hosts'[call.device]} ELSE {}
<1>9. /\ device_ids \subseteq Devices /\ include_npa \in BOOLEAN /\ device_id \in BOOLEAN
      /\ hosts \in [Devices -> SUBSET Hosts] /\ pc \in {"resolving", "gathering"}
  BY DEF TypeOK
<1>10. call.endpoint = "getnpahosts" =>
         /\ pc = "gathering" /\ call.device \in device_ids
         /\ call = Call("getnpahosts", call.device) /\ hosts[call.device] = {}
  <2>. SUFFICES ASSUME call.endpoint = "getnpahosts"
                PROVE  /\ pc = "gathering" /\ call.device \in device_ids
                       /\ call = Call("getnpahosts", call.device) /\ hosts[call.device] = {}
    OBVIOUS
  <2>1. call \notin Started
    BY DEF Started, Call
  <2>2. pc = "gathering" /\ call \in AllSlices
    BY <1>4, <1>9, <2>1 DEF Slices
  <2>3. \A d \in device_ids : \A h \in hosts[d] : call # PathTo(d, h)
    BY DEF PathTo
  <2>4. PICK e \in DeviceEndpoints, d \in device_ids : call = Call(e, d)
    BY <1>9, <2>1, <2>2, <2>3, SlicesAre
  <2>5. e = "getnpahosts" /\ d = call.device
    BY <2>4 DEF Call
  <2>. QED BY <1>4, <1>9, <2>2, <2>4, <2>5 DEF SliceInv
<1>11. call.endpoint = "getlist" => pc = "resolving"
  <2>. SUFFICES ASSUME call.endpoint = "getlist", pc = "gathering" PROVE FALSE
    BY <1>9
  <2>1. call \notin Started /\ call \in AllSlices
    BY <1>4 DEF SliceInv, Slices
  <2>2. \A e \in DeviceEndpoints, d \in device_ids : call # Call(e, d)
    BY DEF DeviceEndpoints, Call
  <2>3. \A d \in device_ids : \A h \in hosts[d] : call # PathTo(d, h)
    BY DEF PathTo
  <2>. QED BY <1>9, <2>1, <2>2, <2>3, SlicesAre
<1>12. /\ \E n \in 0 .. MaxDevices : device_ids' = 1 .. n
       /\ pc = "gathering" => device_ids' = device_ids
  BY <1>5, <1>11 DEF Found, SliceInv
<1>13. /\ hosts' \in [Devices -> SUBSET Hosts]
       /\ \A d \in Devices : hosts'[d] # hosts[d] => call = Call("getnpahosts", d)
  <2>1. CASE result = "ok" /\ call.endpoint = "getnpahosts"
    <3>1. PICK n \in 0 .. MaxHosts : hosts' = [hosts EXCEPT ![call.device] = 1 .. n]
      BY <1>5, <2>1 DEF Found
    <3>2. 1 .. n \subseteq Hosts
      BY CountAssumption DEF Hosts
    <3>3. hosts' \in [Devices -> SUBSET Hosts]
      BY <1>9, <3>1, <3>2
    <3>4. \A d \in Devices : hosts'[d] # hosts[d] => d = call.device
      BY <1>9, <3>1
    <3>. QED BY <1>10, <2>1, <3>3, <3>4
  <2>2. CASE ~(result = "ok" /\ call.endpoint = "getnpahosts")
    BY <1>5, <1>9, <2>2 DEF Found
  <2>. QED BY <2>1, <2>2
<1>14. news \intersect Slices = {}
  <2>. SUFFICES ASSUME call.endpoint = "getnpahosts", NEW h \in hosts'[call.device]
                PROVE  PathTo(call.device, h) \notin Slices
    OBVIOUS
  <2>1. PathTo(call.device, h) \notin Started
    BY DEF Started, PathTo, Call
  <2>2. \A e \in DeviceEndpoints, d \in device_ids : PathTo(call.device, h) # Call(e, d)
    BY DEF DeviceEndpoints, PathTo, Call
  <2>3. \A d \in device_ids : \A g \in hosts[d] : PathTo(call.device, h) # PathTo(d, g)
    BY <1>10 DEF PathTo
  <2>. QED BY <1>9, <1>10, <2>1, <2>2, <2>3, SlicesAre DEF Slices
<1>15. Slices' = Slices \union news
  <2>1. CASE pc = "resolving"
    BY <1>7, <1>10, <2>1 DEF Slices, Started
  <2>2. CASE pc = "gathering"
    <3>. DEFINE Old(d) == ToSet(Work(d)) \union {PathTo(d, h) : h \in hosts[d]}
                New(d) == ToSet(Work(d)) \union {PathTo(d, h) : h \in hosts'[d]}
    <3>1. \A d \in device_ids : d # call.device \/ call.endpoint # "getnpahosts" => New(d) = Old(d)
      BY <1>9, <1>13 DEF Call
    <3>2. call.endpoint = "getnpahosts" => New(call.device) = Old(call.device) \union news
      BY <1>10
    <3>3. UNION {New(d) : d \in device_ids} = (UNION {Old(d) : d \in device_ids}) \union news
      <4>. HIDE DEF New, Old
      <4>1. CASE call.endpoint = "getnpahosts"
        <5>. HIDE DEF news
        <5>. QED BY <1>10, <3>1, <3>2, <4>1
      <4>2. CASE call.endpoint # "getnpahosts"
        BY <3>1, <4>2
      <4>. QED BY <4>1, <4>2
    <3>4. AllSlices' = AllSlices \union news
      <4>1. AllSlices' = {Call("getinfo", 0)}
              \union {Call("getlist", 0) : x \in {y \in {1} : ~device_id}}
              \union UNION {New(d) : d \in device_ids}
        <5>1. \A d : Work(d)' = Work(d)
          BY <1>7 DEF Work
        <5>2. AllSlices' = {Call("getinfo", 0)}
                \union {Call("getlist", 0) : x \in {y \in {1} : ~device_id'}}
                \union UNION {ToSet(Work(d)') \union {PathTo(d, h) : h \in hosts'[d]} :
                                d \in device_ids'}
          BY DEF AllSlices
        <5>3. {Call("getlist", 0) : x \in {y \in {1} : ~device_id'}}
                = {Call("getlist", 0) : x \in {y \in {1} : ~device_id}}
          BY <1>7
        <5>4. UNION {ToSet(Work(d)') \union {PathTo(d, h) : h \in hosts'[d]} : d \in device_ids'}
                = UNION {New(d) : d \in device_ids}
          BY <1>12, <2>2, <5>1
        <5>. QED BY <5>2, <5>3, <5>4
      <4>2. AllSlices = {Call("getinfo", 0)}
              \union {Call("getlist", 0) : x \in {y \in {1} : ~device_id}}
              \union UNION {Old(d) : d \in device_ids}
        BY DEF AllSlices
      <4>. HIDE DEF New, Old, news
      <4>. QED BY <3>3, <4>1, <4>2
    <3>. QED BY <1>7, <2>2, <3>4 DEF Slices
  <2>. QED BY <1>9, <2>1, <2>2
<1>16. /\ todo'[t] \in Seq(SubCalls) /\ IsInjective(todo'[t])
       /\ ToSet(todo'[t]) = (ToSet(todo[t]) \ {call}) \union news
  <2>1. CASE call.endpoint = "getnpahosts"
    <3>1. PICK paths : paths = Paths(call.device, hosts'[call.device])
      OBVIOUS
    <3>2. PICK rest : rest = Tail(todo[t])
      OBVIOUS
    <3>3. paths \in Seq(SubCalls) /\ IsInjective(paths) /\ ToSet(paths) = news
      BY <1>9, <1>10, <1>13, <2>1, <3>1, PathsProperties
    <3>4. todo'[t] = paths \o rest
      BY <1>7, <2>1, <3>1, <3>2
    <3>. HIDE DEF news
    <3>5. /\ rest \in Seq(SubCalls) /\ IsInjective(rest)
          /\ ToSet(rest) = ToSet(todo[t]) \ {call}
      BY <1>3, <3>2
    <3>6. ToSet(paths) \intersect ToSet(rest) = {}
      <4>1. ToSet(todo[t]) \subseteq Slices
        BY DEF Pending, SliceInv
      <4>. QED BY <1>14, <3>3, <3>5, <4>1
    <3>7. /\ paths \o rest \in Seq(SubCalls) /\ IsInjective(paths \o rest)
          /\ ToSet(paths \o rest) = ToSet(paths) \union ToSet(rest)
      BY <3>3, <3>5, <3>6, ConcatElements
    <3>. QED BY <3>3, <3>4, <3>5, <3>7
  <2>2. CASE call.endpoint # "getnpahosts"
    BY <1>3, <1>7, <2>2
  <2>. QED BY <2>1, <2>2
<1>17. \A c \in news : Owner(c) = Owner(call)
  BY <1>10 DEF Owner, PathTo
<1>. HIDE DEF news
<1>18. Pending' = (Pending \ {call}) \union news
  <2>1. \A s \in Tasks \ {t} : call \notin ToSet(todo[s])
    BY <1>4 DEF OwnerInv
  <2>. QED BY <1>8, <1>16, <2>1 DEF Pending
<1>19. TypeOK'
  <2>1. todo' \in [Tasks -> Seq(SubCalls)]
    BY <1>7, <1>8, <1>16
  <2>2. device_ids' \subseteq Devices
    BY <1>12, CountAssumption DEF Devices
  <2>. QED BY <1>6, <1>7, <1>13, <2>1, <2>2 DEF TypeOK
<1>20. OwnerInv'
  <2>1. \A c : Owner(c)' = Owner(c)
    BY <1>7 DEF Owner
  <2>. QED BY <1>4, <1>8, <1>16, <1>17, <2>1 DEF OwnerInv
<1>21. SliceInv'
  <2>1. Pending' \intersect Done' = {}
    BY <1>4, <1>6, <1>14, <1>18 DEF SliceInv
  <2>2. Pending' \union Done' = Pending \union Done \union news
    BY <1>4, <1>6, <1>18
  <2>3. Started' = Started
    BY <1>7 DEF Started
  <2>4. (\A d \in Devices : hosts[d] # {} => Call("getnpahosts", d) \in Done)'
    BY <1>6, <1>13 DEF SliceInv
  <2>. QED BY <1>6, <1>7, <1>12, <1>15, <2>1, <2>2, <2>3, <2>4 DEF SliceInv
<1>22. EndInv'
  BY <1>2, <1>7 DEF EndInv, Finished
<1>. QED BY <1>6, <1>19, <1>20, <1>21, <1>22

-----------------------------------------------------------------------------
(* The theorems.                                                           *)

LEMMA StepKeepsInv == Inv /\ [Next]_vars => Inv'
<1>. SUFFICES ASSUME Inv, [Next]_vars PROVE Inv'
  OBVIOUS
<1>1. CASE UNCHANGED vars
  <2>. USE <1>1 DEF vars, arguments, slices
  <2>1. Pending' = Pending /\ Done' = Done /\ Slices' = Slices /\ Started' = Started
    BY DEF Pending, Done, Failed, Slices, Started, AllSlices, Work
  <2>. QED BY <2>1 DEF Inv, TypeOK, OwnerInv, Owner, SliceInv, ErrorInv, Failed, EndInv, Finished
<1>. QED
  BY <1>1, AnswerKeepsInv, EscapeKeepsInv, GatherKeepsInv, EndKeepsInv, CancelKeepsInv DEF Next

LEMMA InvHolds == Spec => []Inv
BY InitInv, StepKeepsInv, PTL DEF Spec

\* Every variable keeps its type: tasks have calls of the model left, and errors
\* is a bag of calls.
THEOREM TypeCorrect == Spec => []TypeOK
<1>1. Inv => TypeOK
  BY DEF Inv
<1>. QED BY <1>1, InvHolds, PTL

\* A report of any number of devices and hosts has a value for each slice or one
\* entry in errors, and a None for those of the latter that can hold one, in
\* whichever order the tasks ran.
THEOREM ReportsAreComplete == Spec => []ReportIsComplete
<1>1. Inv => ReportIsComplete
  <2>. SUFFICES ASSUME Inv, outcome = "report"
                PROVE  ReportIsComplete
    BY DEF ReportIsComplete
  <2>1. Pending = {}
    <3>1. ToSet(<<>>) = {}
      BY DEF ToSet
    <3>. QED BY <3>1 DEF Inv, EndInv, Finished, Pending
  <2>2. values \union Failed = AllSlices
    BY <2>1 DEF Inv, EndInv, SliceInv, Slices, Done
  <2>. QED BY <2>2 DEF Inv, ErrorInv, ReportIsComplete
<1>. QED BY <1>1, InvHolds, PTL

\* After a report, a cancellation or an exception of the sync client no call is
\* made and no slice is written.
THEOREM NothingIsLeftRunning == Spec => NothingRunsOn
<1>. DEFINE A == \/ outcome \in {"report", "cancelled"}
                 \/ outcome = "raised" /\ client = "sync"
                 => slices' = slices /\ todo' = todo /\ escaped' = escaped
<1>1. Inv /\ [Next]_vars => [A]_vars
  <2>. SUFFICES ASSUME Inv, Next,
                       \/ outcome \in {"report", "cancelled"}
                       \/ outcome = "raised" /\ client = "sync"
                PROVE  slices' = slices /\ todo' = todo /\ escaped' = escaped
    BY DEF vars
  <2>1. \A t \in Tasks : todo[t] = <<>> \/ t \in escaped
    <3>1. CASE outcome \in {"report", "cancelled"}
      BY <3>1 DEF Inv, EndInv, Finished
    <3>2. CASE outcome = "raised" /\ client = "sync"
      <4>1. escaped = {0}
        BY <3>2 DEF Inv, EndInv
      <4>2. ASSUME NEW t \in Tasks, todo[t] # <<>> PROVE t = 0
        <5>1. todo[t] \in Seq(SubCalls)
          BY DEF Inv, TypeOK
        <5>2. todo[t][1] \in ToSet(todo[t])
          BY <4>2, <5>1 DEF ToSet
        <5>. QED BY <3>2, <5>2 DEF Inv, OwnerInv, Owner
      <4>. QED BY <4>1, <4>2
    <3>. QED BY <3>1, <3>2
  <2>2. ~(\E t \in Tasks : Answer(t) \/ Escape(t))
    BY <2>1 DEF Answer, Escape
  <2>. QED BY <2>2 DEF Next, Gather, Return, Raise, Cancel
<1>. QED BY <1>1, InvHolds, PTL DEF Spec, NothingRunsOn

=============================================================================
