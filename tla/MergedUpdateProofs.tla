------------------------- MODULE MergedUpdateProofs -------------------------
(***************************************************************************)
(* Proofs about MergedUpdate, for every set of objects, fields and updates *)
(* and every number of attempts.                                           *)
(***************************************************************************)
EXTENDS MergedUpdate, TLAPS

-----------------------------------------------------------------------------
(* The inductive invariant.                                                *)

\* What an object holds that w was the last to write.  The update sends the
\* same payload however often it sends it.
Content(w) ==
  IF w \in Updates THEN Payload(w)
  ELSE [f \in Fields |-> IF w = "other" THEN "created" ELSE "original"]

\* Nothing of an update arrives before its PUT.
ChannelInv(u) == pc[u] # "putting" => inflight[u] = {}

\* An object holds what its last writer wrote.  One that is gone from the start
\* was found by no update.
WriterInv(o) ==
  /\ writer[o] \in Updates => pc[writer[o]] = "putting"
  /\ store[o] # Gone => store[o] = Content(writer[o])
  /\ store[o] = Gone <=> intended[o] = Gone
  /\ store[o] = Gone /\ writer[o] = "nobody" =>
       \A u \in Updates : target[u] = o => pc[u] # "putting"

\* An update holds what the last writer before its GET had written.
SeenInv(u) ==
  pc[u] = "putting" =>
    /\ seen[u] \in Updates => pc[seen[u]] = "putting"
    /\ u \notin misread => current[u] = Content(seen[u])

\* Two updates that are under way at once are known to overlap, and nobody
\* writes between the GET and the PUTs of one that overlaps with none.
OverlapInv(u) ==
  /\ \A v \in Updates \ {u} :
       target[v] = target[u] /\ Pending(v) /\ Pending(u) => target[u] \in overlap
  /\ pc[u] = "putting" /\ Pending(u) /\ target[u] \notin overlap
     /\ store[target[u]] # Gone => writer[target[u]] \in {seen[u], u}

Inv ==
  /\ TypeOK
  /\ \A u \in Updates : ChannelInv(u) /\ SeenInv(u) /\ OverlapInv(u)
  /\ \A o \in Objects : WriterInv(o)
  /\ SequentialUpdatesCompose

-----------------------------------------------------------------------------
(* What is merged.                                                         *)

\* Only an object with fields is there.
LEMMA GoneIsEmpty ==
  ASSUME NEW g \in [Fields -> Values]
  PROVE  g = Gone <=> Fields = {}
<1>1. DOMAIN g = Fields /\ DOMAIN Gone = {}
  BY DEF Gone
<1>2. ASSUME Fields = {} PROVE g = Gone
  <2>1. g = [f \in {} |-> g[f]]
    BY <1>2
  <2>. QED  BY <2>1 DEF Gone
<1>. QED  BY <1>1, <1>2

LEMMA MergeType ==
  ASSUME NEW u \in Updates, NEW base, \A f \in Fields : base[f] \in Values
  PROVE  Merge(u, base) \in [Fields -> Values]
BY DEF Merge, Values

\* An update that no other write came between has read, of what the caller did
\* not supply, what the object holds.
LEMMA FreshRead ==
  ASSUME Inv, NEW u \in Updates,
         pc[u] = "putting", u \notin misread, store[target[u]] # Gone,
         writer[target[u]] \in {seen[u], u}
  PROVE  \A f \in Fields \ supplied[u] : current[u][f] = store[target[u]][f]
<1>. DEFINE o == target[u]
<1>1. o \in Objects /\ store[o] = Content(writer[o])
  BY DEF Inv, TypeOK, WriterInv
<1>2. CASE writer[o] = seen[u]
  BY <1>1, <1>2 DEF Inv, SeenInv
<1>3. CASE writer[o] = u
  BY <1>1, <1>3 DEF Content, Payload, Merge
<1>. QED  BY <1>2, <1>3

\* Where nothing overlapped, a PUT does what a PATCH would have done.
LEMMA PutIsPatch ==
  ASSUME Inv, NEW u \in Updates, inflight[u] # {}, store[target[u]] # Gone,
         target[u] \notin overlap, \A v \in misread : target[v] # target[u]
  PROVE  Payload(u) = Merge(u, intended[target[u]])
<1>. DEFINE o == target[u]
<1>1. pc[u] = "putting" /\ u \notin misread
  BY DEF Inv, ChannelInv
<1>2. writer[o] \in {seen[u], u}
  BY <1>1 DEF Inv, OverlapInv, Pending
<1>3. store[o] = intended[o]
  BY DEF Inv, TypeOK, SequentialUpdatesCompose
<1>4. \A f \in Fields \ supplied[u] : current[u][f] = intended[o][f]
  BY <1>1, <1>2, <1>3, FreshRead
<1>. QED  BY <1>4 DEF Payload, Merge

-----------------------------------------------------------------------------
(* The invariant holds.                                                    *)

LEMMA InvInit == Init => Inv
<1>. SUFFICES ASSUME Init PROVE Inv
  OBVIOUS
<1>. USE DEF Init
<1>1. \A o \in Objects : store[o] \in {[f \in Fields |-> "original"], Gone}
  OBVIOUS
<1>2. TypeOK
  BY <1>1, AttemptsAssumption DEF TypeOK, Values, Writers
<1>3. \A u \in Updates : ChannelInv(u) /\ SeenInv(u) /\ OverlapInv(u)
  BY DEF ChannelInv, SeenInv, OverlapInv, Pending
<1>4. \A o \in Objects : WriterInv(o)
  BY <1>1, UpdatesAssumption DEF WriterInv, Content
<1>5. SequentialUpdatesCompose
  BY DEF SequentialUpdatesCompose
<1>. QED  BY <1>2, <1>3, <1>4, <1>5 DEF Inv

\* An update that begins is noted as overlapping with what is under way.
LEMMA BeginInv == \A u \in Updates : Inv /\ Begin(u) => Inv'
<1>. SUFFICES ASSUME NEW u \in Updates, Inv, Begin(u) PROVE Inv'
  OBVIOUS
<1>. USE DEF Inv, Begin, channel
<1>1. TypeOK'
  BY DEF TypeOK
<1>2. \A v \in Updates : ChannelInv(v)'
  BY DEF TypeOK, ChannelInv
<1>3. \A v \in Updates : SeenInv(v)'
  BY DEF TypeOK, SeenInv, Content, Payload, Merge
<1>4. \A v \in Updates : OverlapInv(v)'
  <2>1. inflight[u] = {}
    BY DEF ChannelInv
  <2>2. \A v \in Updates \ {u} : Pending(v)' <=> Pending(v)
    BY DEF TypeOK, Pending, Over
  <2>3. pc'[u] # "putting"
    BY DEF TypeOK
  <2>4. \A v \in Updates \ {u} : target[v] = target[u] /\ Pending(v) => target[u] \in overlap'
    OBVIOUS
  <2>. QED  BY <2>1, <2>2, <2>3, <2>4, SMTT(30) DEF TypeOK, OverlapInv
<1>5. \A o \in Objects : WriterInv(o)'
  BY DEF TypeOK, WriterInv, Content, Payload, Merge
<1>6. SequentialUpdatesCompose'
  BY DEF SequentialUpdatesCompose
<1>. QED  BY <1>1, <1>2, <1>3, <1>4, <1>5, <1>6

\* The GET finds what the last writer wrote; what others hold stays.
LEMMA ReadInv == \A u \in Updates : Inv /\ Read(u) => Inv'
<1>. SUFFICES ASSUME NEW u \in Updates, Inv, Read(u) PROVE Inv'
  OBVIOUS
<1>. USE DEF Inv, Read, channel
<1>1. /\ store[target[u]] \in [Fields -> Values]
      /\ store[target[u]] = Content(writer[target[u]])
      /\ writer[target[u]] # u
  BY DEF TypeOK, WriterInv
<1>2. \A w \in Writers \ {u} : Content(w)' = Content(w)
  BY DEF TypeOK, Content, Payload, Merge, Writers
<1>3. TypeOK'
  <2>1. [f \in Fields |-> "default"] \in [Fields -> Values]
    BY DEF Values
  <2>2. current' \in [Updates -> [Fields -> Values]]
    BY <1>1, <2>1 DEF TypeOK
  <2>. QED  BY <2>2 DEF TypeOK
<1>4. \A v \in Updates : ChannelInv(v)'
  BY DEF TypeOK, ChannelInv
<1>5. \A v \in Updates : SeenInv(v)'
  <2>1. SeenInv(u)'
    BY <1>1, <1>2 DEF TypeOK, SeenInv, WriterInv
  <2>2. ASSUME NEW v \in Updates \ {u} PROVE SeenInv(v)'
    BY <1>2 DEF TypeOK, SeenInv
  <2>. QED  BY <2>1, <2>2
<1>6. \A v \in Updates : OverlapInv(v)'
  <2>1. \A v \in Updates : Pending(v)' <=> Pending(v)
    BY DEF TypeOK, Pending, Over
  <2>. QED  BY <2>1 DEF TypeOK, OverlapInv
<1>7. \A o \in Objects : WriterInv(o)'
  BY <1>2 DEF TypeOK, WriterInv
<1>8. SequentialUpdatesCompose'
  BY DEF SequentialUpdatesCompose
<1>. QED  BY <1>3, <1>4, <1>5, <1>6, <1>7, <1>8

LEMMA ReadRaisesInv == \A u \in Updates : Inv /\ ReadRaises(u) => Inv'
<1>. SUFFICES ASSUME NEW u \in Updates, Inv, ReadRaises(u) PROVE Inv'
  OBVIOUS
<1>. USE DEF Inv, ReadRaises, channel, history
<1>1. TypeOK'
  BY DEF TypeOK
<1>2. \A v \in Updates : ChannelInv(v)'
  BY DEF TypeOK, ChannelInv
<1>3. \A v \in Updates : SeenInv(v)'
  BY DEF TypeOK, SeenInv, Content, Payload, Merge
<1>4. \A v \in Updates : OverlapInv(v)'
  <2>1. \A v \in Updates : Pending(v)' => Pending(v)
    BY DEF TypeOK, Pending, Over
  <2>. QED  BY <2>1 DEF TypeOK, OverlapInv
<1>5. \A o \in Objects : WriterInv(o)'
  BY DEF TypeOK, WriterInv, Content, Payload, Merge
<1>6. SequentialUpdatesCompose'
  BY DEF SequentialUpdatesCompose
<1>. QED  BY <1>1, <1>2, <1>3, <1>4, <1>5, <1>6

\* The channel has more to carry only while the call is under way.
LEMMA SendPutInv == \A u \in Updates : Inv /\ SendPut(u) => Inv'
<1>. SUFFICES ASSUME NEW u \in Updates, Inv, SendPut(u) PROVE Inv'
  OBVIOUS
<1>. USE DEF Inv, SendPut, Put!Send, history
<1>1. TypeOK'
  <2>1. sent' \in [Updates -> Nat] /\ inflight' \in [Updates -> SUBSET Nat]
    BY SMTT(30) DEF TypeOK
  <2>2. returned' \in [Updates -> {"no", "ok", "error"}]
    BY DEF TypeOK
  <2>. QED  BY <2>1, <2>2 DEF TypeOK
<1>2. \A v \in Updates : ChannelInv(v)'
  BY DEF TypeOK, ChannelInv
<1>3. \A v \in Updates : SeenInv(v)'
  BY DEF TypeOK, SeenInv, Content, Payload, Merge
<1>4. \A v \in Updates : OverlapInv(v)'
  <2>1. \A v \in Updates : Pending(v)' => Pending(v)
    BY DEF TypeOK, Pending, Over
  <2>. QED  BY <2>1 DEF TypeOK, OverlapInv
<1>5. \A o \in Objects : WriterInv(o)'
  BY DEF TypeOK, WriterInv, Content, Payload, Merge
<1>6. SequentialUpdatesCompose'
  BY DEF SequentialUpdatesCompose
<1>. QED  BY <1>1, <1>2, <1>3, <1>4, <1>5, <1>6

LEMMA PutReturnsInv == \A u \in Updates : Inv /\ PutReturns(u) => Inv'
<1>. SUFFICES ASSUME NEW u \in Updates, Inv, PutReturns(u) PROVE Inv'
  OBVIOUS
<1>. USE DEF Inv, PutReturns, Put!Return, history
<1>1. TypeOK'
  BY DEF TypeOK
<1>2. \A v \in Updates : ChannelInv(v)'
  BY DEF TypeOK, ChannelInv
<1>3. \A v \in Updates : SeenInv(v)'
  BY DEF TypeOK, SeenInv, Content, Payload, Merge
<1>4. \A v \in Updates : OverlapInv(v)'
  <2>1. \A v \in Updates : Pending(v)' => Pending(v)
    BY DEF TypeOK, Pending, Over
  <2>. QED  BY <2>1 DEF TypeOK, OverlapInv
<1>5. \A o \in Objects : WriterInv(o)'
  BY DEF TypeOK, WriterInv, Content, Payload, Merge
<1>6. SequentialUpdatesCompose'
  BY DEF SequentialUpdatesCompose
<1>. QED  BY <1>1, <1>2, <1>3, <1>4, <1>5, <1>6

\* A write by an update that did not overlap is the patch the caller meant.
LEMMA PutArrivesInv == \A u \in Updates : Inv /\ PutArrives(u) => Inv'
<1>. SUFFICES ASSUME NEW u \in Updates, Inv, PutArrives(u) PROVE Inv'
  OBVIOUS
<1>. PICK o \in Objects : o = target[u]
  BY DEF Inv, TypeOK
<1>1. /\ inflight[u] # {} /\ pc[u] = "putting"
      /\ UNCHANGED <<kind, limit, target, supplied, pc, current, returned, sent,
                     seen, misread, overlap>>
  BY DEF Inv, TypeOK, ChannelInv, PutArrives, Put!Arrive
<1>2. /\ inflight' \in [Updates -> SUBSET Nat] /\ writes' \in [Updates -> Nat]
      /\ \A v \in Updates : inflight'[v] \subseteq inflight[v]
  <2>1. PICK i \in inflight[u] : inflight' = [inflight EXCEPT ![u] = @ \ {i}]
    BY DEF PutArrives, Put!Arrive
  <2>2. writes' \in {writes, [writes EXCEPT ![u] = @ + 1]}
    BY DEF PutArrives, Put!Arrive
  <2>. QED  BY <2>1, <2>2 DEF Inv, TypeOK
<1>3. \A v \in Updates : ChannelInv(v)'
  BY <1>1, <1>2 DEF Inv, ChannelInv
<1>4. \A w : Content(w)' = Content(w)
  BY <1>1 DEF Content, Payload, Merge
<1>5. \A v \in Updates : SeenInv(v)'
  BY <1>1, <1>4 DEF Inv, SeenInv
<1>6. \A v \in Updates : Pending(v)' => Pending(v)
  BY <1>1, <1>2 DEF Inv, TypeOK, Pending, Over
<1>7. CASE UNCHANGED <<store, writer, intended>>
  <2>1. TypeOK' /\ SequentialUpdatesCompose'
    BY <1>1, <1>2, <1>7 DEF Inv, TypeOK, SequentialUpdatesCompose
  <2>2. \A v \in Updates : OverlapInv(v)'
    BY <1>1, <1>6, <1>7 DEF Inv, OverlapInv
  <2>3. \A x \in Objects : WriterInv(x)'
    BY <1>1, <1>4, <1>7 DEF Inv, WriterInv
  <2>. QED  BY <1>3, <1>5, <2>1, <2>2, <2>3 DEF Inv
<1>8. CASE /\ store[o] # Gone
           /\ store' = [store EXCEPT ![o] = Payload(u)]
           /\ writer' = [writer EXCEPT ![o] = u]
           /\ intended' = [intended EXCEPT ![o] = Merge(u, @)]
  <2>1. /\ Payload(u) \in [Fields -> Values]
        /\ Merge(u, intended[o]) \in [Fields -> Values]
    <3>1. /\ current[u] \in [Fields -> Values]
          /\ intended[o] \in [Fields -> Values]
      BY <1>1, <1>8 DEF Inv, TypeOK, WriterInv
    <3>. QED  BY <3>1, MergeType DEF Payload
  <2>2. TypeOK'
    BY <1>1, <1>2, <1>8, <2>1 DEF Inv, TypeOK, Writers
  <2>3. \A v \in Updates : OverlapInv(v)'
    <3>1. Pending(u)
      BY <1>1 DEF Pending
    <3>2. ASSUME NEW v \in Updates, target[v] = o, v # u, Pending(v)
          PROVE  o \in overlap
      BY <3>1, <3>2 DEF Inv, OverlapInv
    <3>. QED  BY <1>1, <1>6, <1>8, <3>2 DEF Inv, TypeOK, OverlapInv
  <2>4. \A x \in Objects : WriterInv(x)'
    <3>1. WriterInv(o)'
      <4>1. Payload(u) = Gone <=> Merge(u, intended[o]) = Gone
        BY <2>1, GoneIsEmpty
      <4>2. Content(u)' = Payload(u) /\ u # "nobody"
        BY <1>4, UpdatesAssumption DEF Content
      <4>3. /\ store'[o] = Payload(u) /\ intended'[o] = Merge(u, intended[o])
            /\ writer'[o] = u /\ pc'[u] = "putting"
        BY <1>1, <1>8 DEF Inv, TypeOK
      <4>. QED  BY <4>1, <4>2, <4>3 DEF WriterInv
    <3>2. ASSUME NEW x \in Objects \ {o} PROVE WriterInv(x)'
      BY <1>1, <1>4, <1>8 DEF Inv, TypeOK, WriterInv
    <3>. QED  BY <3>1, <3>2
  <2>5. SequentialUpdatesCompose'
    <3>1. ASSUME o \notin overlap, \A v \in misread : target[v] # o
          PROVE  store'[o] = intended'[o]
      BY <1>1, <1>8, <3>1, PutIsPatch DEF Inv, TypeOK
    <3>2. ASSUME NEW x \in Objects \ {o},
                 x \notin overlap, \A v \in misread : target[v] # x
          PROVE  store'[x] = intended'[x]
      BY <1>1, <1>8, <3>2 DEF Inv, TypeOK, SequentialUpdatesCompose
    <3>. QED  BY <1>1, <3>1, <3>2 DEF SequentialUpdatesCompose
  <2>. QED  BY <1>3, <1>5, <2>2, <2>3, <2>4, <2>5 DEF Inv
<1>. QED  BY <1>7, <1>8 DEF PutArrives

\* Only an object that is gone from the start is created, and nobody has read it.
LEMMA CreateInv == \A o \in Objects : Inv /\ Create(o) => Inv'
<1>. SUFFICES ASSUME NEW o \in Objects, Inv, Create(o) PROVE Inv'
  OBVIOUS
<1>. USE DEF Inv, Create, channel
<1>. DEFINE made == [f \in Fields |-> "created"]
<1>1. made \in [Fields -> Values]
  BY DEF Values
<1>2. TypeOK'
  BY <1>1 DEF TypeOK, Writers
<1>3. \A v \in Updates : ChannelInv(v)'
  BY DEF ChannelInv
<1>4. \A w : Content(w)' = Content(w)
  BY DEF Content, Payload, Merge
<1>5. \A v \in Updates : SeenInv(v)'
  BY <1>4 DEF SeenInv
<1>6. \A v \in Updates : OverlapInv(v)'
  <2>1. \A v \in Updates : target[v] = o => pc[v] # "putting"
    BY DEF WriterInv
  <2>2. \A v \in Updates : Pending(v)' <=> Pending(v)
    BY DEF Pending, Over
  <2>. QED  BY <2>1, <2>2 DEF TypeOK, OverlapInv
<1>7. \A x \in Objects : WriterInv(x)'
  <2>1. Content("other") = made
    BY UpdatesAssumption DEF Content
  <2>2. WriterInv(o)'
    BY <1>4, <2>1, UpdatesAssumption DEF TypeOK, WriterInv
  <2>3. ASSUME NEW x \in Objects \ {o} PROVE WriterInv(x)'
    BY <1>4 DEF TypeOK, WriterInv
  <2>. QED  BY <2>2, <2>3
<1>8. SequentialUpdatesCompose'
  BY DEF TypeOK, SequentialUpdatesCompose
<1>. QED  BY <1>2, <1>3, <1>5, <1>6, <1>7, <1>8

LEMMA RemoveInv == \A o \in Objects : Inv /\ Remove(o) => Inv'
<1>. SUFFICES ASSUME NEW o \in Objects, Inv, Remove(o) PROVE Inv'
  OBVIOUS
<1>. USE DEF Inv, Remove, channel
<1>1. TypeOK'
  BY DEF TypeOK, Writers
<1>2. \A v \in Updates : ChannelInv(v)'
  BY DEF ChannelInv
<1>3. \A w : Content(w)' = Content(w)
  BY DEF Content, Payload, Merge
<1>4. \A v \in Updates : SeenInv(v)'
  BY <1>3 DEF SeenInv
<1>5. \A v \in Updates : OverlapInv(v)'
  <2>1. \A v \in Updates : Pending(v)' <=> Pending(v)
    BY DEF Pending, Over
  <2>. QED  BY <2>1 DEF TypeOK, OverlapInv
<1>6. \A x \in Objects : WriterInv(x)'
  BY <1>3, UpdatesAssumption DEF TypeOK, WriterInv
<1>7. SequentialUpdatesCompose'
  BY DEF TypeOK, SequentialUpdatesCompose
<1>. QED  BY <1>1, <1>2, <1>4, <1>5, <1>6, <1>7

LEMMA StutterInv == Inv /\ UNCHANGED vars => Inv'
<1>. SUFFICES ASSUME Inv, UNCHANGED vars PROVE Inv'
  OBVIOUS
<1>. USE DEF Inv, vars, channel, history
<1>1. TypeOK'
  BY DEF TypeOK
<1>2. \A v \in Updates : ChannelInv(v)' /\ OverlapInv(v)'
  BY DEF ChannelInv, OverlapInv, Pending, Over
<1>3. \A v \in Updates : SeenInv(v)'
  BY DEF SeenInv, Content, Payload, Merge
<1>4. \A o \in Objects : WriterInv(o)'
  BY DEF WriterInv, Content, Payload, Merge
<1>5. SequentialUpdatesCompose'
  BY DEF SequentialUpdatesCompose
<1>. QED  BY <1>1, <1>2, <1>3, <1>4, <1>5

LEMMA InvStep == Inv /\ [Next]_vars => Inv'
BY BeginInv, ReadInv, ReadRaisesInv, SendPutInv, PutReturnsInv, PutArrivesInv,
   CreateInv, RemoveInv, StutterInv DEF Next, Quiet

LEMMA InvHolds == Spec => []Inv
BY InvInit, InvStep, PTL DEF Spec

-----------------------------------------------------------------------------
(* The theorems.                                                           *)

\* Every variable has its type; in particular, what is merged is a whole object.
THEOREM TypeCorrect == Spec => []TypeOK
<1>1. Inv => TypeOK
  BY DEF Inv
<1>. QED  BY <1>1, InvHolds, PTL

\* Updates that are made one after the other compose, whatever is retried.
THEOREM SequentialCompose == Spec => []SequentialUpdatesCompose
<1>1. Inv => SequentialUpdatesCompose
  BY DEF Inv
<1>. QED  BY <1>1, InvHolds, PTL

\* Only the arrival of a copy of the update's own PUT counts as its write.
LEMMA WhoWrites ==
  ASSUME Inv, Next, NEW u \in Updates, writes'[u] # writes[u]
  PROVE  PutArrives(u)
<1>1. \A v \in Updates : ~Begin(v) /\ ~Read(v) /\ ~ReadRaises(v) /\ ~SendPut(v) /\ ~PutReturns(v)
  BY DEF Begin, Read, ReadRaises, SendPut, PutReturns, Put!Send, Put!Return, channel
<1>2. \A o \in Objects : ~Create(o) /\ ~Remove(o)
  BY DEF Create, Remove, channel
<1>3. ~Quiet
  BY DEF Quiet, vars, channel
<1>4. \A v \in Updates \ {u} : ~PutArrives(v)
  BY DEF Inv, TypeOK, PutArrives, Put!Arrive
<1>. QED  BY <1>1, <1>2, <1>3, <1>4 DEF Next

\* Fields get lost only if somebody wrote between the GET and the PUT.
THEOREM FieldsSurvive == Spec => OnlyStaleReadsLoseFields
<1>1. ASSUME Inv, Next, NEW u \in Updates,
             writes'[u] # writes[u], u \notin misread, writer[target[u]] \in {seen[u], u}
      PROVE  \A f \in Fields \ supplied[u] : store'[target[u]][f] = store[target[u]][f]
  <2>1. PutArrives(u)
    BY <1>1, WhoWrites
  <2>2. /\ pc[u] = "putting" /\ store[target[u]] # Gone
        /\ store' = [store EXCEPT ![target[u]] = Payload(u)]
    BY <1>1, <2>1 DEF Inv, ChannelInv, PutArrives, Put!Arrive
  <2>3. \A f \in Fields \ supplied[u] : current[u][f] = store[target[u]][f]
    BY <1>1, <2>2, FreshRead
  <2>4. store'[target[u]] = Payload(u)
    BY <1>1, <2>2 DEF Inv, TypeOK
  <2>. QED  BY <2>3, <2>4 DEF Payload, Merge
<1>2. Inv /\ [Next]_vars =>
        [\A u \in Updates :
           writes'[u] # writes[u] /\ u \notin misread /\ writer[target[u]] \in {seen[u], u} =>
             \A f \in Fields \ supplied[u] : store'[target[u]][f] = store[target[u]][f]]_vars
  BY <1>1
<1>. QED  BY <1>2, InvHolds, PTL DEF Spec, OnlyStaleReadsLoseFields

=============================================================================
