--------------------------- MODULE OperationsProofs ---------------------------
(***************************************************************************)
(* Proofs about Operations, for every set of callers and every number of   *)
(* attempts, and for the methods of all the resource classes.              *)
(***************************************************************************)
EXTENDS Operations, ResourceProofs, SequenceTheorems

-----------------------------------------------------------------------------
(* The inductive invariant: where a call is and what it has done.          *)

\* The request at position i was answered with a success.
Passed(c, i) == i < step[c] \/ (i = step[c] /\ result[c] \in {"ok", "undecoded"})

\* How a call ends tells where it was; who is through before another begins
\* stays so.
LifeInv(c) ==
  /\ step[c] = 0 => result[c] = "none" /\ before[c] = {}
  /\ c \notin lost => strays[c] = {}
  /\ result[c] = "ok" => step[c] = Len(op[c])
  /\ result[c] = "ValidationError" => op[c][step[c]] = "check"
  /\ result[c] = "APIError" => op[c][step[c]] \in Requests
  /\ c \notin before[c] /\ \A d \in before[c] : Through(d)

\* Callers whose write was carried out, or is going to be.
Taken == done \union accepted

\* A write is taken, or has no answer, only once its step is reached, and is taken
\* if it was answered.
WriteInv(c) ==
  /\ c \in Taken \union lost => \E i \in DOMAIN op[c] : i <= step[c] /\ op[c][i] \in Writes
  /\ c \in accepted => Makes(op[c], "purge")
  /\ \A i \in DOMAIN op[c] :
       op[c][i] \in Writes =>
         /\ Passed(c, i) => c \in Taken
         /\ ~Passed(c, i) /\ c \notin lost => c \notin Taken

ControlInv ==
  /\ TypeOK
  /\ step \in [Callers -> Nat]
  /\ \E resource \in Resources : op \in [Callers -> Programs(resource)]
  /\ \A c \in Callers : LifeInv(c) /\ WriteInv(c)

-----------------------------------------------------------------------------
(* The inductive invariant: what the server holds.                         *)

HandsOut(c) == Makes(op[c], "mint") \/ Makes(op[c], "issue")

SecretInv(c) ==
  \A i \in DOMAIN op[c] :
    /\ op[c][i] \in {"mint", "issue"} /\ Passed(c, i) /\ c \notin lost
    /\ \A d \in Callers \ {c} : HandsOut(d) => d \in before[c]
    => held[c] = server.secret

DeployInv(c) ==
  \A i \in DOMAIN op[c] :
    op[c][i] = "deploy" /\ Passed(c, i) =>
      \A d \in before[c] : server.object = d => server.live = d

\* The first of two swaps does away with the value that the second expects.
SwapInv(c) ==
  Makes(op[c], "swap") /\ c \in done =>
    /\ server.object # "original"
    /\ \A d \in Callers \ {c} : Makes(op[d], "swap") => d \notin done

AloneInv(c) ==
  step[c] > 0 /\ Alone(c) /\ ~Makes(op[c], "issue") /\ ~Makes(op[c], "append") =>
    server = IF c \in done THEN Apply(Write(c), c, found[c]) ELSE found[c]

ServerInv ==
  \A c \in Callers : SecretInv(c) /\ DeployInv(c) /\ SwapInv(c) /\ AloneInv(c)

-----------------------------------------------------------------------------
(* The operators.                                                          *)

\* What a write does to each part of the server.
LEMMA ApplyFacts ==
  ASSUME NEW kind \in Writes, NEW c \in Callers, NEW s \in Server
  PROVE  LET t == Apply(kind, c, s)
         IN  /\ t \in Server
             /\ t.object = CASE kind \in {"create", "mint", "set", "swap"} \union SetWrites -> c
                             [] kind \in {"delete", "purge"} -> "absent"
                             [] kind = "revert" -> s.live
                             [] OTHER -> s.object
             /\ t.live = IF kind = "deploy" THEN s.object ELSE s.live
             /\ t.secret = IF kind \in {"mint", "issue"} THEN s.secret + 1 ELSE s.secret
<1>. USE DEF Server, Drafts, SetWrites
<1>1. CASE kind \in {"create", "set", "swap"}
  BY <1>1 DEF Apply
<1>2. CASE kind = "mint"
  <2>1. Apply(kind, c, s) = [s EXCEPT !.object = c, !.secret = s.secret + 1]
    BY <1>2 DEF Apply
  <2>2. s.secret + 1 \in Nat /\ c \in {"absent", "original"} \union Callers
    OBVIOUS
  <2>. QED  BY <1>2, <2>1, <2>2
<1>3. CASE kind \in {"delete", "purge"}
  BY <1>3 DEF Apply
<1>4. CASE kind \in {"configure", "append"}
  BY <1>4 DEF Apply
<1>5. CASE kind \in {"add", "remove", "replace"}
  <2>1. Apply(kind, c, s) = [s EXCEPT !.members = MembersAfter(kind, s.members)]
    BY <1>5 DEF Apply
  <2>2. MembersAfter(kind, s.members) \in SUBSET {"item", "other"}
    BY <1>5 DEF MembersAfter
  <2>. QED  BY <1>5, <2>1, <2>2
<1>6. CASE kind = "issue"
  BY <1>6 DEF Apply
<1>7. CASE kind \in {"deploy", "revert"}
  BY <1>7 DEF Apply
<1>8. CASE kind \in SetWrites
  <2>1. Apply(kind, c, s) = [s EXCEPT !.object = c, !.members = MembersAfter(kind, s.members)]
    BY <1>8 DEF Apply
  <2>2. MembersAfter(kind, s.members) \in SUBSET {"item", "other"}
    BY <1>8 DEF MembersAfter
  <2>. QED  BY <1>8, <2>1, <2>2
<1>9. kind \in {"create", "set", "swap", "mint", "delete", "purge", "configure", "append",
                "add", "remove", "replace", "issue", "deploy", "revert"} \union SetWrites
  BY DEF Writes
<1>. HIDE DEF Server, Drafts, SetWrites
<1>. QED  BY <1>1, <1>2, <1>3, <1>4, <1>5, <1>6, <1>7, <1>8, <1>9

\* Reading changes nothing.
LEMMA ApplyRead ==
  ASSUME NEW kind \in Reads, NEW c, NEW s
  PROVE  Apply(kind, c, s) = s
BY DEF Reads, Apply, SetWrites

\* A write that is carried out twice does what it does once, if it can be.
LEMMA ApplyTwice ==
  ASSUME NEW kind \in Writes \ {"issue", "append"}, NEW c \in Callers, NEW s \in Server,
         CanCarryOut(kind, Apply(kind, c, s))
  PROVE  Apply(kind, c, Apply(kind, c, s)) = Apply(kind, c, s)
<1>. USE DEF Server, Drafts, SetWrites
<1>1. CASE kind \in {"create", "set", "swap"}
  BY <1>1 DEF Apply
<1>2. CASE kind = "mint"
  <2>1. Apply(kind, c, s).object = c
    BY <1>2 DEF Apply
  <2>. QED  BY <1>2, <2>1, CallersAssumption DEF CanCarryOut
<1>3. CASE kind \in {"delete", "purge"}
  BY <1>3 DEF Apply
<1>4. CASE kind = "configure"
  BY <1>4 DEF Apply
<1>5. kind \in {"add", "remove", "replace"} \union SetWrites =>
        MembersAfter(kind, MembersAfter(kind, s.members)) = MembersAfter(kind, s.members)
  BY DEF MembersAfter
<1>6. CASE kind \in {"add", "remove", "replace"}
  <2>1. \A x \in Server : Apply(kind, c, x) = [x EXCEPT !.members = MembersAfter(kind, x.members)]
    BY <1>6 DEF Apply
  <2>2. Apply(kind, c, s) \in Server
    BY ApplyFacts
  <2>. QED  BY <1>5, <1>6, <2>1, <2>2
<1>7. CASE kind \in SetWrites
  <2>1. \A x \in Server : Apply(kind, c, x) =
          [x EXCEPT !.object = c, !.members = MembersAfter(kind, x.members)]
    BY <1>7 DEF Apply
  <2>2. PICK t \in Server : t = Apply(kind, c, s)
    BY ApplyFacts
  <2>3. /\ t = [s EXCEPT !.object = c, !.members = MembersAfter(kind, s.members)]
        /\ Apply(kind, c, t) = [t EXCEPT !.object = c, !.members = MembersAfter(kind, t.members)]
    BY <2>1, <2>2
  <2>. HIDE DEF SetWrites
  <2>. QED  BY <1>5, <1>7, <2>2, <2>3
<1>8. CASE kind \in {"deploy", "revert"}
  BY <1>8 DEF Apply
<1>. QED  BY <1>1, <1>2, <1>3, <1>4, <1>6, <1>7, <1>8 DEF Writes

\* The program of a caller.
LEMMA ProgramFacts ==
  ASSUME ControlInv, NEW c \in Callers
  PROVE  /\ op[c] \in Seq(Steps) /\ DOMAIN op[c] = 1 .. Len(op[c])
         /\ Len(op[c]) \in Nat /\ Len(op[c]) > 0 /\ step[c] \in 0 .. Len(op[c])
         /\ Orderly(op[c])
<1>1. PICK resource \in Resources : op \in [Callers -> Programs(resource)]
  BY DEF ControlInv
<1>2. Orderly(op[c])
  BY <1>1, ProgramsAreOrderly
<1>3. op[c] \in Seq(Steps) /\ Len(op[c]) > 0
  BY <1>2 DEF Orderly
<1>. QED  BY <1>2, <1>3, LenProperties DEF ControlInv, TypeOK

\* The write of a program is the only one.
LEMMA TheWrite ==
  ASSUME ControlInv, NEW c \in Callers, NEW i \in DOMAIN op[c], op[c][i] \in Writes
  PROVE  /\ Write(c) = op[c][i] /\ Write(c) \in Writes
         /\ \A kind \in Writes : Makes(op[c], kind) <=> kind = Write(c)
<1>1. \A j \in DOMAIN op[c] : op[c][j] \in Writes => j = i
  BY ProgramFacts DEF Orderly
<1>2. \A kind \in Writes : Makes(op[c], kind) <=> kind = op[c][i]
  BY <1>1 DEF Makes
<1>3. Write(c) = op[c][i]
  BY <1>2 DEF Write
<1>. QED  BY <1>2, <1>3

-----------------------------------------------------------------------------
(* Steps of a caller.                                                      *)

Turn(c) ==
  \/ Begin(c) \/ Check(c) \/ Parse(c)
  \/ Answered(c) \/ Refused(c) \/ NoAnswer(c) \/ StrayArrives(c) \/ Purge(c)

\* Who takes a step is not through: the answer is still to come, or a stray.
LEMMA TurnIsNotThrough ==
  ASSUME ControlInv, NEW c \in Callers, Turn(c)
  PROVE  ~Through(c)
BY DEF ControlInv, LifeInv, Turn, Through, Begin, Check, Parse, Answered, Refused,
       NoAnswer, StrayArrives, Purge, At

\* Nothing of the other callers changes.
LEMMA Frame ==
  ASSUME ControlInv, NEW c \in Callers, Turn(c), NEW d \in Callers \ {c}
  PROVE  /\ op' = op
         /\ step'[d] = step[d] /\ result'[d] = result[d] /\ strays'[d] = strays[d]
         /\ held'[d] = held[d] /\ before'[d] = before[d] /\ found'[d] = found[d]
         /\ (d \in done' <=> d \in done) /\ (d \in lost' <=> d \in lost)
         /\ (d \in accepted' <=> d \in accepted)
<1>. USE DEF ControlInv, TypeOK
<1>1. CASE Begin(c)
  BY <1>1 DEF Begin
<1>2. CASE Check(c) \/ Parse(c) \/ Refused(c)
  BY <1>2 DEF Check, Parse, Refused, Advance, Raise
<1>3. CASE Answered(c)
  BY <1>3 DEF Answered, CarryOut, Advance, Raise
<1>4. CASE NoAnswer(c)
  BY <1>4 DEF NoAnswer, Raise
<1>5. CASE StrayArrives(c)
  BY <1>5 DEF StrayArrives, CarryOut, call
<1>6. CASE Purge(c)
  BY <1>6 DEF Purge, call
<1>. QED  BY <1>1, <1>2, <1>3, <1>4, <1>5, <1>6 DEF Turn

\* The others' parts of the invariant are left alone.
LEMMA OthersKeep ==
  ASSUME ControlInv, NEW c \in Callers, Turn(c), NEW d \in Callers \ {c}
  PROVE  LifeInv(d)' /\ WriteInv(d)'
<1>1. WriteInv(d)'
  BY Frame DEF ControlInv, WriteInv, Passed, Taken
<1>2. \A e \in Callers : Through(e) => Through(e)'
  BY Frame, TurnIsNotThrough DEF Through
<1>3. \A e \in before[d] : e \in Callers
  BY DEF ControlInv, TypeOK
<1>. QED  BY <1>1, <1>2, <1>3, Frame DEF ControlInv, LifeInv

\* Where a step of the program leads to.
Moved ==
  /\ step' \in [Callers -> Nat]
  /\ attempt' \in [Callers -> 1 .. Attempts]
  /\ result' \in [Callers -> Results]
  /\ \A d \in Callers : step'[d] \in 0 .. Len(op[d])

LEMMA Advances ==
  ASSUME ControlInv, NEW c \in Callers, At(c, Steps), Advance(c)
  PROVE  /\ Moved
         /\ \/ step[c] = Len(op[c]) /\ step'[c] = step[c] /\ result'[c] = "ok"
            \/ step'[c] = step[c] + 1 /\ result'[c] = "none"
<1>1. \A d \in Callers : Len(op[d]) \in Nat /\ step[d] \in 0 .. Len(op[d])
  BY ProgramFacts
<1>. USE DEF ControlInv, TypeOK, At, Advance, Moved
<1>2. CASE step[c] = Len(op[c])
  BY <1>1, <1>2 DEF Results
<1>3. CASE step[c] # Len(op[c])
  <2>1. step' = [step EXCEPT ![c] = @ + 1] /\ step[c] + 1 \in 0 .. Len(op[c])
    BY <1>1, <1>3
  <2>2. attempt' = [attempt EXCEPT ![c] = 1] /\ 1 \in 1 .. Attempts
    BY <1>3, AttemptsAssumption
  <2>3. \A d \in Callers : step'[d] \in 0 .. Len(op[d])
    BY <1>1, <2>1
  <2>. QED  BY <1>3, <2>1, <2>2, <2>3
<1>. QED  BY <1>2, <1>3

LEMMA Raises ==
  ASSUME ControlInv, NEW c \in Callers, NEW error \in Results, Raise(c, error)
  PROVE  Moved /\ step'[c] = step[c] /\ result'[c] = error
<1>1. \A d \in Callers : step[d] \in 0 .. Len(op[d])
  BY ProgramFacts
<1>. QED  BY <1>1 DEF ControlInv, TypeOK, Raise, Moved

-----------------------------------------------------------------------------
(* The control of the callers.                                             *)

LEMMA ControlInit == Init => ControlInv
<1>. SUFFICES ASSUME Init PROVE ControlInv
  OBVIOUS
<1>1. PICK resource \in Resources : op \in [Callers -> Programs(resource)]
  BY DEF Init
<1>2. \A c \in Callers : Orderly(op[c])
  BY <1>1, ProgramsAreOrderly
<1>3. \A c \in Callers :
        op[c] \in Seq(Steps) /\ 0 \in 0 .. Len(op[c]) /\ DOMAIN op[c] = 1 .. Len(op[c])
  BY <1>2, LenProperties DEF Orderly
<1>4. server \in Server
  BY DEF Init, Server, Drafts
<1>5. TypeOK
  <2>1. attempt \in [Callers -> 1 .. Attempts]
    BY AttemptsAssumption DEF Init
  <2>2. \A c \in Callers : op[c] \in Seq(Steps) /\ step[c] \in 0 .. Len(op[c])
    BY <1>3 DEF Init
  <2>3. /\ strays \in [Callers -> SUBSET (1 .. Attempts)] /\ held \in [Callers -> Nat]
        /\ result \in [Callers -> Results] /\ before \in [Callers -> SUBSET Callers]
        /\ found \in [Callers -> Server] /\ done \subseteq Callers /\ lost \subseteq Callers
        /\ accepted \subseteq Callers
    BY <1>4 DEF Init, Results
  <2>. QED  BY <1>4, <2>1, <2>2, <2>3 DEF TypeOK
<1>6. ASSUME NEW c \in Callers PROVE LifeInv(c) /\ WriteInv(c)
  <2>1. LifeInv(c)
    BY DEF Init, LifeInv
  <2>2. \A i \in DOMAIN op[c] : ~Passed(c, i)
    BY <1>3 DEF Init, Passed
  <2>3. WriteInv(c)
    BY <2>2 DEF Init, WriteInv, Taken
  <2>. QED  BY <2>1, <2>3
<1>. QED  BY <1>1, <1>5, <1>6 DEF Init, ControlInv

\* From the caller's own part of the invariant to all of it.
LEMMA ControlFromOwn ==
  ASSUME ControlInv, NEW c \in Callers, Turn(c),
         Moved, server' \in Server, strays' \in [Callers -> SUBSET (1 .. Attempts)],
         held' \in [Callers -> Nat], done' \subseteq Callers, lost' \subseteq Callers,
         accepted' \subseteq Callers,
         before' \in [Callers -> SUBSET Callers], found' \in [Callers -> Server],
         LifeInv(c)', WriteInv(c)'
  PROVE  ControlInv'
<1>. op' = op
  BY DEF Turn, Begin, Check, Parse, Answered, Refused, NoAnswer, StrayArrives, Purge, call
<1>1. TypeOK'
  BY DEF ControlInv, TypeOK, Moved
<1>2. \A d \in Callers : LifeInv(d)' /\ WriteInv(d)'
  BY OthersKeep
<1>. QED  BY <1>1, <1>2 DEF ControlInv, Moved

LEMMA BeginControl ==
  ASSUME ControlInv, NEW c \in Callers, Begin(c)
  PROVE  ControlInv'
<1>. USE DEF ControlInv, TypeOK, Begin
<1>1. /\ Len(op[c]) \in Nat /\ Len(op[c]) > 0 /\ DOMAIN op[c] = 1 .. Len(op[c])
      /\ \A d \in Callers : Len(op[d]) \in Nat /\ step[d] \in 0 .. Len(op[d])
  BY ProgramFacts
<1>2. step' \in [Callers -> Nat] /\ \A d \in Callers : step'[d] \in 0 .. Len(op[d])
  BY <1>1
<1>3. /\ step[c] = 0 /\ step'[c] = 1 /\ result'[c] = "none" /\ result[c] = "none"
      /\ before'[c] = {d \in Callers : Through(d)}
  BY DEF LifeInv
<1>4. LifeInv(c)'
  <2>1. \A d \in Callers : Through(d)' <=> Through(d)
    BY DEF Through
  <2>2. ~Through(c)
    BY <1>3 DEF Through
  <2>. QED  BY <1>3, <2>1, <2>2 DEF LifeInv
<1>5. WriteInv(c)'
  BY <1>1, <1>3 DEF WriteInv, Passed, Taken
<1>6. before' \in [Callers -> SUBSET Callers] /\ found' \in [Callers -> Server]
  OBVIOUS
<1>. HIDE DEF ControlInv, TypeOK, Begin
<1>7. Turn(c)
  BY DEF Turn
<1>8. /\ result' = result /\ attempt' = attempt /\ server' = server
      /\ strays' = strays /\ held' = held /\ done' = done /\ lost' = lost
      /\ accepted' = accepted
  BY DEF Begin
<1>9. Moved
  BY <1>2, <1>8 DEF ControlInv, TypeOK, Moved
<1>. QED
  BY <1>4, <1>5, <1>6, <1>7, <1>8, <1>9, ControlFromOwn DEF ControlInv, TypeOK

\* Steps that send nothing.
LEMMA LocalControl ==
  ASSUME ControlInv, NEW c \in Callers, Check(c) \/ Parse(c)
  PROVE  ControlInv'
<1>1. /\ Len(op[c]) \in Nat /\ DOMAIN op[c] = 1 .. Len(op[c]) /\ step[c] \in 0 .. Len(op[c])
      /\ Orderly(op[c])
  BY ProgramFacts
<1>2. /\ At(c, Steps) /\ op[c][step[c]] \in {"check", "parse"} /\ step[c] \in DOMAIN op[c]
      /\ step[c] > 0 /\ result[c] = "none"
  BY <1>1 DEF Check, Parse, At, Steps
<1>3. /\ UNCHANGED <<server, accepted, op, strays, held, done, lost, before, found>>
      /\ \/ Advance(c)
         \/ Raise(c, "ValidationError") /\ op[c][step[c]] = "check"
         \/ Raise(c, "undecoded") /\ op[c][step[c]] = "parse"
  BY DEF Check, Parse, At
<1>4. /\ Moved
      /\ \/ step[c] = Len(op[c]) /\ step'[c] = step[c] /\ result'[c] = "ok"
         \/ step'[c] = step[c] + 1 /\ result'[c] = "none"
         \/ step'[c] = step[c] /\ result'[c] = "undecoded"
         \/ step'[c] = step[c] /\ result'[c] = "ValidationError" /\ op[c][step[c]] = "check"
  BY <1>2, <1>3, Advances, Raises DEF Results
<1>5. \A d \in Callers \ {c} : Through(d) => Through(d)'
  BY Frame DEF Turn, Through
<1>6. LifeInv(c)'
  BY <1>1, <1>2, <1>3, <1>4, <1>5 DEF ControlInv, TypeOK, LifeInv
<1>7. WriteInv(c)'
  <2>1. \A i \in DOMAIN op[c] : op[c][i] \in Writes => (Passed(c, i)' <=> Passed(c, i))
    BY <1>1, <1>2, <1>3, <1>4 DEF Passed, Writes
  <2>. QED  BY <1>1, <1>2, <1>3, <1>4, <2>1 DEF ControlInv, WriteInv, Taken
<1>8. Turn(c)
  BY DEF Turn
<1>. QED  BY <1>3, <1>4, <1>6, <1>7, <1>8, ControlFromOwn DEF ControlInv, TypeOK

LEMMA AnsweredControl ==
  ASSUME ControlInv, NEW c \in Callers, Answered(c)
  PROVE  ControlInv'
<1>. PICK kind \in Requests : kind = op[c][step[c]]
  BY DEF Answered, At
<1>1. /\ Len(op[c]) \in Nat /\ DOMAIN op[c] = 1 .. Len(op[c]) /\ step[c] \in 0 .. Len(op[c])
      /\ Orderly(op[c])
  BY ProgramFacts
<1>2. /\ At(c, Steps) /\ step[c] \in DOMAIN op[c] /\ step[c] > 0 /\ result[c] = "none"
  BY <1>1 DEF Answered, At, Steps
<1>3. /\ UNCHANGED <<op, strays, lost, before, found>>
      /\ CarryOut(kind, c)
      /\ held' = [held EXCEPT ![c] = IF kind \in {"mint", "issue"} THEN server'.secret ELSE @]
      /\ Advance(c) \/ Raise(c, "undecoded")
  BY DEF Answered
<1>4. /\ Moved
      /\ \/ step[c] = Len(op[c]) /\ step'[c] = step[c] /\ result'[c] = "ok"
         \/ step'[c] = step[c] + 1 /\ result'[c] = "none"
         \/ step'[c] = step[c] /\ result'[c] = "undecoded"
  BY <1>2, <1>3, Advances, Raises DEF Results
<1>5. /\ server' \in Server /\ done' \subseteq Callers /\ accepted' \subseteq Callers
      /\ Taken' = IF kind \in Writes THEN Taken \union {c} ELSE Taken
      /\ accepted' # accepted => kind = "purge"
  <2>1. server \in Server /\ done \subseteq Callers /\ accepted \subseteq Callers
    BY DEF ControlInv, TypeOK
  <2>2. Apply(kind, c, server) \in Server
    BY <2>1, ApplyFacts, ApplyRead DEF Requests
  <2>3. "purge" \in Writes
    BY DEF Writes
  <2>. QED  BY <1>3, <2>1, <2>2, <2>3 DEF CarryOut, Taken
<1>6. held' \in [Callers -> Nat]
  BY <1>3, <1>5 DEF ControlInv, TypeOK, Server
<1>7. \A d \in Callers \ {c} : Through(d) => Through(d)'
  BY Frame DEF Turn, Through
<1>8. LifeInv(c)'
  BY <1>1, <1>2, <1>3, <1>4, <1>7 DEF ControlInv, TypeOK, LifeInv
<1>9. WriteInv(c)'
  <2>1. \A i \in DOMAIN op[c] : Passed(c, i)' <=> (Passed(c, i) \/ i = step[c])
    BY <1>1, <1>2, <1>4 DEF Passed
  <2>2. (c \in accepted => Makes(op[c], "purge"))'
    <3>1. kind = "purge" => Makes(op[c], "purge")
      BY <1>2 DEF Makes
    <3>. QED  BY <1>3, <1>5, <3>1 DEF ControlInv, WriteInv
  <2>3. CASE kind \in Writes
    BY <1>1, <1>2, <1>3, <1>4, <1>5, <2>1, <2>2, <2>3 DEF WriteInv, Orderly
  <2>4. CASE kind \notin Writes
    BY <1>1, <1>2, <1>3, <1>4, <1>5, <2>1, <2>2, <2>4 DEF ControlInv, WriteInv
  <2>. QED  BY <2>3, <2>4
<1>10. Turn(c)
  BY DEF Turn
<1>. QED
  BY <1>3, <1>4, <1>5, <1>6, <1>8, <1>9, <1>10, ControlFromOwn DEF ControlInv, TypeOK

LEMMA RefusedControl ==
  ASSUME ControlInv, NEW c \in Callers, Refused(c)
  PROVE  ControlInv'
<1>1. /\ Len(op[c]) \in Nat /\ DOMAIN op[c] = 1 .. Len(op[c]) /\ step[c] \in 0 .. Len(op[c])
  BY ProgramFacts
<1>2. /\ UNCHANGED <<server, accepted, op, strays, held, done, lost, before, found>>
      /\ op[c][step[c]] \in Requests /\ step[c] > 0 /\ result[c] = "none"
  BY DEF Refused, At
<1>3. Moved /\ step'[c] = step[c] /\ result'[c] = "APIError"
  BY Raises DEF Refused, Results
<1>4. \A d \in Callers \ {c} : Through(d) => Through(d)'
  BY Frame DEF Turn, Through
<1>5. LifeInv(c)'
  BY <1>1, <1>2, <1>3, <1>4 DEF ControlInv, TypeOK, LifeInv
<1>6. WriteInv(c)'
  <2>1. \A i \in DOMAIN op[c] : Passed(c, i)' <=> Passed(c, i)
    BY <1>2, <1>3 DEF Passed
  <2>. QED  BY <1>2, <1>3, <2>1 DEF ControlInv, WriteInv, Taken
<1>7. Turn(c)
  BY DEF Turn
<1>. QED  BY <1>2, <1>3, <1>5, <1>6, <1>7, ControlFromOwn DEF ControlInv, TypeOK

LEMMA NoAnswerControl ==
  ASSUME ControlInv, NEW c \in Callers, NoAnswer(c)
  PROVE  ControlInv'
<1>1. /\ Len(op[c]) \in Nat /\ DOMAIN op[c] = 1 .. Len(op[c])
      /\ \A d \in Callers : step[d] \in 0 .. Len(op[d])
  BY ProgramFacts
<1>2. /\ UNCHANGED <<server, accepted, op, held, done, before, found>>
      /\ op[c][step[c]] \in Requests /\ step[c] > 0 /\ result[c] = "none"
  BY DEF NoAnswer, At
<1>3. Moved /\ step'[c] = step[c] /\ result'[c] \in {"none", "unknown"}
  <2>1. CASE attempt[c] < Attempts
    <3>1. attempt[c] + 1 \in 1 .. Attempts
      BY <2>1, AttemptsAssumption DEF ControlInv, TypeOK
    <3>2. attempt' = [attempt EXCEPT ![c] = @ + 1] /\ UNCHANGED <<step, result>>
      BY <2>1 DEF NoAnswer
    <3>. QED  BY <1>1, <1>2, <3>1, <3>2 DEF ControlInv, TypeOK, Moved
  <2>2. CASE ~(attempt[c] < Attempts)
    BY <2>2, Raises DEF NoAnswer, Results
  <2>. QED  BY <2>1, <2>2
<1>4. /\ strays' \in [Callers -> SUBSET (1 .. Attempts)] /\ lost' \subseteq Callers
      /\ lost \subseteq lost'
      /\ op[c][step[c]] \in Writes => lost' = lost \union {c}
      /\ op[c][step[c]] \notin Writes => lost' = lost /\ strays' = strays
  <2>1. CASE op[c][step[c]] \in Writes
    <3>1. strays' = [strays EXCEPT ![c] = @ \union {attempt[c]}] /\ lost' = lost \union {c}
      BY <2>1 DEF NoAnswer
    <3>2. strays \in [Callers -> SUBSET (1 .. Attempts)] /\ attempt[c] \in 1 .. Attempts
      BY DEF ControlInv, TypeOK
    <3>3. strays[c] \union {attempt[c]} \in SUBSET (1 .. Attempts)
      BY <3>2
    <3>. QED  BY <2>1, <3>1, <3>2, <3>3 DEF ControlInv, TypeOK
  <2>2. CASE op[c][step[c]] \notin Writes
    BY <2>2 DEF ControlInv, TypeOK, NoAnswer
  <2>. QED  BY <2>1, <2>2
<1>5. \A d \in Callers \ {c} : Through(d) => Through(d)'
  BY Frame DEF Turn, Through
<1>6. LifeInv(c)'
  BY <1>1, <1>2, <1>3, <1>4, <1>5 DEF ControlInv, TypeOK, LifeInv
<1>7. WriteInv(c)'
  <2>1. \A i \in DOMAIN op[c] : Passed(c, i)' <=> Passed(c, i)
    BY <1>2, <1>3 DEF Passed
  <2>2. step[c] \in DOMAIN op[c]
    BY <1>1, <1>2
  <2>. QED  BY <1>1, <1>2, <1>3, <1>4, <2>1, <2>2, SMTT(30) DEF ControlInv, WriteInv, Taken
<1>8. Turn(c)
  BY DEF Turn
<1>. QED  BY <1>2, <1>3, <1>4, <1>6, <1>7, <1>8, ControlFromOwn DEF ControlInv, TypeOK

\* A call has strays only if it wrote.
LEMMA StrayWrites ==
  ASSUME ControlInv, NEW c \in Callers, strays[c] # {}
  PROVE  /\ c \in lost /\ Write(c) \in Writes /\ Makes(op[c], Write(c))
         /\ \E i \in DOMAIN op[c] : i <= step[c] /\ op[c][i] \in Writes
<1>1. c \in lost
  BY DEF ControlInv, LifeInv
<1>2. PICK i \in DOMAIN op[c] : i <= step[c] /\ op[c][i] \in Writes
  BY <1>1 DEF ControlInv, WriteInv
<1>. QED  BY <1>1, <1>2, TheWrite

LEMMA StrayArrivesControl ==
  ASSUME ControlInv, NEW c \in Callers, StrayArrives(c)
  PROVE  ControlInv'
<1>1. /\ UNCHANGED <<op, step, attempt, held, result, lost, before, found>>
      /\ strays[c] # {} /\ done' \in {done, done \union {c}}
      /\ accepted' \in {accepted, accepted \union {c}}
      /\ accepted' # accepted => Write(c) = "purge"
  BY DEF StrayArrives, CarryOut, call
<1>2. c \in lost /\ \E i \in DOMAIN op[c] : i <= step[c] /\ op[c][i] \in Writes
  BY <1>1, StrayWrites
<1>3. strays' \in [Callers -> SUBSET (1 .. Attempts)]
  BY DEF ControlInv, TypeOK, StrayArrives
<1>4. server' \in Server
  <2>1. server \in Server /\ Write(c) \in Writes
    BY <1>1, StrayWrites DEF ControlInv, TypeOK
  <2>2. Apply(Write(c), c, server) \in Server
    BY <2>1, ApplyFacts
  <2>. QED  BY <2>1, <2>2 DEF StrayArrives, CarryOut
<1>5. \A d \in Callers \ {c} : Through(d) => Through(d)'
  BY Frame DEF Turn, Through
<1>6. LifeInv(c)'
  BY <1>1, <1>2, <1>5 DEF ControlInv, TypeOK, LifeInv
<1>7. WriteInv(c)'
  <2>1. (c \in accepted => Makes(op[c], "purge"))'
    BY <1>1, StrayWrites DEF ControlInv, WriteInv
  <2>. QED  BY <1>1, <1>2, <2>1 DEF ControlInv, WriteInv, Passed, Taken
<1>8. Turn(c)
  BY DEF Turn
<1>9. Moved
  BY <1>1 DEF ControlInv, TypeOK, Moved
<1>. QED
  BY <1>1, <1>3, <1>4, <1>6, <1>7, <1>8, <1>9, ControlFromOwn DEF ControlInv, TypeOK

LEMMA PurgeControl ==
  ASSUME ControlInv, NEW c \in Callers, Purge(c)
  PROVE  ControlInv'
<1>1. /\ UNCHANGED <<op, step, attempt, held, result, strays, lost, before, found>>
      /\ c \in accepted /\ accepted' = accepted \ {c} /\ done' = done \union {c}
      /\ server' = Apply("purge", c, server)
  BY DEF Purge, call
<1>2. server' \in Server
  <2>1. "purge" \in Writes /\ server \in Server
    BY DEF Writes, ControlInv, TypeOK
  <2>. QED  BY <1>1, <2>1, ApplyFacts
<1>3. \A d \in Callers \ {c} : Through(d) => Through(d)'
  BY Frame DEF Turn, Through
<1>4. LifeInv(c)'
  BY <1>1, <1>3 DEF ControlInv, TypeOK, LifeInv
<1>5. WriteInv(c)'
  BY <1>1 DEF ControlInv, WriteInv, Passed, Taken
<1>6. Turn(c)
  BY DEF Turn
<1>7. Moved
  BY <1>1 DEF ControlInv, TypeOK, Moved
<1>. QED
  BY <1>1, <1>2, <1>4, <1>5, <1>6, <1>7, ControlFromOwn DEF ControlInv, TypeOK

LEMMA ControlStep == ControlInv /\ [Next]_vars => ControlInv'
<1>1. ASSUME ControlInv, NEW c \in Callers, Turn(c) PROVE ControlInv'
  BY <1>1, BeginControl, LocalControl, AnsweredControl, RefusedControl, NoAnswerControl,
     StrayArrivesControl, PurgeControl DEF Turn
<1>2. ASSUME ControlInv, UNCHANGED vars PROVE ControlInv'
  BY <1>2 DEF ControlInv, TypeOK, LifeInv, WriteInv, Passed, Taken, Through, vars, call
<1>. QED  BY <1>1, <1>2 DEF Next, Turn, Quiet

LEMMA ControlHolds == Spec => []ControlInv
BY ControlInit, ControlStep, PTL DEF Spec

-----------------------------------------------------------------------------
(* What a step of a caller does to the server.                             *)

\* The write of the caller is carried out.
Carries(c) ==
  /\ Write(c) \in Writes /\ CanCarryOut(Write(c), server)
  /\ server' = Apply(Write(c), c, server)
  /\ done' = done \union {c}

\* After its beginning a caller changes the server by its write only, and with an
\* answer to that, or as a stray, or when what was accepted is carried out.
Effect(c) ==
  /\ step[c] > 0 /\ step'[c] > 0 /\ before' = before /\ found' = found /\ lost \subseteq lost'
  /\ \/ /\ server' = server /\ done' = done /\ held' = held
        /\ \A i \in DOMAIN op[c] :
             op[c][i] \in Writes \ {"purge"} => (Passed(c, i)' <=> Passed(c, i))
     \/ /\ Carries(c) /\ (c \in lost \/ Write(c) = "purge")
        /\ held' = held /\ \A i \in DOMAIN op[c] : Passed(c, i)' <=> Passed(c, i)
     \/ /\ Carries(c)
        /\ \A i \in DOMAIN op[c] : op[c][i] \in Writes => op[c][i] = Write(c) /\ ~Passed(c, i)
        /\ Write(c) \in {"mint", "issue"} => held'[c] = server'.secret

LEMMA Effects ==
  ASSUME ControlInv, NEW c \in Callers, Turn(c), ~Begin(c)
  PROVE  Effect(c)
<1>1. /\ Len(op[c]) \in Nat /\ DOMAIN op[c] = 1 .. Len(op[c])
      /\ step[c] \in 0 .. Len(op[c]) /\ Orderly(op[c])
  BY ProgramFacts
<1>2. CASE Check(c) \/ Parse(c)
  <2>1. /\ UNCHANGED <<server, op, strays, held, done, lost, before, found>>
        /\ At(c, Steps) /\ op[c][step[c]] \in {"check", "parse"}
        /\ Advance(c) \/ \E error \in {"ValidationError", "undecoded"} : Raise(c, error)
    BY <1>1, <1>2 DEF Check, Parse, At, Steps
  <2>2. \/ step[c] = Len(op[c]) /\ step'[c] = step[c]
        \/ step'[c] = step[c] + 1 /\ result'[c] = "none"
        \/ step'[c] = step[c]
    BY <2>1, Advances, Raises DEF Results
  <2>3. \A i \in DOMAIN op[c] : op[c][i] \in Writes => (Passed(c, i)' <=> Passed(c, i))
    BY <1>1, <2>1, <2>2 DEF Passed, Writes, At
  <2>. QED  BY <1>1, <2>1, <2>2, <2>3 DEF Effect, At
<1>3. CASE Answered(c)
  <2>. PICK kind \in Requests : kind = op[c][step[c]]
    BY <1>3 DEF Answered, At
  <2>1. /\ UNCHANGED <<op, strays, lost, before, found>>
        /\ step[c] > 0 /\ result[c] = "none" /\ At(c, Steps)
        /\ CanCarryOut(kind, server) /\ CarryOut(kind, c)
        /\ held' = [held EXCEPT ![c] = IF kind \in {"mint", "issue"} THEN server'.secret ELSE @]
        /\ Advance(c) \/ Raise(c, "undecoded")
    BY <1>3 DEF Answered, At, Steps
  <2>2. \/ step[c] = Len(op[c]) /\ step'[c] = step[c] /\ result'[c] = "ok"
        \/ step'[c] = step[c] + 1 /\ result'[c] = "none"
        \/ step'[c] = step[c] /\ result'[c] = "undecoded"
    BY <2>1, Advances, Raises DEF Results
  <2>3. \A i \in DOMAIN op[c] : /\ Passed(c, i)' <=> (Passed(c, i) \/ i = step[c])
                                /\ Passed(c, i) => i < step[c]
    BY <1>1, <2>1, <2>2 DEF Passed
  <2>4. CASE kind \in Writes
    <3>1. step[c] \in DOMAIN op[c] /\ Write(c) = kind
      BY <1>1, <2>1, <2>4, TheWrite
    <3>2. \A i \in DOMAIN op[c] : op[c][i] \in Writes => i = step[c]
      BY <1>1, <2>4, <3>1 DEF Orderly
    <3>3. held' = [held EXCEPT ![c] = IF kind \in {"mint", "issue"} THEN server'.secret ELSE held[c]]
          /\ held \in [Callers -> Nat]
      BY <2>1 DEF ControlInv, TypeOK
    <3>4. CASE kind = "purge"
      <4>1. server' = server /\ done' = done /\ held' = held
        BY <2>1, <3>3, <3>4 DEF CarryOut
      <4>2. \A i \in DOMAIN op[c] : op[c][i] \notin Writes \ {"purge"}
        BY <3>1, <3>2, <3>4
      <4>. QED  BY <1>1, <2>1, <2>2, <4>1, <4>2 DEF Effect
    <3>5. CASE kind # "purge"
      <4>1. Carries(c)
        BY <2>1, <2>4, <3>1, <3>5 DEF Carries, CarryOut
      <4>2. held'[c] = IF kind \in {"mint", "issue"} THEN server'.secret ELSE held[c]
        BY <3>3
      <4>. QED  BY <1>1, <2>1, <2>2, <2>3, <3>1, <3>2, <4>1, <4>2 DEF Effect
    <3>. QED  BY <3>4, <3>5
  <2>5. CASE kind \notin Writes
    <3>1. server' = server /\ done' = done /\ held' = held
      <4>1. kind # "purge" /\ kind \notin {"mint", "issue"} /\ kind \in Reads
        BY <2>5 DEF Writes, Requests
      <4>. QED  BY <2>1, <2>5, <4>1, ApplyRead DEF CarryOut, ControlInv, TypeOK
    <3>. QED  BY <1>1, <2>1, <2>2, <2>3, <2>5, <3>1 DEF Effect
  <2>. QED  BY <2>4, <2>5
<1>4. CASE Refused(c)
  <2>1. step'[c] = step[c] /\ result'[c] = "APIError"
    BY <1>4, Raises DEF Refused, Results
  <2>. QED  BY <1>4, <2>1 DEF Effect, Refused, At, Passed
<1>5. CASE NoAnswer(c)
  <2>1. step'[c] = step[c] /\ result'[c] \in {"none", "unknown"}
    BY <1>5, Raises DEF NoAnswer, Results, At
  <2>2. lost \subseteq lost'
    BY <1>5 DEF NoAnswer
  <2>. QED  BY <1>5, <2>1, <2>2 DEF Effect, NoAnswer, At, Passed
<1>6. CASE StrayArrives(c)
  <2>1. UNCHANGED <<op, step, held, result, lost, before, found>> /\ strays[c] # {}
    BY <1>6 DEF StrayArrives, call
  <2>2. c \in lost /\ Write(c) \in Writes /\ step[c] > 0
    BY <1>1, <2>1, StrayWrites
  <2>3. Carries(c) \/ UNCHANGED <<server, done>>
    BY <1>6, <2>2 DEF StrayArrives, CarryOut, Carries
  <2>. QED  BY <2>1, <2>2, <2>3 DEF Effect, Passed
<1>7. CASE Purge(c)
  <2>1. UNCHANGED <<op, step, held, result, lost, before, found>> /\ c \in accepted
    BY <1>7 DEF Purge, call
  <2>2. Write(c) = "purge" /\ "purge" \in Writes /\ step[c] > 0
    <3>1. Makes(op[c], "purge") /\ \E i \in DOMAIN op[c] : i <= step[c]
      BY <2>1 DEF ControlInv, WriteInv, Taken
    <3>. QED  BY <1>1, <3>1, TheWrite DEF Makes, Writes
  <2>3. Carries(c)
    BY <1>7, <2>2 DEF Purge, Carries, CanCarryOut, SetWrites
  <2>. QED  BY <2>1, <2>2, <2>3 DEF Effect, Passed
<1>. QED  BY <1>2, <1>3, <1>4, <1>5, <1>6, <1>7 DEF Turn

\* What holds of a server between two changes of its object and live version.
LEMMA CarriesFacts ==
  ASSUME ControlInv, NEW c \in Callers, Carries(c)
  PROVE  /\ server'.object = CASE Write(c) \in {"create", "mint", "set", "swap"} \union SetWrites -> c
                               [] Write(c) \in {"delete", "purge"} -> "absent"
                               [] Write(c) = "revert" -> server.live
                               [] OTHER -> server.object
         /\ server'.live = IF Write(c) = "deploy" THEN server.object ELSE server.live
         /\ Write(c) \notin {"mint", "issue"} => server'.secret = server.secret
BY ApplyFacts DEF ControlInv, TypeOK, Carries

\* A caller that carries out its write makes that write, and no other.
LEMMA CarriesMakes ==
  ASSUME ControlInv, NEW c \in Callers, Turn(c), ~Begin(c), Carries(c)
  PROVE  \A kind \in Writes : Makes(op[c], kind) <=> kind = Write(c)
<1>1. CASE \E i \in DOMAIN op[c] : op[c][i] \in Writes
  BY <1>1, TheWrite
<1>2. CASE ~ \E i \in DOMAIN op[c] : op[c][i] \in Writes
  <2>1. c \notin done \union lost /\ c \notin accepted
    BY <1>2 DEF ControlInv, WriteInv, Taken
  <2>2. strays[c] = {}
    BY <2>1 DEF ControlInv, LifeInv
  <2>3. ~Answered(c) \/ done' = done
    BY <1>2, ProgramFacts DEF Answered, CarryOut, At
  <2>4. done' = done
    BY <2>1, <2>2, <2>3 DEF Turn, Check, Parse, Refused, NoAnswer, StrayArrives, Purge
  <2>. QED  BY <2>1, <2>4 DEF Carries
<1>. QED  BY <1>1, <1>2

-----------------------------------------------------------------------------
(* The server.                                                             *)

LEMMA ServerInit == Init => ServerInv
<1>. SUFFICES ASSUME Init PROVE ServerInv
  OBVIOUS
<1>1. ControlInv
  BY ControlInit
<1>2. ASSUME NEW c \in Callers PROVE \A i \in DOMAIN op[c] : ~Passed(c, i)
  BY ProgramFacts, <1>1 DEF Init, Passed
<1>3. ASSUME NEW c \in Callers
      PROVE  SecretInv(c) /\ DeployInv(c) /\ SwapInv(c) /\ AloneInv(c)
  BY <1>2 DEF Init, SecretInv, DeployInv, SwapInv, AloneInv
<1>. QED  BY <1>3 DEF ServerInv

\* The programs stay what they are, and nobody is through who takes a step.
LEMMA TurnFacts ==
  ASSUME ControlInv, NEW c \in Callers, Turn(c)
  PROVE  /\ op' = op
         /\ \A d \in Callers : c \notin before[d]
         /\ Begin(c) => /\ server' = server /\ held' = held /\ done' = done /\ lost' = lost
                        /\ \A i \in DOMAIN op[c] : ~Passed(c, i)'
<1>1. op' = op
  BY DEF Turn, Begin, Check, Parse, Answered, Refused, NoAnswer, StrayArrives, Purge, call
<1>2. \A d \in Callers : c \notin before[d]
  BY TurnIsNotThrough DEF ControlInv, LifeInv
<1>3. ASSUME Begin(c) PROVE \A i \in DOMAIN op[c] : ~Passed(c, i)'
  <2>1. step'[c] = 1 /\ result'[c] = "none"
    BY <1>3 DEF ControlInv, TypeOK, LifeInv, Begin
  <2>. QED  BY <2>1, ProgramFacts DEF Passed
<1>. QED  BY <1>1, <1>2, <1>3 DEF Begin

\* A secret stays the latest while nobody asks for one who was not through.
LEMMA SecretStep ==
  ASSUME ControlInv, ServerInv, NEW c \in Callers, Turn(c), NEW d \in Callers
  PROVE  SecretInv(d)'
<1>. SUFFICES ASSUME NEW i \in DOMAIN op[d],
                     op[d][i] \in {"mint", "issue"}, Passed(d, i)', d \notin lost',
                     \A e \in Callers \ {d} : HandsOut(e) => e \in before'[d]
              PROVE  held'[d] = server'.secret
  BY TurnFacts DEF SecretInv, HandsOut
<1>1. SecretInv(d)
  BY DEF ServerInv
<1>2. CASE Begin(c)
  <2>1. d # c
    BY <1>2, TurnFacts
  <2>. QED  BY <1>1, <1>2, <2>1, TurnFacts, Frame DEF SecretInv, Passed
<1>3. CASE ~Begin(c) /\ d # c
  <2>1. Effect(c) /\ before' = before
    BY <1>3, Effects DEF Effect
  <2>2. held[d] = server.secret
    BY <1>1, <1>3, <2>1, Frame DEF SecretInv, Passed
  <2>3. ~HandsOut(c)
    BY <1>3, <2>1, TurnFacts
  <2>4. Carries(c) => Write(c) \notin {"mint", "issue"}
    BY <1>3, <2>3, CarriesMakes DEF HandsOut, Writes
  <2>5. server'.secret = server.secret
    BY <2>1, <2>4, CarriesFacts DEF Effect
  <2>. QED  BY <1>3, <2>2, <2>5, Frame
<1>4. CASE ~Begin(c) /\ d = c
  <2>1. Effect(c)
    BY <1>4, Effects
  <2>2. op[d][i] \in Writes
    BY DEF Writes
  <2>3. Write(d) = op[d][i] /\ Write(d) # "purge"
    BY <2>2, TheWrite
  <2>. QED  BY <1>1, <1>4, <2>1, <2>2, <2>3 DEF Effect, SecretInv
<1>. QED  BY <1>2, <1>3, <1>4

\* What was staged before a deploy is not staged again without being live.
LEMMA DeployStep ==
  ASSUME ControlInv, ServerInv, NEW c \in Callers, Turn(c), NEW d \in Callers
  PROVE  DeployInv(d)'
<1>. SUFFICES ASSUME NEW i \in DOMAIN op[d], op[d][i] = "deploy", Passed(d, i)',
                     NEW e \in before'[d], server'.object = e
              PROVE  server'.live = e
  BY TurnFacts DEF DeployInv
<1>1. DeployInv(d)
  BY DEF ServerInv
<1>2. CASE Begin(c)
  <2>1. d # c
    BY <1>2, TurnFacts
  <2>. QED  BY <1>1, <1>2, <2>1, TurnFacts, Frame DEF DeployInv, Passed
<1>3. CASE ~Begin(c)
  <2>1. Effect(c) /\ before' = before
    BY <1>3, Effects DEF Effect
  <2>2. e # c /\ e \in Callers
    BY <2>1, TurnFacts DEF ControlInv, TypeOK
  <2>3. CASE ~Carries(c)
    <3>1. Passed(d, i)
      BY <1>3, <2>1, <2>3, Frame DEF Effect, Passed, Writes
    <3>. QED  BY <1>1, <2>1, <2>3, <3>1 DEF Effect, DeployInv
  <2>4. CASE Carries(c) /\ Write(c) = "deploy"
    BY <2>4, CarriesFacts DEF SetWrites
  <2>5. CASE Carries(c) /\ Write(c) # "deploy"
    <3>1. Passed(d, i)
      BY <1>3, <2>1, <2>5, Frame DEF Effect, Passed, Writes
    <3>2. server.object = e => server.live = e
      BY <1>1, <2>1, <3>1 DEF DeployInv
    <3>. QED  BY <2>2, <2>5, <3>2, CarriesFacts, CallersAssumption
  <2>. QED  BY <2>3, <2>4, <2>5
<1>. QED  BY <1>2, <1>3

\* After a swap the old value is not there for another, and does not come back.
LEMMA SwapStep ==
  ASSUME ControlInv, ServerInv, NEW c \in Callers, Turn(c), NEW d \in Callers
  PROVE  SwapInv(d)'
<1>. SUFFICES ASSUME Makes(op[d], "swap"), d \in done'
              PROVE  /\ server'.object # "original"
                     /\ \A e \in Callers \ {d} : Makes(op[e], "swap") => e \notin done'
  BY TurnFacts DEF SwapInv
<1>1. ASSUME NEW e \in Callers, e \in done, Makes(op[e], "swap")
      PROVE  /\ server.object # "original"
             /\ \A x \in Callers \ {e} : Makes(op[x], "swap") => x \notin done
  BY <1>1 DEF ServerInv, SwapInv
<1>2. CASE Begin(c) \/ ~Carries(c)
  <2>1. server' = server /\ done' = done
    BY <1>2, TurnFacts, Effects DEF Effect
  <2>. QED  BY <1>1, <2>1
<1>3. CASE ~Begin(c) /\ Carries(c)
  <2>1. \A kind \in Writes : Makes(op[c], kind) <=> kind = Write(c)
    BY <1>3, CarriesMakes
  <2>2. done' = done \union {c} /\ Write(c) \in Writes
        /\ (Write(c) = "swap" => server.object = "original")
    BY <1>3 DEF Carries, CanCarryOut
  <2>3. CASE d \in done
    <3>1. Write(c) # "swap" /\ ~Makes(op[c], "swap")
      BY <1>1, <2>1, <2>2, <2>3 DEF Writes
    <3>2. Write(c) # "revert"
      <4>1. PICK resource \in Resources : op \in [Callers -> Programs(resource)]
        BY DEF ControlInv
      <4>2. ~Makes(op[c], "revert")
        BY <4>1, SwappedIsNotReverted
      <4>. QED  BY <2>1, <4>2 DEF Writes
    <3>3. server'.object # "original"
      BY <1>1, <1>3, <2>3, <3>2, CarriesFacts, CallersAssumption
    <3>. QED  BY <1>1, <2>2, <2>3, <3>1, <3>3
  <2>4. CASE d \notin done
    <3>1. d = c /\ Write(c) = "swap"
      BY <2>1, <2>2, <2>4 DEF Writes
    <3>2. server'.object # "original"
      BY <1>3, <3>1, CarriesFacts, CallersAssumption
    <3>3. \A e \in Callers \ {d} : Makes(op[e], "swap") => e \notin done
      BY <1>1, <2>2, <3>1
    <3>. QED  BY <2>2, <3>1, <3>2, <3>3
  <2>. QED  BY <2>3, <2>4
<1>. QED  BY <1>2, <1>3

\* A caller that is alone finds the server as it left it, and writes the same.
LEMMA AloneStep ==
  ASSUME ControlInv, ServerInv, NEW c \in Callers, Turn(c), NEW d \in Callers
  PROVE  AloneInv(d)'
<1>. SUFFICES ASSUME step'[d] > 0, Alone(d)',
                     ~Makes(op[d], "issue"), ~Makes(op[d], "append")
              PROVE  server' = IF d \in done' THEN Apply(Write(d), d, found'[d]) ELSE found'[d]
  BY TurnFacts DEF AloneInv, Write
<1>1. CASE d # c
  <2>1. step'[c] # 0
    BY Effects DEF Effect, Begin, ControlInv
  <2>2. c \notin before'[d]
    BY <1>1, Frame, TurnFacts
  <2>. QED  BY <1>1, <2>1, <2>2 DEF Alone
<1>2. CASE d = c /\ Begin(c)
  <2>1. c \notin done
    BY <1>2, ProgramFacts DEF ControlInv, WriteInv, Taken, Begin
  <2>. QED  BY <1>2, <2>1 DEF Begin, ControlInv, TypeOK
<1>3. CASE d = c /\ ~Begin(c)
  <2>1. Effect(c) /\ found' = found /\ before' = before /\ step[c] > 0
    BY <1>3, Effects DEF Effect
  <2>2. Alone(c)
    BY <1>3, <2>1, Frame DEF Alone
  <2>3. server = IF c \in done THEN Apply(Write(c), c, found[c]) ELSE found[c]
    BY <1>3, <2>1, <2>2 DEF ServerInv, AloneInv
  <2>4. CASE ~Carries(c)
    BY <1>3, <2>1, <2>3, <2>4 DEF Effect
  <2>5. CASE Carries(c) /\ c \notin done
    BY <1>3, <2>1, <2>3, <2>5 DEF Carries
  <2>6. CASE Carries(c) /\ c \in done
    <3>1. Write(c) \in Writes \ {"issue", "append"} /\ CanCarryOut(Write(c), server)
      BY <1>3, <2>6, CarriesMakes DEF Carries, Writes
    <3>2. found[c] \in Server
      BY DEF ControlInv, TypeOK
    <3>3. Apply(Write(c), c, server) = server
      BY <2>3, <2>6, <3>1, <3>2, ApplyTwice
    <3>. QED  BY <1>3, <2>1, <2>3, <2>6, <3>3 DEF Carries
  <2>. QED  BY <2>4, <2>5, <2>6
<1>. QED  BY <1>1, <1>2, <1>3

LEMMA ServerStep == ControlInv /\ ServerInv /\ [Next]_vars => ServerInv'
<1>1. ASSUME ControlInv, ServerInv, NEW c \in Callers, Turn(c) PROVE ServerInv'
  <2>1. \A d \in Callers : SecretInv(d)' /\ DeployInv(d)' /\ SwapInv(d)' /\ AloneInv(d)'
    BY <1>1, SecretStep, DeployStep, SwapStep, AloneStep
  <2>. QED  BY <2>1 DEF ServerInv
<1>2. ASSUME ServerInv, UNCHANGED vars PROVE ServerInv'
  <2>. USE DEF vars, call
  <2>1. ASSUME NEW d \in Callers
        PROVE  SecretInv(d)' /\ DeployInv(d)' /\ SwapInv(d)'
    BY <1>2 DEF ServerInv, SecretInv, HandsOut, Passed, DeployInv, SwapInv
  <2>2. ASSUME NEW d \in Callers PROVE AloneInv(d)'
    BY <1>2 DEF ServerInv, AloneInv, Alone, Write
  <2>. QED  BY <2>1, <2>2 DEF ServerInv
<1>. QED  BY <1>1, <1>2 DEF Next, Turn, Quiet

LEMMA InvHolds == Spec => [](ControlInv /\ ServerInv)
<1>1. Init => ControlInv /\ ServerInv
  BY ControlInit, ServerInit
<1>2. ControlInv /\ ServerInv /\ [Next]_vars => (ControlInv /\ ServerInv)'
  BY ControlStep, ServerStep
<1>. QED  BY <1>1, <1>2, PTL DEF Spec

-----------------------------------------------------------------------------
(* The theorems.                                                           *)

\* Every variable has its type: what the server holds stays well-formed through
\* every sequence of operations, and no call makes more attempts than it may.
THEOREM TypeCorrect == Spec => []TypeOK
<1>1. ControlInv => TypeOK
  BY DEF ControlInv
<1>. QED  BY <1>1, ControlHolds, PTL

\* A call that is refused has changed nothing, as far as its answers can tell.
THEOREM RefusalIsReal == Spec => []RefusedMeansUntouched
<1>1. ASSUME ControlInv, NEW c \in Callers, result[c] = "ValidationError"
      PROVE  c \notin Taken /\ strays[c] = {}
  <2>1. step[c] \in DOMAIN op[c] /\ op[c][step[c]] = "check"
    BY <1>1, ProgramFacts DEF ControlInv, LifeInv
  <2>2. step[c] = 1
    BY <1>1, <2>1, ProgramFacts DEF Orderly
  <2>3. \A i \in DOMAIN op[c] : i <= step[c] => op[c][i] \notin Writes
    BY <1>1, <2>1, <2>2, ProgramFacts DEF Writes
  <2>. QED  BY <1>1, <2>3 DEF ControlInv, WriteInv, LifeInv
<1>2. ASSUME ControlInv, NEW c \in Callers, result[c] = "APIError",
             c \notin lost, ~ReadsBack(op[c])
      PROVE  c \notin Taken
  <2>1. SUFFICES ASSUME c \in Taken PROVE FALSE
    OBVIOUS
  <2>2. PICK i \in DOMAIN op[c] : i <= step[c] /\ op[c][i] \in Writes
    BY <1>2, <2>1 DEF ControlInv, WriteInv
  <2>3. Passed(c, i)
    BY <1>2, <2>1, <2>2 DEF ControlInv, WriteInv
  <2>4. i < step[c] /\ step[c] \in DOMAIN op[c]
    BY <1>2, <2>3, ProgramFacts DEF Passed
  <2>5. op[c][step[c]] \in Reads
    BY <1>2, <2>2, <2>4, ProgramFacts DEF ControlInv, LifeInv, Requests, Orderly
  <2>. QED  BY <1>2, <2>2, <2>4, <2>5 DEF ReadsBack
<1>3. ControlInv => RefusedMeansUntouched
  BY <1>1, <1>2 DEF RefusedMeansUntouched, Taken
<1>. QED  BY <1>3, ControlHolds, PTL

\* A call that returned has done all of its program.
LEMMA OkIsPassed ==
  ASSUME ControlInv, NEW c \in Callers, result[c] = "ok"
  PROVE  \A i \in DOMAIN op[c] : Passed(c, i)
BY ProgramFacts DEF ControlInv, LifeInv, Passed

LEMMA OkIsDone ==
  ASSUME ControlInv, NEW c \in Callers, result[c] = "ok",
         NEW kind \in Writes, Makes(op[c], kind), kind # "purge" \/ c \notin accepted
  PROVE  c \in done
<1>1. c \in Taken
  BY OkIsPassed DEF ControlInv, WriteInv, Makes
<1>2. c \in accepted => kind = "purge"
  <2>1. c \in accepted => Makes(op[c], "purge")
    BY DEF ControlInv, WriteInv
  <2>. QED  BY <2>1, TheWrite DEF Makes, Writes
<1>. QED  BY <1>1, <1>2 DEF Taken

\* Whoever is alone sees its write once or not at all, however often it is sent.
THEOREM InvisibleRetries == Spec => []RetriesAreInvisible
<1>1. ControlInv /\ ServerInv => RetriesAreInvisible
  BY OkIsDone DEF ServerInv, AloneInv, RetriesAreInvisible, Through
<1>. QED  BY <1>1, InvHolds, PTL

\* A secret that was handed out is the latest, unless somebody asked for another.
THEOREM LatestSecret == Spec => []HeldSecretIsLatest
<1>1. ASSUME ControlInv, ServerInv, NEW c \in Callers, result[c] = "ok", HandsOut(c)
      PROVE  \/ held[c] = server.secret
             \/ c \in lost
             \/ \E d \in Callers \ {c} : d \notin before[c] /\ HandsOut(d)
  <2>1. PICK i \in DOMAIN op[c] : op[c][i] \in {"mint", "issue"}
    BY <1>1 DEF HandsOut, Makes
  <2>2. Passed(c, i)
    BY <1>1, OkIsPassed
  <2>. QED  BY <1>1, <2>1, <2>2 DEF ServerInv, SecretInv
<1>2. ControlInv /\ ServerInv => HeldSecretIsLatest
  BY <1>1 DEF HeldSecretIsLatest, HandsOut
<1>. QED  BY <1>2, InvHolds, PTL

\* A deploy that returned has made live what had been staged before it.
THEOREM DeployIsLive == Spec => []DeployMakesLive
<1>1. ASSUME ControlInv, ServerInv, NEW c \in Callers, NEW d \in before[c],
             result[c] = "ok", Makes(op[c], "deploy"), server.object = d
      PROVE  server.live = d
  BY <1>1, OkIsPassed DEF Makes, ServerInv, DeployInv
<1>2. ControlInv /\ ServerInv => DeployMakesLive
  BY <1>1 DEF DeployMakesLive
<1>. QED  BY <1>2, InvHolds, PTL

\* Of the updates that name the same old value at most one is told that it won.
THEOREM SwapsExclude == Spec => []OneSwapWins
<1>1. ControlInv /\ ServerInv => OneSwapWins
  BY OkIsDone DEF ServerInv, SwapInv, OneSwapWins, Writes
<1>. QED  BY <1>1, InvHolds, PTL

=============================================================================
