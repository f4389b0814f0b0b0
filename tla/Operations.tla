----------------------------- MODULE Operations -----------------------------
(***************************************************************************)
(* Callers of the methods of one resource, each running a program of       *)
(* Resources step by step against a server.  A request goes through the    *)
(* retry loop: an attempt that ends without an answer is made again, its   *)
(* copy may be carried out at any later time or never, and when the        *)
(* attempts are used up the caller does not know which.                    *)
(***************************************************************************)
EXTENDS Integers, Resources

CONSTANTS
  Callers,   \* threads, tasks, or calls made one after the other
  Attempts   \* max_retries + 1

ASSUME AttemptsAssumption == Attempts \in Nat \ {0}

\* What stands in the object's place names its writer.
ASSUME CallersAssumption == Callers \intersect {"absent", "original"} = {}

VARIABLES
  server,   \* what the resource holds: see Server
  accepted, \* callers with a deletion that the server will carry out later
  op,       \* op[c]: the program that the caller runs
  step,     \* step[c]: where it is, 0 before the call
  attempt,  \* attempt[c]: attempts that the request at hand has had
  strays,   \* strays[c]: attempts at the write that may yet be carried out
  held,     \* held[c]: the secret that a reply brought
  result,   \* result[c]: "none", or how the call ended
  done,     \* history: callers whose write was carried out, once or more
  lost,     \* history: callers with a write that had no answer
  before,   \* history: before[c]: callers that were through when c began
  found     \* history: found[c]: the server when c began

call == <<op, step, attempt, held, result>>
vars == <<server, accepted, call, strays, done, lost, before, found>>

Drafts == {"absent", "original"} \union Callers

\* The object and its live version, named by who wrote them; the tenant's
\* settings, members of a set, the number of the latest secret, and how many
\* entries (notes, reports, scans, upgrades, resets) were made.
Server == [object : Drafts, live : Drafts, settings : {"original"} \union Callers,
           members : SUBSET {"item", "other"}, secret : Nat, entries : Nat]

Results == {"none", "ok", "ValidationError", "APIError", "undecoded", "unknown"}

TypeOK ==
  /\ server \in Server
  /\ accepted \subseteq Callers
  /\ \A c \in Callers : op[c] \in Seq(Steps) /\ step[c] \in 0 .. Len(op[c])
  /\ attempt \in [Callers -> 1 .. Attempts]
  /\ strays \in [Callers -> SUBSET (1 .. Attempts)]
  /\ held \in [Callers -> Nat]
  /\ result \in [Callers -> Results]
  /\ done \subseteq Callers
  /\ lost \subseteq Callers
  /\ before \in [Callers -> SUBSET Callers]
  /\ found \in [Callers -> Server]

Init ==
  /\ \E object \in {"absent", "original"} :
       server = [object |-> object, live |-> object, settings |-> "original",
                 members |-> {"other"}, secret |-> 0, entries |-> 0]
  /\ accepted = {}
  /\ \E resource \in Resources : op \in [Callers -> Programs(resource)]
  /\ step = [c \in Callers |-> 0]
  /\ attempt = [c \in Callers |-> 1]
  /\ strays = [c \in Callers |-> {}]
  /\ held = [c \in Callers |-> 0]
  /\ result = [c \in Callers |-> "none"]
  /\ done = {}
  /\ lost = {}
  /\ before = [c \in Callers |-> {}]
  /\ found = [c \in Callers |-> server]

-----------------------------------------------------------------------------
(* The server.                                                             *)

\* A plausible slip: the value that the caller expects is left out.
CanCarryOutUnguarded(kind, s) ==
  /\ kind \in {"get", "set", "swap", "delete", "issue"} \union SetWrites =>
       s.object # "absent"
  /\ kind \in {"create", "mint"} => s.object = "absent"

CanCarryOut(kind, s) ==
  /\ kind \in {"get", "set", "delete", "issue"} \union SetWrites => s.object # "absent"
  /\ kind \in {"create", "mint"} => s.object = "absent"
  /\ kind = "swap" => s.object = "original"

\* A plausible slip: the request asks for a change where it should for a value.
ApplyToggling(kind, c, s) ==
  CASE kind = "configure" ->
         [s EXCEPT !.settings = IF @ = c THEN "original" ELSE c]
    [] OTHER -> s

\* A plausible slip: an update of a token renews its secret.
ApplyRenewing(kind, c, s) ==
  CASE kind \in {"set", "issue"} -> [s EXCEPT !.secret = @ + 1]
    [] OTHER -> s

MembersAfter(kind, members) ==
  CASE kind \in {"add", "add_set"}         -> members \union {"item"}
    [] kind \in {"remove", "remove_set"}   -> members \ {"item"}
    [] kind \in {"replace", "replace_set"} -> {"item"}

Apply(kind, c, s) ==
  CASE kind \in {"create", "set", "swap"} -> [s EXCEPT !.object = c]
    [] kind = "mint"      -> [s EXCEPT !.object = c, !.secret = @ + 1]
    [] kind \in {"delete", "purge"} -> [s EXCEPT !.object = "absent"]
    [] kind = "configure" -> [s EXCEPT !.settings = c]
    [] kind \in {"add", "remove", "replace"} ->
         [s EXCEPT !.members = MembersAfter(kind, @)]
    [] kind \in SetWrites ->
         [s EXCEPT !.object = c, !.members = MembersAfter(kind, @)]
    [] kind = "issue"     -> [s EXCEPT !.secret = @ + 1]
    [] kind = "deploy"    -> [s EXCEPT !.live = s.object]
    [] kind = "revert"    -> [s EXCEPT !.object = s.live]
    [] kind = "append"    -> [s EXCEPT !.entries = @ + 1]
    [] OTHER              -> s

\* The deletion of CCI tags is accepted (202), and carried out in the background:
\* see Purge.
CarryOut(kind, c) ==
  IF kind = "purge"
  THEN accepted' = accepted \union {c} /\ UNCHANGED <<server, done>>
  ELSE /\ server' = Apply(kind, c, server)
       /\ done' = IF kind \in Writes THEN done \union {c} ELSE done
       /\ UNCHANGED accepted

-----------------------------------------------------------------------------
(* The callers.                                                            *)

Write(c) == CHOOSE kind \in Writes : Makes(op[c], kind)

At(c, kinds) == step[c] > 0 /\ result[c] = "none" /\ op[c][step[c]] \in kinds

\* The call is over and the server has seen the last of it.
Through(c) == result[c] # "none" /\ strays[c] = {} /\ c \notin accepted

Raise(c, error) ==
  /\ result' = [result EXCEPT ![c] = error]
  /\ UNCHANGED <<step, attempt>>

Advance(c) ==
  IF step[c] = Len(op[c])
  THEN result' = [result EXCEPT ![c] = "ok"] /\ UNCHANGED <<step, attempt>>
  ELSE /\ step' = [step EXCEPT ![c] = @ + 1]
       /\ attempt' = [attempt EXCEPT ![c] = 1]
       /\ UNCHANGED result

Begin(c) ==
  /\ step[c] = 0
  /\ step' = [step EXCEPT ![c] = 1]
  /\ before' = [before EXCEPT ![c] = {d \in Callers : Through(d)}]
  /\ found' = [found EXCEPT ![c] = server]
  /\ UNCHANGED <<server, accepted, op, attempt, strays, held, result, done, lost>>

Check(c) ==
  /\ At(c, {"check"})
  /\ Advance(c) \/ Raise(c, "ValidationError")
  /\ UNCHANGED <<server, accepted, op, strays, held, done, lost, before, found>>

Parse(c) ==
  /\ At(c, {"parse"})
  /\ Advance(c) \/ Raise(c, "undecoded")
  /\ UNCHANGED <<server, accepted, op, strays, held, done, lost, before, found>>

\* The server carries the attempt out and answers.  Only deletions cope with a
\* reply that is not JSON.
Answered(c) ==
  /\ At(c, Requests)
  /\ LET kind == op[c][step[c]]
     IN  /\ CanCarryOut(kind, server)
         /\ CarryOut(kind, c)
         /\ held' = [held EXCEPT ![c] =
              IF kind \in {"mint", "issue"} THEN server'.secret ELSE @]
         /\ \/ Advance(c)
            \/ kind \notin {"delete", "purge"} /\ Raise(c, "undecoded")
  /\ UNCHANGED <<op, strays, lost, before, found>>

\* An answer that says no, for one reason or another.
Refused(c) ==
  /\ At(c, Requests)
  /\ Raise(c, "APIError")
  /\ UNCHANGED <<server, accepted, op, strays, held, done, lost, before, found>>

\* A plausible slip: when the attempts are used up the call just returns.
NoAnswerIgnored(c) ==
  /\ At(c, Requests)
  /\ op[c][step[c]] \in Writes
  /\ strays' = [strays EXCEPT ![c] = @ \union {attempt[c]}]
  /\ lost' = lost \union {c}
  /\ IF attempt[c] < Attempts
     THEN attempt' = [attempt EXCEPT ![c] = @ + 1] /\ UNCHANGED <<step, result>>
     ELSE Advance(c)
  /\ UNCHANGED <<server, accepted, op, held, done, before, found>>

\* A plausible slip: one attempt too many.
NoAnswerUnbounded(c) ==
  /\ At(c, Requests)
  /\ attempt[c] <= Attempts
  /\ strays' = strays /\ lost' = lost
  /\ attempt' = [attempt EXCEPT ![c] = @ + 1] /\ UNCHANGED <<step, result>>
  /\ UNCHANGED <<server, accepted, op, held, done, before, found>>

\* No answer, or one that leaves it open, such as a 502: the request is made
\* again, or the call is given up with a TimeoutError, ConnectionError or
\* ServerError.
NoAnswer(c) ==
  /\ At(c, Requests)
  /\ IF op[c][step[c]] \in Writes
     THEN /\ strays' = [strays EXCEPT ![c] = @ \union {attempt[c]}]
          /\ lost' = lost \union {c}
     ELSE UNCHANGED <<strays, lost>>
  /\ IF attempt[c] < Attempts
     THEN attempt' = [attempt EXCEPT ![c] = @ + 1] /\ UNCHANGED <<step, result>>
     ELSE Raise(c, "unknown")
  /\ UNCHANGED <<server, accepted, op, held, done, before, found>>

\* A copy without an answer is carried out after all, or comes to nothing.
StrayArrives(c) ==
  /\ \E i \in strays[c] : strays' = [strays EXCEPT ![c] = @ \ {i}]
  /\ \/ /\ CanCarryOut(Write(c), server)
        /\ CarryOut(Write(c), c)
     \/ UNCHANGED <<server, accepted, done>>
  /\ UNCHANGED <<call, lost, before, found>>

\* The server carries out what it has accepted.
Purge(c) ==
  /\ c \in accepted
  /\ accepted' = accepted \ {c}
  /\ server' = Apply("purge", c, server)
  /\ done' = done \union {c}
  /\ UNCHANGED <<call, strays, lost, before, found>>

Quiet ==
  /\ \A c \in Callers : Through(c)
  /\ UNCHANGED vars

Next ==
  \/ \E c \in Callers :
       \/ Begin(c) \/ Check(c) \/ Parse(c)
       \/ Answered(c) \/ Refused(c) \/ NoAnswer(c) \/ StrayArrives(c) \/ Purge(c)
  \/ Quiet

Spec == Init /\ [][Next]_vars

-----------------------------------------------------------------------------
(* Properties.                                                             *)

\* A ValidationError is raised before anything is sent ("failed client-side
\* validation before sending", exceptions.py), and an answer that is an error
\* means that the call changed nothing, unless an attempt had no answer or the
\* method reads back what it has written (rbac.roles).
RefusedMeansUntouched ==
  \A c \in Callers :
    /\ result[c] = "ValidationError" => c \notin done \union accepted /\ strays[c] = {}
    /\ result[c] = "APIError" /\ c \notin lost /\ ~ReadsBack(op[c]) =>
         c \notin done \union accepted

\* Nobody else is at work, or has been since c began.
Alone(c) == \A d \in Callers \ {c} : step[d] = 0 \/ d \in before[c]

\* Retries are invisible: a call that no other overlaps leaves the server as if
\* its write had been carried out once or not at all, and once if it returned,
\* however often it was sent.  "Leaves" is when the server has seen the last of
\* it: a deletion of CCI tags that returned may be still to come, and then it
\* says nothing.  What is new each time is the exception: secrets
\* (tokens.reissue, registration tokens), notes, scans, reports, upgrades of
\* publishers and resets of cloud storage.
RetriesAreInvisible ==
  \A c \in Callers :
    step[c] > 0 /\ Through(c) /\ Alone(c)
    /\ ~Makes(op[c], "issue") /\ ~Makes(op[c], "append") =>
      /\ server = IF c \in done THEN Apply(Write(c), c, found[c]) ELSE found[c]
      /\ result[c] = "ok" /\ (\E kind \in Writes : Makes(op[c], kind)) => c \in done

\* The secret that a caller was handed (tokens.create and reissue, registration
\* tokens) is the latest, unless an attempt of the call had no answer, whose copy
\* may renew it once more, or somebody else asked for one who was not through
\* before.
HeldSecretIsLatest ==
  \A c \in Callers :
    result[c] = "ok" /\ (Makes(op[c], "mint") \/ Makes(op[c], "issue")) =>
      \/ held[c] = server.secret
      \/ c \in lost
      \/ \E d \in Callers \ {c} :
           d \notin before[c] /\ (Makes(op[d], "mint") \/ Makes(op[d], "issue"))

\* A deploy (url_lists, dns, rbi) that returned has made live what an update
\* had staged that was through before, as long as it is what is staged.  (One of
\* dns or rbi that names objects is a deploy of those.)
DeployMakesLive ==
  \A c, d \in Callers :
    /\ d \in before[c] /\ result[c] = "ok" /\ result[d] = "ok"
    /\ Makes(op[c], "deploy") /\ server.object = d
    => server.live = d

\* Two updates of an incident that name the same old value are not both told
\* that they succeeded: old_value works as the "optimistic lock" that
\* incidents.update calls it, retries or not.
OneSwapWins ==
  \A c, d \in Callers :
    /\ c # d /\ Makes(op[c], "swap") /\ Makes(op[d], "swap")
    => ~(result[c] = "ok" /\ result[d] = "ok")

=============================================================================
