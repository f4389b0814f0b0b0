---------------------------- MODULE ClientProofs ----------------------------
(***************************************************************************)
(* Proofs about Client, for every set of calls, every number of pages, and *)
(* all arguments, environments and statuses that satisfy its assumptions.  *)
(***************************************************************************)
EXTENDS Client, SequenceLemmas

-----------------------------------------------------------------------------
(* The inductive invariant.                                                *)

\* Where a call is, against what it holds and how it ended.
LifeInv(c) ==
  /\ pc[c] # "idle" => client \in {"open", "closed"}
  /\ pc[c] \notin {"holding", "done"} => page[c] < Pages[c]
  /\ pc[c] = "sleeping" => attempt[c] < args.max_retries
  /\ outcome[c] = "ok" => page[c] = Pages[c]
  /\ outcome[c] # "none" => pc[c] = "done"

\* A call sends after the closing only what it was connecting for when it came:
\* once it has, or if it was begun later, it does not get there again.
CloseInv(c) ==
  /\ client # "closed" => after[c] = 0 /\ c \notin late
  /\ pc[c] = "idle" => after[c] = 0
  /\ client = "closed" /\ pc[c] = "connecting" => after[c] = 0
  /\ c \in late => after[c] = 0 /\ pc[c] \in {"sending", "done"}
  /\ after[c] <= 1

\* What a call sleeps for, and which errors it reports early.
StatusInv(c) ==
  \A asked \in args.retry_on_status \ {{}} :
    /\ pc[c] = "sleeping" /\ status[c] # 0 => status[c] \in asked
    /\ outcome[c] = "APIError" /\ status[c] \in asked => attempt[c] = args.max_retries

Inv == TypeOK /\ \A c \in Calls : LifeInv(c) /\ CloseInv(c) /\ StatusInv(c)

-----------------------------------------------------------------------------
(* The configuration.                                                      *)

\* What the calls use of a configuration is what the arguments say.
LEMMA ConfigFacts ==
  ASSUME TypeOK, client \in {"open", "closed"}
  PROVE  /\ The(config).max_retries = args.max_retries
         /\ The(config).retry_on_status = RetryOnStatus(args.retry_on_status)
<1>1. config = Resolve(args, found) /\ config # {}
  BY DEF TypeOK
<1>2. PICK accepted :
        /\ config = {accepted}
        /\ accepted.max_retries = args.max_retries
        /\ accepted.retry_on_status = RetryOnStatus(args.retry_on_status)
  BY <1>1 DEF Resolve
<1>. QED  BY <1>2 DEF The

\* A set that is asked for, and is not empty, is what is retried.
LEMMA AskedIsRetried ==
  ASSUME args \in Arguments, NEW asked \in args.retry_on_status \ {{}}
  PROVE  RetryOnStatus(args.retry_on_status) = asked
<1>1. args.retry_on_status = {asked}
  BY ArgumentsAssumption
<1>2. UNION args.retry_on_status = asked
  BY <1>1
<1>. QED  BY <1>2 DEF RetryOnStatus

-----------------------------------------------------------------------------
(* The initial states and the steps of the client.                         *)

LEMMA InvInit == Init => Inv
<1>. SUFFICES ASSUME Init PROVE Inv
  OBVIOUS
<1>1. TypeOK
  BY ArgumentsAssumption, PagesAssumption DEF Init, TypeOK, Outcomes
<1>2. \A c \in Calls : LifeInv(c)
  BY PagesAssumption DEF Init, LifeInv
<1>3. \A c \in Calls : CloseInv(c) /\ StatusInv(c)
  BY DEF Init, CloseInv, StatusInv
<1>. QED  BY <1>1, <1>2, <1>3 DEF Inv

LEMMA ConstructInv == Inv /\ Construct => Inv'
<1>. SUFFICES ASSUME Inv, Construct PROVE Inv'
  OBVIOUS
<1>. USE DEF Inv, Construct, calls, history
<1>1. TypeOK'
  BY DEF TypeOK
<1>2. \A c \in Calls : LifeInv(c)'
  BY DEF LifeInv
<1>3. \A c \in Calls : CloseInv(c)' /\ StatusInv(c)'
  BY DEF CloseInv, StatusInv
<1>. QED  BY <1>1, <1>2, <1>3

LEMMA CloseKeepsInv == Inv /\ Close => Inv'
<1>. SUFFICES ASSUME Inv, Close PROVE Inv'
  OBVIOUS
<1>. USE DEF Inv, Close, calls, history
<1>1. TypeOK'
  BY DEF TypeOK
<1>2. \A c \in Calls : LifeInv(c)'
  BY DEF LifeInv
<1>3. \A c \in Calls : CloseInv(c)' /\ StatusInv(c)'
  BY DEF CloseInv, StatusInv
<1>. QED  BY <1>1, <1>2, <1>3

\* Nothing but env changes, and nothing of the invariant but its type is about it.
LEMMA EnvironmentInv == Inv /\ ChangeEnvironment => Inv'
<1>. SUFFICES ASSUME Inv, ChangeEnvironment PROVE Inv'
  OBVIOUS
<1>. USE DEF Inv, ChangeEnvironment, calls, history
<1>1. TypeOK'
  BY DEF TypeOK
<1>2. \A c \in Calls : LifeInv(c)' /\ CloseInv(c)' /\ StatusInv(c)'
  BY DEF LifeInv, CloseInv, StatusInv
<1>. QED  BY <1>1, <1>2

-----------------------------------------------------------------------------
(* The steps of a call.                                                    *)

LEMMA BeginInv == \A c \in Calls : Inv /\ Begin(c) => Inv'
<1>. SUFFICES ASSUME NEW c \in Calls, Inv, Begin(c) PROVE Inv'
  OBVIOUS
<1>. USE DEF Inv, Begin, setup, history, calls, Goto
<1>1. TypeOK'
  BY PagesAssumption, ArgumentsAssumption DEF TypeOK, Outcomes, LifeInv
<1>2. \A d \in Calls : LifeInv(d)'
  BY PagesAssumption, ArgumentsAssumption DEF TypeOK, LifeInv
<1>3. \A d \in Calls : CloseInv(d)'
  BY <1>1 DEF TypeOK, LifeInv, CloseInv
<1>4. \A d \in Calls : StatusInv(d)'
  <2>1. SUFFICES ASSUME NEW d \in Calls, NEW asked \in args.retry_on_status \ {{}}
                 PROVE  /\ pc'[d] = "sleeping" /\ status'[d] # 0 => status'[d] \in asked
                        /\ outcome'[d] = "APIError" /\ status'[d] \in asked =>
                             attempt'[d] = args.max_retries
    BY DEF StatusInv
  <2>. QED  BY DEF TypeOK, LifeInv, StatusInv
<1>. QED  BY <1>1, <1>2, <1>3, <1>4

LEMMA SendInv == \A c \in Calls : Inv /\ Send(c) => Inv'
<1>. SUFFICES ASSUME NEW c \in Calls, Inv, Send(c) PROVE Inv'
  OBVIOUS
<1>. USE DEF Inv, Send, setup, history, calls, Finish, Goto
<1>1. TypeOK'
  BY PagesAssumption, ArgumentsAssumption DEF TypeOK, Outcomes, LifeInv
<1>2. \A d \in Calls : LifeInv(d)'
  BY PagesAssumption, ArgumentsAssumption DEF TypeOK, LifeInv
<1>3. \A d \in Calls : CloseInv(d)'
  BY <1>1 DEF TypeOK, LifeInv, CloseInv
<1>4. \A d \in Calls : StatusInv(d)'
  <2>1. SUFFICES ASSUME NEW d \in Calls, NEW asked \in args.retry_on_status \ {{}}
                 PROVE  /\ pc'[d] = "sleeping" /\ status'[d] # 0 => status'[d] \in asked
                        /\ outcome'[d] = "APIError" /\ status'[d] \in asked =>
                             attempt'[d] = args.max_retries
    BY DEF StatusInv
  <2>. QED  BY DEF TypeOK, LifeInv, StatusInv
<1>. QED  BY <1>1, <1>2, <1>3, <1>4

LEMMA TransmitInv == \A c \in Calls : Inv /\ Transmit(c) => Inv'
<1>. SUFFICES ASSUME NEW c \in Calls, Inv, Transmit(c) PROVE Inv'
  OBVIOUS
<1>. USE DEF Inv, Transmit, setup, history, calls, Goto
<1>1. TypeOK'
  BY PagesAssumption, ArgumentsAssumption DEF TypeOK, Outcomes, LifeInv
<1>2. \A d \in Calls : LifeInv(d)'
  BY PagesAssumption, ArgumentsAssumption DEF TypeOK, LifeInv
<1>3. \A d \in Calls : CloseInv(d)'
  BY <1>1 DEF TypeOK, LifeInv, CloseInv
<1>4. \A d \in Calls : StatusInv(d)'
  <2>1. SUFFICES ASSUME NEW d \in Calls, NEW asked \in args.retry_on_status \ {{}}
                 PROVE  /\ pc'[d] = "sleeping" /\ status'[d] # 0 => status'[d] \in asked
                        /\ outcome'[d] = "APIError" /\ status'[d] \in asked =>
                             attempt'[d] = args.max_retries
    BY DEF StatusInv
  <2>. QED  BY DEF TypeOK, LifeInv, StatusInv
<1>. QED  BY <1>1, <1>2, <1>3, <1>4

LEMMA UnreachableInv == \A c \in Calls : Inv /\ Unreachable(c) => Inv'
<1>. SUFFICES ASSUME NEW c \in Calls, Inv, Unreachable(c) PROVE Inv'
  OBVIOUS
<1>. USE DEF Inv, Unreachable, setup, history, calls, Finish, Goto, LastAttempt
<1>0. /\ The(config).max_retries = args.max_retries
      /\ The(config).retry_on_status = RetryOnStatus(args.retry_on_status)
  BY ConfigFacts DEF LifeInv, TypeOK
<1>1. TypeOK'
  BY <1>0, PagesAssumption, ArgumentsAssumption DEF TypeOK, Outcomes, LifeInv
<1>2. \A d \in Calls : LifeInv(d)'
  BY <1>0, PagesAssumption, ArgumentsAssumption DEF TypeOK, LifeInv
<1>3. \A d \in Calls : CloseInv(d)'
  BY <1>0, <1>1 DEF TypeOK, LifeInv, CloseInv
<1>4. \A d \in Calls : StatusInv(d)'
  <2>1. SUFFICES ASSUME NEW d \in Calls, NEW asked \in args.retry_on_status \ {{}}
                 PROVE  /\ pc'[d] = "sleeping" /\ status'[d] # 0 => status'[d] \in asked
                        /\ outcome'[d] = "APIError" /\ status'[d] \in asked =>
                             attempt'[d] = args.max_retries
    BY DEF StatusInv
  <2>. QED  BY DEF TypeOK, LifeInv, StatusInv
<1>. QED  BY <1>1, <1>2, <1>3, <1>4

LEMMA TimesOutInv == \A c \in Calls : Inv /\ TimesOut(c) => Inv'
<1>. SUFFICES ASSUME NEW c \in Calls, Inv, TimesOut(c) PROVE Inv'
  OBVIOUS
<1>. USE DEF Inv, TimesOut, setup, history, calls, Finish, Goto, LastAttempt
<1>0. /\ The(config).max_retries = args.max_retries
      /\ The(config).retry_on_status = RetryOnStatus(args.retry_on_status)
  BY ConfigFacts DEF LifeInv, TypeOK
<1>1. TypeOK'
  BY <1>0, PagesAssumption, ArgumentsAssumption DEF TypeOK, Outcomes, LifeInv
<1>2. \A d \in Calls : LifeInv(d)'
  BY <1>0, PagesAssumption, ArgumentsAssumption DEF TypeOK, LifeInv
<1>3. \A d \in Calls : CloseInv(d)'
  BY <1>0, <1>1 DEF TypeOK, LifeInv, CloseInv
<1>4. \A d \in Calls : StatusInv(d)'
  <2>1. SUFFICES ASSUME NEW d \in Calls, NEW asked \in args.retry_on_status \ {{}}
                 PROVE  /\ pc'[d] = "sleeping" /\ status'[d] # 0 => status'[d] \in asked
                        /\ outcome'[d] = "APIError" /\ status'[d] \in asked =>
                             attempt'[d] = args.max_retries
    BY DEF StatusInv
  <2>. QED  BY DEF TypeOK, LifeInv, StatusInv
<1>. QED  BY <1>1, <1>2, <1>3, <1>4

LEMMA ConnectionBreaksInv == \A c \in Calls : Inv /\ ConnectionBreaks(c) => Inv'
<1>. SUFFICES ASSUME NEW c \in Calls, Inv, ConnectionBreaks(c) PROVE Inv'
  OBVIOUS
<1>. USE DEF Inv, ConnectionBreaks, setup, history, calls, Finish
<1>1. TypeOK'
  BY PagesAssumption, ArgumentsAssumption DEF TypeOK, Outcomes, LifeInv
<1>2. \A d \in Calls : LifeInv(d)'
  BY PagesAssumption, ArgumentsAssumption DEF TypeOK, LifeInv
<1>3. \A d \in Calls : CloseInv(d)'
  BY <1>1 DEF TypeOK, LifeInv, CloseInv
<1>4. \A d \in Calls : StatusInv(d)'
  <2>1. SUFFICES ASSUME NEW d \in Calls, NEW asked \in args.retry_on_status \ {{}}
                 PROVE  /\ pc'[d] = "sleeping" /\ status'[d] # 0 => status'[d] \in asked
                        /\ outcome'[d] = "APIError" /\ status'[d] \in asked =>
                             attempt'[d] = args.max_retries
    BY DEF StatusInv
  <2>. QED  BY DEF TypeOK, LifeInv, StatusInv
<1>. QED  BY <1>1, <1>2, <1>3, <1>4

LEMMA AnsweredWithPageInv == \A c \in Calls : Inv /\ AnsweredWithPage(c) => Inv'
<1>. SUFFICES ASSUME NEW c \in Calls, Inv, AnsweredWithPage(c) PROVE Inv'
  OBVIOUS
<1>. USE DEF Inv, AnsweredWithPage, setup, history, calls
<1>1. TypeOK'
  <2>1. page' \in [Calls -> Nat] /\ page[c] < Pages[c]
    BY DEF TypeOK, LifeInv
  <2>2. \A d \in Calls : page'[d] <= Pages[d]
    BY <2>1, PagesAssumption DEF TypeOK
  <2>3. status' \in [Calls -> Statuses \union {0, 200}]
    BY DEF TypeOK
  <2>. QED  BY <2>1, <2>2, <2>3 DEF TypeOK
<1>2. \A d \in Calls : LifeInv(d)'
  BY PagesAssumption, ArgumentsAssumption DEF TypeOK, LifeInv
<1>3. \A d \in Calls : CloseInv(d)'
  BY <1>1 DEF TypeOK, LifeInv, CloseInv
<1>4. \A d \in Calls : StatusInv(d)'
  <2>1. SUFFICES ASSUME NEW d \in Calls, NEW asked \in args.retry_on_status \ {{}}
                 PROVE  /\ pc'[d] = "sleeping" /\ status'[d] # 0 => status'[d] \in asked
                        /\ outcome'[d] = "APIError" /\ status'[d] \in asked =>
                             attempt'[d] = args.max_retries
    BY DEF StatusInv
  <2>. QED  BY DEF TypeOK, LifeInv, StatusInv
<1>. QED  BY <1>1, <1>2, <1>3, <1>4

LEMMA AnsweredWithErrorInv == \A c \in Calls : Inv /\ AnsweredWithError(c) => Inv'
<1>. SUFFICES ASSUME NEW c \in Calls, Inv, AnsweredWithError(c) PROVE Inv'
  OBVIOUS
<1>. USE DEF Inv, AnsweredWithError, setup, history, calls, Finish, Goto, LastAttempt
<1>0. /\ The(config).max_retries = args.max_retries
      /\ The(config).retry_on_status = RetryOnStatus(args.retry_on_status)
  BY ConfigFacts DEF LifeInv, TypeOK
<1>1. TypeOK'
  BY <1>0, PagesAssumption, ArgumentsAssumption DEF TypeOK, Outcomes, LifeInv
<1>2. \A d \in Calls : LifeInv(d)'
  BY <1>0, PagesAssumption, ArgumentsAssumption DEF TypeOK, LifeInv
<1>3. \A d \in Calls : CloseInv(d)'
  BY <1>0, <1>1 DEF TypeOK, LifeInv, CloseInv
<1>4. \A d \in Calls : StatusInv(d)'
  <2>1. SUFFICES ASSUME NEW d \in Calls, NEW asked \in args.retry_on_status \ {{}}
                 PROVE  /\ pc'[d] = "sleeping" /\ status'[d] # 0 => status'[d] \in asked
                        /\ outcome'[d] = "APIError" /\ status'[d] \in asked =>
                             attempt'[d] = args.max_retries
    BY DEF StatusInv
  <2>2. CASE d # c
    BY <2>2 DEF TypeOK, StatusInv
  <2>3. CASE d = c
    <3>1. The(config).retry_on_status = asked
      BY <1>0, AskedIsRetried DEF TypeOK
    <3>2. args.max_retries \in Nat /\ attempt[c] \in 0 .. args.max_retries
      BY ArgumentsAssumption DEF TypeOK
    <3>3. attempt[c] >= The(config).max_retries => attempt[c] = args.max_retries
      BY <1>0, <3>2
    <3>4. PICK s \in Statuses :
            /\ status' = [status EXCEPT ![c] = s]
            /\ IF s \in asked /\ ~(attempt[c] >= The(config).max_retries)
               THEN Goto(c, "sleeping")
               ELSE Finish(c, "APIError")
      BY <3>1
    <3>5. /\ pc \in [Calls -> {"idle", "sending", "connecting", "awaiting", "sleeping",
                              "holding", "done"}]
          /\ status \in [Calls -> Statuses \union {0, 200}]
          /\ outcome \in [Calls -> Outcomes]
          /\ outcome[c] # "APIError"
      BY DEF TypeOK, LifeInv
    <3>6. status'[c] = s /\ attempt' = attempt
      BY <3>4, <3>5
    <3>7. CASE s \in asked /\ ~(attempt[c] >= The(config).max_retries)
      <4>1. pc'[c] = "sleeping" /\ outcome' = outcome
        BY <3>4, <3>5, <3>7
      <4>. QED  BY <2>3, <3>5, <3>6, <3>7, <4>1
    <3>8. CASE ~(s \in asked /\ ~(attempt[c] >= The(config).max_retries))
      <4>1. pc'[c] = "done" /\ outcome'[c] = "APIError"
        BY <3>4, <3>5, <3>8
      <4>. QED  BY <2>3, <3>3, <3>6, <3>8, <4>1
    <3>. QED  BY <3>7, <3>8
  <2>. QED  BY <2>2, <2>3
<1>. QED  BY <1>1, <1>2, <1>3, <1>4

LEMMA WakeInv == \A c \in Calls : Inv /\ Wake(c) => Inv'
<1>. SUFFICES ASSUME NEW c \in Calls, Inv, Wake(c) PROVE Inv'
  OBVIOUS
<1>. USE DEF Inv, Wake, setup, history, calls
<1>1. TypeOK'
  BY PagesAssumption, ArgumentsAssumption DEF TypeOK, Outcomes, LifeInv
<1>2. \A d \in Calls : LifeInv(d)'
  BY PagesAssumption, ArgumentsAssumption DEF TypeOK, LifeInv
<1>3. \A d \in Calls : CloseInv(d)'
  BY <1>1 DEF TypeOK, LifeInv, CloseInv
<1>4. \A d \in Calls : StatusInv(d)'
  <2>1. SUFFICES ASSUME NEW d \in Calls, NEW asked \in args.retry_on_status \ {{}}
                 PROVE  /\ pc'[d] = "sleeping" /\ status'[d] # 0 => status'[d] \in asked
                        /\ outcome'[d] = "APIError" /\ status'[d] \in asked =>
                             attempt'[d] = args.max_retries
    BY DEF StatusInv
  <2>. QED  BY DEF TypeOK, LifeInv, StatusInv
<1>. QED  BY <1>1, <1>2, <1>3, <1>4

LEMMA ContinueInv == \A c \in Calls : Inv /\ Continue(c) => Inv'
<1>. SUFFICES ASSUME NEW c \in Calls, Inv, Continue(c) PROVE Inv'
  OBVIOUS
<1>. USE DEF Inv, Continue, setup, history, calls, Finish
<1>1. TypeOK'
  BY PagesAssumption, ArgumentsAssumption DEF TypeOK, Outcomes, LifeInv
<1>2. \A d \in Calls : LifeInv(d)'
  BY PagesAssumption, ArgumentsAssumption DEF TypeOK, LifeInv
<1>3. \A d \in Calls : CloseInv(d)'
  BY <1>1 DEF TypeOK, LifeInv, CloseInv
<1>4. \A d \in Calls : StatusInv(d)'
  <2>1. SUFFICES ASSUME NEW d \in Calls, NEW asked \in args.retry_on_status \ {{}}
                 PROVE  /\ pc'[d] = "sleeping" /\ status'[d] # 0 => status'[d] \in asked
                        /\ outcome'[d] = "APIError" /\ status'[d] \in asked =>
                             attempt'[d] = args.max_retries
    BY DEF StatusInv
  <2>. QED  BY DEF TypeOK, LifeInv, StatusInv
<1>. QED  BY <1>1, <1>2, <1>3, <1>4

-----------------------------------------------------------------------------
LEMMA InvStep == Inv /\ [Next]_vars => Inv'
<1>. SUFFICES ASSUME Inv, [Next]_vars PROVE Inv'
  OBVIOUS
<1>1. CASE Construct \/ Close \/ ChangeEnvironment
  BY <1>1, ConstructInv, CloseKeepsInv, EnvironmentInv
<1>2. CASE \E c \in Calls : Begin(c) \/ CallStep(c)
  BY <1>2, BeginInv, SendInv, TransmitInv, UnreachableInv, TimesOutInv,
     ConnectionBreaksInv, AnsweredWithPageInv, AnsweredWithErrorInv, WakeInv,
     ContinueInv DEF CallStep
<1>3. CASE UNCHANGED vars
  BY <1>3 DEF Inv, TypeOK, LifeInv, CloseInv, StatusInv, vars, setup, calls, history
<1>. QED  BY <1>1, <1>2, <1>3 DEF Next

LEMMA InvHolds == Spec => []Inv
<1>1. Init => Inv
  BY InvInit
<1>2. Inv /\ [Next]_vars => Inv'
  BY InvStep
<1>. QED  BY <1>1, <1>2, PTL DEF Spec

-----------------------------------------------------------------------------
(* The theorems.                                                           *)

\* Every variable keeps its type, attempts and pages their bounds, and the
\* configuration is what the environment of the construction made of the arguments.
THEOREM TypeCorrect == Spec => []TypeOK
<1>1. Inv => TypeOK
  BY DEF Inv
<1>. QED  BY <1>1, InvHolds, PTL

\* A call sends at most the request that it was connecting for when the client
\* was closed, and nothing if it was begun later (close, in _transport.py).
THEOREM ClosingStopsCalls == Spec => []NothingNewAfterClose
<1>1. Inv => NothingNewAfterClose
  BY DEF Inv, CloseInv, NothingNewAfterClose
<1>. QED  BY <1>1, InvHolds, PTL

\* A listing that ends without an exception has handed over all its pages, also
\* if the client was closed in the middle of it.
THEOREM CompleteIsComplete == Spec => []OkMeansComplete
<1>1. Inv => OkMeansComplete
  BY DEF Inv, LifeInv, OkMeansComplete
<1>. QED  BY <1>1, InvHolds, PTL

\* Of the statuses, the loop sleeps for those only that the caller asked for,
\* and reports one of these only after its last attempt.
THEOREM RetriesAsTold == Spec => []RetriesWhatItIsTold
<1>1. Inv => RetriesWhatItIsTold
  BY DEF Inv, StatusInv, RetriesWhatItIsTold
<1>. QED  BY <1>1, InvHolds, PTL

\* No environment makes a difference to explicit arguments (resolve, _config.py).
THEOREM ExplicitFirst == Spec => []ExplicitArgumentsDecide
<1>1. ASSUME args.tenant # <<>>, args.api_token # <<>>, args.verify # "True",
             NEW one, NEW other
      PROVE  Resolve(args, one) = Resolve(args, other)
  <2>1. /\ Or(args.tenant, one.NETSKOPE_TENANT) = Or(args.tenant, other.NETSKOPE_TENANT)
        /\ Or(args.api_token, one.NETSKOPE_API_TOKEN)
             = Or(args.api_token, other.NETSKOPE_API_TOKEN)
    BY <1>1 DEF Or
  <2>2. Verify(args.verify, one) = Verify(args.verify, other)
    BY <1>1 DEF Verify
  <2>. QED  BY <2>1, <2>2 DEF Resolve
<1>2. Inv => ExplicitArgumentsDecide
  BY <1>1 DEF Inv, TypeOK, ExplicitArgumentsDecide
<1>. QED  BY <1>2, InvHolds, PTL

-----------------------------------------------------------------------------
(* What a client trusts.                                                   *)

\* The loop over the variables finds the first that names a bundle.
LEMMA VerifyChooses ==
  ASSUME NEW verify, NEW environment,
         NEW naming, naming = {i \in DOMAIN CaBundleVariables :
                                 environment[CaBundleVariables[i]] # Unset}
  PROVE  Verify(verify, environment) =
           IF verify = "True" /\ naming # {} THEN environment[CaBundleVariables[Min(naming)]]
           ELSE verify
<1>. DEFINE say(i) == environment[CaBundleVariables[i]]
            F(h) == h = [n \in 0 .. Len(CaBundleVariables) |->
                           IF n = 0 THEN Unset ELSE IF h[n - 1] # Unset THEN h[n - 1]
                           ELSE environment[CaBundleVariables[n]]]
            named == CHOOSE h : F(h)
<1>1. DOMAIN CaBundleVariables = 1 .. 4 /\ Len(CaBundleVariables) = 4
  BY DEF CaBundleVariables
<1>2. PICK a, b, c, d : a = say(1) /\ b = say(2) /\ c = say(3) /\ d = say(4)
  OBVIOUS
<1>3. F(named)
  <2>. DEFINE f == [n \in 0 .. 4 |->
                      CASE n = 0 -> Unset
                        [] n = 1 -> a
                        [] n = 2 -> IF a # Unset THEN a ELSE b
                        [] n = 3 -> IF a # Unset THEN a ELSE IF b # Unset THEN b ELSE c
                        [] n = 4 -> IF a # Unset THEN a ELSE IF b # Unset THEN b
                                    ELSE IF c # Unset THEN c ELSE d]
  <2>1. \A n \in 0 .. 4 : n = 0 \/ n = 1 \/ n = 2 \/ n = 3 \/ n = 4
    OBVIOUS
  <2>2. /\ f[0] = Unset /\ f[1] = a /\ f[2] = (IF f[1] # Unset THEN f[1] ELSE b)
        /\ f[3] = (IF f[2] # Unset THEN f[2] ELSE c) /\ f[4] = (IF f[3] # Unset THEN f[3] ELSE d)
    OBVIOUS
  <2>3. f = [n \in 0 .. 4 |-> f[n]]
    OBVIOUS
  <2>. HIDE DEF f
  <2>4. \A n \in 0 .. 4 : f[n] = IF n = 0 THEN Unset ELSE IF f[n - 1] # Unset THEN f[n - 1]
                                 ELSE environment[CaBundleVariables[n]]
    BY <1>2, <2>1, <2>2
  <2>5. F(f)
    BY <1>1, <2>3, <2>4
  <2>. HIDE DEF F
  <2>. QED BY <2>5
<1>4. Verify(verify, environment) = IF verify = "True" /\ named[4] # Unset THEN named[4] ELSE verify
  BY <1>1 DEF Verify
<1>5. /\ named[0] = Unset
      /\ \A n \in 1 .. 4 : named[n] = IF named[n - 1] # Unset THEN named[n - 1] ELSE say(n)
  <2>. HIDE DEF named
  <2>1. named = [n \in 0 .. 4 |->
                   IF n = 0 THEN Unset ELSE IF named[n - 1] # Unset THEN named[n - 1]
                   ELSE environment[CaBundleVariables[n]]]
    BY <1>1, <1>3
  <2>2. named[0] = Unset
    BY <2>1
  <2>3. ASSUME NEW n \in 1 .. 4
        PROVE  named[n] = IF named[n - 1] # Unset THEN named[n - 1] ELSE say(n)
    <3>1. n \in 0 .. 4 /\ n # 0
      OBVIOUS
    <3>. QED BY <2>1, <3>1
  <2>. QED BY <2>2, <2>3
<1>. HIDE DEF named
<1>6. named[1] = a /\ named[2] = (IF a # Unset THEN a ELSE b)
  BY <1>2, <1>5
<1>7. named[3] = (IF named[2] # Unset THEN named[2] ELSE c)
      /\ named[4] = (IF named[3] # Unset THEN named[3] ELSE d)
  BY <1>2, <1>5
<1>8. \A i \in 1 .. 4 : i \in naming <=> say(i) # Unset
  BY <1>1
<1>9. naming = {} => named[4] = Unset
  BY <1>2, <1>6, <1>7, <1>8
<1>10. ASSUME naming # {} PROVE named[4] # Unset /\ named[4] = say(Min(naming))
  <2>1. naming \subseteq 1 .. 4
    BY <1>1
  <2>2. \E i \in naming : \A j \in naming : i <= j
    BY <1>10, <2>1
  <2>3. PICK m \in 1 .. 4 : m = Min(naming) /\ m \in naming /\ \A j \in naming : m <= j
    BY <2>1, <2>2 DEF Min
  <2>4. say(m) # Unset /\ \A j \in 1 .. 4 : j < m => say(j) = Unset
    BY <1>8, <2>3
  <2>5. CASE m = 1
    BY <1>2, <1>6, <1>7, <2>3, <2>4, <2>5
  <2>6. CASE m = 2
    BY <1>2, <1>6, <1>7, <2>3, <2>4, <2>6
  <2>7. CASE m = 3
    BY <1>2, <1>6, <1>7, <2>3, <2>4, <2>7
  <2>8. CASE m = 4
    BY <1>2, <1>6, <1>7, <2>3, <2>4, <2>8
  <2>. QED BY <2>5, <2>6, <2>7, <2>8
<1>. QED BY <1>4, <1>9, <1>10

\* The bundle is the one in the arguments or the first that the environment names;
\* one that is missing is refused, and nothing takes its place (resolve, _config.py).
THEOREM TrustsAsTold == Spec => []TrustIsAsTold
<1>1. ASSUME Inv, NEW accepted \in config,
             NEW naming, naming = {i \in DOMAIN CaBundleVariables :
                                     found[CaBundleVariables[i]] # Unset}
      PROVE  /\ accepted.verify \in {"True", "False"} \union Files
             /\ args.verify # "True" => accepted.verify = args.verify
             /\ args.verify = "True" =>
                  accepted.verify = IF naming = {} THEN "True"
                                    ELSE found[CaBundleVariables[Min(naming)]]
  <2>1. accepted \in Resolve(args, found)
    BY <1>1 DEF Inv, TypeOK
  <2>2. /\ accepted.verify = Verify(args.verify, found)
        /\ Verify(args.verify, found) \in {"True", "False"} \union Files
    BY <2>1 DEF Resolve
  <2>3. Verify(args.verify, found) =
          IF args.verify = "True" /\ naming # {} THEN found[CaBundleVariables[Min(naming)]]
          ELSE args.verify
    BY <1>1, VerifyChooses
  <2>. QED BY <2>2, <2>3
<1>2. Inv => TrustIsAsTold
  BY <1>1 DEF TrustIsAsTold
<1>. QED BY <1>2, InvHolds, PTL

-----------------------------------------------------------------------------
(* Where requests go.                                                      *)

\* Two protocols in a row that Normalize or BaseUrl evens out: one goes, and
\* "https://" may stay.
Doubled(first, second) == {first, second} \subseteq {Https, Http} /\ Https \in {first, second}

\* Nothing but a host is left: blanks before it, then perhaps a protocol, even
\* two, and slashes and blanks after it.
HostAt(text, host) ==
  /\ text[host] \notin Separators
  /\ \A i \in 1 .. Len(text) : i > host => text[i] \in {Space, Slash}
  /\ \A i \in 1 .. Len(text) :
       i < host => \/ text[i] = Space
                   \/ i = host - 1 /\ text[i] \in {Https, Http}
                   \/ i = host - 2 /\ Doubled(text[i], text[host - 1])

Orderly(text) == text \in Seq(ToSet(text)) /\ \E host \in 1 .. Len(text) : HostAt(text, host)

\* Texts of that form, in the arguments and in the environment; or nothing but
\* separators, which every client refuses.
TextsAreOrderly ==
  \A text \in {given.tenant : given \in Arguments}
              \union {environment.NETSKOPE_TENANT : environment \in Environments} :
    Orderly(text) \/ text \in Seq(Separators)

\* Min and Max of positions in a sequence.
LEMMA MinMax ==
  ASSUME NEW n \in Nat, NEW S \in SUBSET (1 .. n), S # {}
  PROVE  /\ Min(S) \in S /\ \A i \in S : Min(S) <= i
         /\ Max(S) \in S /\ \A i \in S : i <= Max(S)
<1>. DEFINE P == {m \in Nat : \A T \in SUBSET (1 .. m) : T # {} =>
                    /\ \E x \in T : \A y \in T : x <= y
                    /\ \E x \in T : \A y \in T : y <= x}
<1>1. 0 \in P
  <2>1. \A T \in SUBSET (1 .. 0) : T = {}
    OBVIOUS
  <2>. QED BY <2>1
<1>2. ASSUME NEW m \in Nat, m \in P PROVE m + 1 \in P
  <2>1. SUFFICES ASSUME NEW T \in SUBSET (1 .. m + 1), T # {}
        PROVE  /\ \E x \in T : \A y \in T : x <= y
               /\ \E x \in T : \A y \in T : y <= x
    OBVIOUS
  <2>2. CASE m + 1 \notin T
    <3>1. T \in SUBSET (1 .. m)
      BY <2>1, <2>2
    <3>. QED BY <1>2, <2>1, <3>1
  <2>3. CASE T = {m + 1}
    BY <2>3
  <2>4. CASE m + 1 \in T /\ T # {m + 1}
    <3>1. T \ {m + 1} \in SUBSET (1 .. m) /\ T \ {m + 1} # {}
      BY <2>1, <2>4
    <3>2. PICK x \in T \ {m + 1} : \A y \in T \ {m + 1} : x <= y
      BY <1>2, <3>1
    <3>3. x \in T /\ \A y \in T : x <= y
      BY <2>1, <3>1, <3>2
    <3>4. \A y \in T : y <= m + 1
      BY <2>1
    <3>. QED BY <2>4, <3>3, <3>4
  <2>. QED BY <2>1, <2>2, <2>3, <2>4
<1>. HIDE DEF P
<1>3. n \in P
  <2>1. \A m \in Nat : m \in P
    BY <1>1, <1>2, Induction
  <2>. QED BY <2>1
<1>4. /\ \E x \in S : \A y \in S : x <= y
      /\ \E x \in S : \A y \in S : y <= x
  BY <1>3 DEF P
<1>5. /\ Min(S) = CHOOSE x \in S : \A y \in S : x <= y
      /\ Max(S) = CHOOSE x \in S : \A y \in S : x >= y
  BY DEF Min, Max
<1>. QED BY <1>4, <1>5

\* Blanks go from both ends, and leave what is between.
LEMMA StripProperties ==
  ASSUME NEW S, NEW text \in Seq(S), NEW h \in 1 .. Len(text), text[h] # Space
  PROVE  \E low \in 1 .. h, high \in h .. Len(text) :
           /\ text[low] # Space /\ \A i \in 1 .. low - 1 : text[i] = Space
           /\ Strip(text) = SubSeq(text, low, high)
<1>. DEFINE ink == {i \in DOMAIN text : text[i] # Space}
<1>1. Len(text) \in Nat /\ DOMAIN text = 1 .. Len(text)
  OBVIOUS
<1>2. ink \in SUBSET (1 .. Len(text)) /\ h \in ink
  BY <1>1
<1>3. Strip(text) = SubSeq(text, Min(ink), Max(ink))
  BY <1>2 DEF Strip
<1>4. \A i \in 1 .. Len(text) : i \notin ink => text[i] = Space
  BY <1>1
<1>5. \A i \in ink : text[i] # Space
  OBVIOUS
<1>. HIDE DEF ink
<1>6. /\ Min(ink) \in ink /\ \A i \in ink : Min(ink) <= i
      /\ Max(ink) \in ink /\ \A i \in ink : i <= Max(ink)
  BY <1>1, <1>2, MinMax
<1>7. PICK low \in 1 .. Len(text), high \in 1 .. Len(text) : low = Min(ink) /\ high = Max(ink)
  <2>1. Min(ink) \in 1 .. Len(text) /\ Max(ink) \in 1 .. Len(text)
    BY <1>2, <1>6
  <2>. QED BY <2>1
<1>8. low \in 1 .. h /\ high \in h .. Len(text) /\ text[low] # Space
  BY <1>1, <1>2, <1>5, <1>6, <1>7
<1>9. ASSUME NEW i \in 1 .. low - 1 PROVE text[i] = Space
  <2>1. i \in 1 .. Len(text) /\ ~(low <= i)
    BY <1>1, <1>8
  <2>. QED BY <1>4, <1>6, <1>7, <2>1
<1>. QED BY <1>3, <1>7, <1>8, <1>9

\* Slashes go from the end, and leave what is before them.
LEMMA StripSlashesProperties ==
  ASSUME NEW S, NEW text \in Seq(S), NEW h \in 1 .. Len(text), text[h] # Slash
  PROVE  \E last \in h .. Len(text) :
           text[last] # Slash /\ StripSlashes(text) = SubSeq(text, 1, last)
<1>. DEFINE ink == {i \in DOMAIN text : text[i] # Slash}
<1>1. Len(text) \in Nat /\ DOMAIN text = 1 .. Len(text)
  OBVIOUS
<1>2. ink \in SUBSET (1 .. Len(text)) /\ h \in ink
  BY <1>1
<1>3. StripSlashes(text) = SubSeq(text, 1, Max(ink))
  BY <1>2 DEF StripSlashes
<1>4. \A i \in ink : text[i] # Slash
  OBVIOUS
<1>. HIDE DEF ink
<1>5. Max(ink) \in ink /\ \A i \in ink : i <= Max(ink)
  BY <1>1, <1>2, MinMax
<1>6. PICK last \in 1 .. Len(text) : last = Max(ink)
  <2>1. Max(ink) \in 1 .. Len(text)
    BY <1>2, <1>5
  <2>. QED BY <2>1
<1>7. last \in h .. Len(text) /\ text[last] # Slash
  BY <1>1, <1>2, <1>4, <1>5, <1>6
<1>. QED BY <1>3, <1>6, <1>7

\* A name for SubSeq, which the provers would rewrite before they match this lemma.
Piece(text, low, high) == SubSeq(text, low, high)

\* A protocol goes from the beginning, if one is there.
LEMMA PrefixGoes ==
  ASSUME NEW S, NEW text \in Seq(S), NEW low \in 1 .. Len(text), NEW high \in low .. Len(text),
         NEW prefix
  PROVE  /\ text[low] # prefix =>
              RemovePrefix(Piece(text, low, high), prefix) = Piece(text, low, high)
         /\ text[low] = prefix /\ low < high =>
              RemovePrefix(Piece(text, low, high), prefix) = Piece(text, low + 1, high)
<1>1. PICK s : s = Piece(text, low, high)
  OBVIOUS
<1>2. s # <<>> /\ Head(s) = text[low]
  BY <1>1 DEF Piece
<1>3. text[low] # prefix => RemovePrefix(s, prefix) = s
  BY <1>2 DEF RemovePrefix
<1>4. ASSUME low < high PROVE Tail(s) = Piece(text, low + 1, high)
  BY <1>1, <1>4 DEF Piece
<1>5. text[low] = prefix /\ low < high => RemovePrefix(s, prefix) = Piece(text, low + 1, high)
  BY <1>2, <1>4 DEF RemovePrefix
<1>. QED BY <1>1, <1>3, <1>5

\* Blanks and protocols go, but perhaps for one "https://".
LEMMA PrefixesGo ==
  ASSUME NEW S, NEW text \in Seq(S), NEW h \in 1 .. Len(text), HostAt(text, h)
  PROVE  \E from \in 1 .. h, high \in h .. Len(text) :
           /\ RemovePrefix(RemovePrefix(Strip(text), Https), Http) = SubSeq(text, from, high)
           /\ from = h \/ (from = h - 1 /\ text[from] = Https)
<1>1. /\ Len(text) \in Nat /\ Https # Http
      /\ text[h] # Space /\ text[h] # Slash /\ text[h] # Https /\ text[h] # Http
  BY DEF HostAt, Separators, Https, Http
<1>2. PICK low \in 1 .. h, high \in h .. Len(text) :
             text[low] # Space /\ Strip(text) = SubSeq(text, low, high)
  BY <1>1, StripProperties
<1>3. Strip(text) = Piece(text, low, high)
  BY <1>2 DEF Piece
<1>4. high \in 1 .. Len(text) /\ high >= h
  BY <1>1, <1>2
<1>5. \A i \in 1 .. h : \A prefix :
        /\ text[i] # prefix => RemovePrefix(Piece(text, i, high), prefix) = Piece(text, i, high)
        /\ text[i] = prefix /\ i < h =>
             RemovePrefix(Piece(text, i, high), prefix) = Piece(text, i + 1, high)
  <2>. SUFFICES ASSUME NEW i \in 1 .. h, NEW prefix
       PROVE  /\ text[i] # prefix =>
                   RemovePrefix(Piece(text, i, high), prefix) = Piece(text, i, high)
              /\ text[i] = prefix /\ i < h =>
                   RemovePrefix(Piece(text, i, high), prefix) = Piece(text, i + 1, high)
    OBVIOUS
  <2>1. i \in 1 .. Len(text) /\ high \in i .. Len(text) /\ (i < h => i < high)
    BY <1>1, <1>4
  <2>. QED BY <2>1, PrefixGoes
<1>6. \/ low = h
      \/ low = h - 1 /\ text[low] \in {Https, Http}
      \/ low = h - 2 /\ Doubled(text[low], text[h - 1])
  <2>1. low \in 1 .. Len(text) /\ (low < h \/ low = h)
    BY <1>1, <1>2
  <2>. QED BY <1>2, <2>1 DEF HostAt
<1>7. PICK r : r = RemovePrefix(RemovePrefix(Strip(text), Https), Http)
  OBVIOUS
<1>8. \E from \in 1 .. h :
        r = Piece(text, from, high) /\ (from = h \/ (from = h - 1 /\ text[from] = Https))
  <2>1. CASE low = h
    <3>1. h \in 1 .. h
      OBVIOUS
    <3>2. RemovePrefix(Piece(text, h, high), Https) = Piece(text, h, high)
      BY <1>1, <1>5, <3>1
    <3>3. RemovePrefix(Piece(text, h, high), Http) = Piece(text, h, high)
      BY <1>1, <1>5, <3>1
    <3>. QED BY <1>3, <1>7, <2>1, <3>1, <3>2, <3>3
  <2>2. CASE low = h - 1 /\ text[low] = Https
    <3>1. low + 1 = h /\ low < h /\ h \in 1 .. h
      BY <2>2
    <3>2. RemovePrefix(Piece(text, low, high), Https) = Piece(text, h, high)
      BY <1>5, <2>2, <3>1
    <3>3. RemovePrefix(Piece(text, h, high), Http) = Piece(text, h, high)
      BY <1>1, <1>5, <3>1
    <3>. QED BY <1>3, <1>7, <3>1, <3>2, <3>3
  <2>3. CASE low = h - 1 /\ text[low] = Http
    <3>1. low + 1 = h /\ low < h /\ h \in 1 .. h /\ text[low] # Https
      BY <1>1, <2>3
    <3>2. RemovePrefix(Piece(text, low, high), Https) = Piece(text, low, high)
      BY <1>5, <3>1
    <3>3. RemovePrefix(Piece(text, low, high), Http) = Piece(text, h, high)
      BY <1>5, <2>3, <3>1
    <3>. QED BY <1>3, <1>7, <3>1, <3>2, <3>3
  <2>4. CASE low = h - 2 /\ text[low] = Https /\ text[h - 1] = Https
    <3>1. /\ low + 1 = h - 1 /\ low < h /\ h - 1 \in 1 .. h
          /\ text[h - 1] = Https /\ text[h - 1] # Http
      BY <1>1, <2>4
    <3>2. RemovePrefix(Piece(text, low, high), Https) = Piece(text, h - 1, high)
      BY <1>5, <2>4, <3>1
    <3>3. RemovePrefix(Piece(text, h - 1, high), Http) = Piece(text, h - 1, high)
      BY <1>5, <3>1
    <3>. QED BY <1>3, <1>7, <3>1, <3>2, <3>3
  <2>5. CASE low = h - 2 /\ text[low] = Https /\ text[h - 1] = Http
    <3>1. /\ low + 1 = h - 1 /\ low < h /\ h - 1 \in 1 .. h /\ h \in 1 .. h
          /\ text[h - 1] = Http /\ h - 1 < h /\ h - 1 + 1 = h
      BY <1>1, <2>5
    <3>2. RemovePrefix(Piece(text, low, high), Https) = Piece(text, h - 1, high)
      BY <1>5, <2>5, <3>1
    <3>3. RemovePrefix(Piece(text, h - 1, high), Http) = Piece(text, h, high)
      BY <1>5, <3>1
    <3>. QED BY <1>3, <1>7, <3>1, <3>2, <3>3
  <2>6. CASE low = h - 2 /\ text[low] = Http /\ text[h - 1] = Https
    <3>1. /\ low + 1 = h - 1 /\ low < h /\ h - 1 \in 1 .. h
          /\ text[h - 1] = Https /\ text[low] # Https
      BY <1>1, <2>6
    <3>2. RemovePrefix(Piece(text, low, high), Https) = Piece(text, low, high)
      BY <1>5, <3>1
    <3>3. RemovePrefix(Piece(text, low, high), Http) = Piece(text, h - 1, high)
      BY <1>5, <2>6, <3>1
    <3>. QED BY <1>3, <1>7, <3>1, <3>2, <3>3
  <2>. QED BY <1>6, <2>1, <2>2, <2>3, <2>4, <2>5, <2>6 DEF Doubled
<1>. QED BY <1>4, <1>7, <1>8 DEF Piece

\* What is left of an orderly text and recognized is its host, perhaps behind
\* an "https://".
LEMMA NormalizeFindsHost ==
  ASSUME NEW S, NEW text \in Seq(S), NEW h \in 1 .. Len(text), HostAt(text, h),
         Recognized(Normalize(text))
  PROVE  Normalize(text) \in {<<text[h]>>, <<Https, text[h]>>}
<1>1. /\ Len(text) \in Nat /\ text[h] # Slash
      /\ \A i \in 1 .. Len(text) : i > h => text[i] \in {Space, Slash}
  BY DEF HostAt, Separators
<1>2. PICK from \in 1 .. h, high \in h .. Len(text) :
        /\ RemovePrefix(RemovePrefix(Strip(text), Https), Http) = SubSeq(text, from, high)
        /\ from = h \/ (from = h - 1 /\ text[from] = Https)
  BY PrefixesGo
<1>3. PICK r : r = SubSeq(text, from, high)
  OBVIOUS
<1>4. Normalize(text) = StripSlashes(r)
  BY <1>2, <1>3 DEF Normalize
<1>5. /\ r \in Seq(S) /\ Len(r) = high - from + 1 /\ Len(r) \in Nat
      /\ \A j \in 1 .. Len(r) : r[j] = text[from + j - 1]
  BY <1>1, <1>2, <1>3
<1>6. PICK n \in 1 .. 2 : n = h - from + 1
  BY <1>2
<1>7. n \in 1 .. Len(r) /\ r[n] = text[h]
  <2>1. n \in 1 .. Len(r) /\ from + n - 1 = h
    BY <1>1, <1>2, <1>5, <1>6
  <2>. QED BY <1>5, <2>1
<1>8. PICK last \in n .. Len(r) : StripSlashes(r) = SubSeq(r, 1, last)
  BY <1>1, <1>5, <1>7, StripSlashesProperties
<1>9. PICK host : host = SubSeq(r, 1, last)
  OBVIOUS
<1>10. /\ host \in Seq(S) /\ Len(host) = last
       /\ \A j \in 1 .. last : host[j] = r[j]
  BY <1>5, <1>6, <1>8, <1>9
<1>11. r[last] \in Hosts
  <2>1. last \in 1 .. last
    BY <1>6, <1>8
  <2>. QED BY <1>4, <1>8, <1>9, <1>10, <2>1 DEF Recognized, Last
<1>12. last = n
  <2>1. CASE last > n
    <3>1. /\ r[last] = text[from + last - 1] /\ from + last - 1 \in 1 .. Len(text)
          /\ from + last - 1 > h
      BY <1>1, <1>2, <1>5, <1>6, <1>8, <2>1
    <3>2. r[last] \in {Space, Slash}
      BY <1>1, <3>1
    <3>. QED BY <1>11, <3>2, HostsAssumption DEF Separators
  <2>. QED BY <1>6, <1>8, <2>1
<1>13. CASE n = 1
  <2>1. host[1] = text[h] /\ Len(host) = 1
    BY <1>7, <1>10, <1>12, <1>13
  <2>2. host = <<host[1]>>
    BY <1>10, <2>1
  <2>. QED BY <1>4, <1>8, <1>9, <2>1, <2>2
<1>14. CASE n = 2
  <2>1. Len(host) = 2 /\ host[2] = text[h] /\ host[1] = r[1]
    BY <1>7, <1>10, <1>12, <1>14
  <2>2. r[1] = text[from] /\ text[from] = Https
    <3>1. from = h - 1 /\ 1 \in 1 .. Len(r) /\ from + 1 - 1 = from
      BY <1>2, <1>6, <1>7, <1>14
    <3>. QED BY <1>2, <1>5, <3>1
  <2>3. host = <<host[1], host[2]>>
    BY <1>10, <2>1
  <2>. QED BY <1>4, <1>8, <1>9, <2>1, <2>2, <2>3
<1>. QED BY <1>6, <1>13, <1>14

\* Normalizing adds no fragment.
LEMMA NormalizeKeepsFragments ==
  ASSUME NEW S, NEW text \in Seq(S)
  PROVE  Normalize(text) \in Seq(S)
<1>1. Strip(text) \in Seq(S)
  <2>1. CASE \A i \in DOMAIN text : text[i] = Space
    BY <2>1 DEF Strip
  <2>2. CASE \E i \in DOMAIN text : text[i] # Space
    <3>1. PICK i \in 1 .. Len(text) : text[i] # Space
      BY <2>2
    <3>2. PICK low \in 1 .. i, high \in i .. Len(text) : Strip(text) = SubSeq(text, low, high)
      BY <3>1, StripProperties
    <3>. QED BY <3>2
  <2>. QED BY <2>1, <2>2
<1>2. ASSUME NEW s \in Seq(S), NEW prefix PROVE RemovePrefix(s, prefix) \in Seq(S)
  BY DEF RemovePrefix
<1>3. ASSUME NEW s \in Seq(S) PROVE StripSlashes(s) \in Seq(S)
  <2>1. CASE \A i \in DOMAIN s : s[i] = Slash
    BY <2>1 DEF StripSlashes
  <2>2. CASE \E i \in DOMAIN s : s[i] # Slash
    <3>1. PICK i \in 1 .. Len(s) : s[i] # Slash
      BY <2>2
    <3>2. PICK last \in i .. Len(s) : StripSlashes(s) = SubSeq(s, 1, last)
      BY <3>1, StripSlashesProperties
    <3>. QED BY <3>2
  <2>. QED BY <2>1, <2>2
<1>. QED BY <1>1, <1>2, <1>3 DEF Normalize

\* A text without a host is refused.
LEMMA SeparatorsAreRefused ==
  ASSUME NEW text \in Seq(Separators)
  PROVE  ~Recognized(Normalize(text))
<1>1. PICK host \in Seq(Separators) : host = Normalize(text)
  BY NormalizeKeepsFragments
<1>2. host # <<>> => Last(host) \in Separators
  BY DEF Last
<1>. QED BY <1>1, <1>2, HostsAssumption DEF Recognized

\* What requests are sent to.
LEMMA BaseUrlOfHost ==
  ASSUME NEW c, NEW host, host \notin Separators, c.tenant \in {<<host>>, <<Https, host>>}
  PROVE  BaseUrl(c) = <<Https, host>>
<1>1. host # Slash /\ host # Https
  BY DEF Separators
<1>2. PICK S : S = {Https, host}
  OBVIOUS
<1>3. PICK text \in Seq(S) : text = <<Https, host>>
  <2>1. <<Https, host>> \in Seq(S)
    BY <1>2
  <2>. QED BY <2>1
<1>4. <<Https>> \o <<host>> = text
  <2>1. PICK a \in Seq(S), b \in Seq(S) : a = <<Https>> /\ b = <<host>>
    <3>1. <<Https>> \in Seq(S) /\ <<host>> \in Seq(S)
      BY <1>2
    <3>. QED BY <3>1
  <2>2. /\ a \o b \in Seq(S) /\ Len(a \o b) = 2 /\ (a \o b)[1] = Https /\ (a \o b)[2] = host
    BY <2>1
  <2>3. Len(text) = 2 /\ text[1] = Https /\ text[2] = host
    BY <1>3
  <2>4. \A i \in 1 .. 2 : i = 1 \/ i = 2
    OBVIOUS
  <2>5. a \o b = text
    BY <2>2, <2>3, <2>4, SeqEqual
  <2>. QED BY <2>1, <2>5
<1>5. BaseUrl(c) = StripSlashes(text)
  <2>1. Head(<<host>>) = host /\ Head(text) = Https
    BY <1>3
  <2>2. CASE c.tenant = <<host>>
    BY <1>1, <1>4, <2>1, <2>2 DEF BaseUrl
  <2>3. CASE c.tenant = text
    BY <2>1, <2>3 DEF BaseUrl
  <2>. QED BY <1>3, <2>2, <2>3
<1>6. Len(text) = 2 /\ text[2] # Slash
  BY <1>1, <1>3
<1>7. PICK last \in 2 .. Len(text) : StripSlashes(text) = SubSeq(text, 1, last)
  BY <1>6, StripSlashesProperties
<1>8. SubSeq(text, 1, last) = text
  BY <1>6, <1>7
<1>. QED BY <1>3, <1>5, <1>7, <1>8

\* An orderly text that is recognized names its host.
LEMMA HostOfOrderly ==
  ASSUME NEW text, Orderly(text), Recognized(Normalize(text))
  PROVE  /\ Normalize(text) \in {<<HostNamed(text)>>, <<Https, HostNamed(text)>>}
         /\ HostNamed(text) \notin Separators
<1>1. text \in Seq(ToSet(text))
  BY DEF Orderly
<1>2. PICK h \in 1 .. Len(text) : HostAt(text, h)
  BY DEF Orderly
<1>3. Normalize(text) \in {<<text[h]>>, <<Https, text[h]>>}
  BY <1>1, <1>2, NormalizeFindsHost
<1>4. ToSet(text) \ Separators = {text[h]}
  <2>1. Len(text) \in Nat /\ DOMAIN text = 1 .. Len(text)
    BY <1>1
  <2>2. \A i \in 1 .. Len(text) : i = h \/ text[i] \in Separators
    BY <1>2, <2>1 DEF HostAt, Doubled, Separators
  <2>. QED BY <1>2, <2>1, <2>2 DEF HostAt, ToSet
<1>5. HostNamed(text) = text[h]
  BY <1>4 DEF HostNamed, The
<1>. QED BY <1>2, <1>3, <1>5 DEF HostAt

\* The address and the token of a configuration that was accepted.
LEMMA AimOfConfig ==
  ASSUME TextsAreOrderly, NEW given \in Arguments, NEW environment \in Environments,
         NEW accepted \in Resolve(given, environment)
  PROVE  /\ BaseUrl(accepted) = <<Https, HostNamed(
              IF given.tenant = <<>> THEN environment.NETSKOPE_TENANT ELSE given.tenant)>>
         /\ accepted.api_token =
              IF given.api_token = <<>> THEN environment.NETSKOPE_API_TOKEN ELSE given.api_token
<1>1. PICK text : text = IF given.tenant = <<>> THEN environment.NETSKOPE_TENANT ELSE given.tenant
  OBVIOUS
<1>2. /\ accepted.tenant = Normalize(text) /\ Recognized(Normalize(text))
      /\ accepted.api_token =
           IF given.api_token = <<>> THEN environment.NETSKOPE_API_TOKEN ELSE given.api_token
  BY <1>1 DEF Resolve, Or
<1>3. Orderly(text) \/ text \in Seq(Separators)
  <2>1. text \in {g.tenant : g \in Arguments} \union {e.NETSKOPE_TENANT : e \in Environments}
    BY <1>1
  <2>. QED BY <2>1 DEF TextsAreOrderly
<1>4. Orderly(text)
  BY <1>2, <1>3, SeparatorsAreRefused
<1>5. /\ accepted.tenant \in {<<HostNamed(text)>>, <<Https, HostNamed(text)>>}
      /\ HostNamed(text) \notin Separators
  BY <1>2, <1>4, HostOfOrderly
<1>6. BaseUrl(accepted) = <<Https, HostNamed(text)>>
  BY <1>5, BaseUrlOfHost
<1>. QED BY <1>1, <1>2, <1>6

\* Requests are sent by a client that was constructed, which makes the last
\* choice of an environment.
AimInv ==
  /\ requests # {} => client # "none"
  /\ RequestsGoWhereTheClientPoints

\* Only Transmit sends, with the configuration that Construct made.
LEMMA AimStep ==
  ASSUME TextsAreOrderly, Inv, AimInv, [Next]_vars
  PROVE  AimInv'
<1>1. CASE UNCHANGED <<args, found, client, requests>>
  BY <1>1 DEF AimInv, RequestsGoWhereTheClientPoints
<1>2. CASE Construct
  <2>1. requests' = {}
    BY <1>2 DEF Construct, history, AimInv
  <2>. QED BY <2>1 DEF AimInv, RequestsGoWhereTheClientPoints
<1>3. CASE Close
  BY <1>3 DEF Close, history, AimInv, RequestsGoWhereTheClientPoints
<1>4. ASSUME NEW c \in Calls, Transmit(c) PROVE AimInv'
  <2>1. /\ requests' = requests \union {Target}
        /\ args' = args /\ found' = found /\ client' = client
    BY <1>4 DEF Transmit, setup
  <2>2. client \in {"open", "closed"}
    BY <1>4 DEF Transmit, Inv, LifeInv
  <2>3. PICK accepted : config = {accepted} /\ accepted \in Resolve(args, found)
    BY <2>2 DEF Inv, TypeOK, Resolve
  <2>4. Target = [to |-> BaseUrl(accepted), token |-> accepted.api_token]
    BY <2>3 DEF Target, The
  <2>5. /\ Target.to = <<Https, HostNamed(
             IF args.tenant = <<>> THEN found.NETSKOPE_TENANT ELSE args.tenant)>>
        /\ Target.token =
             IF args.api_token = <<>> THEN found.NETSKOPE_API_TOKEN ELSE args.api_token
    BY <2>3, <2>4, AimOfConfig DEF Inv, TypeOK
  <2>. HIDE DEF Target
  <2>6. RequestsGoWhereTheClientPoints'
    BY <2>1, <2>5 DEF AimInv, RequestsGoWhereTheClientPoints
  <2>. QED BY <2>1, <2>2, <2>6 DEF AimInv
<1>5. \/ UNCHANGED <<args, found, client, requests>>
      \/ Construct \/ Close \/ \E c \in Calls : Transmit(c)
  BY DEF Next, vars, setup, history, ChangeEnvironment, Begin, CallStep, Send, Unreachable,
     TimesOut, ConnectionBreaks, AnsweredWithPage, AnsweredWithError, Wake, Continue
<1>. QED BY <1>1, <1>2, <1>3, <1>4, <1>5

\* Every request goes to the tenant and carries the token that the arguments name,
\* or the environment when the client was constructed; whatever it says later.
THEOREM RequestsAim ==
  TextsAreOrderly => (Spec => []RequestsGoWhereTheClientPoints)
<1>. SUFFICES ASSUME TextsAreOrderly PROVE Spec => []RequestsGoWhereTheClientPoints
  OBVIOUS
<1>1. Init => AimInv
  BY DEF Init, AimInv, RequestsGoWhereTheClientPoints
<1>2. Inv /\ AimInv /\ [Next]_vars => AimInv'
  BY AimStep
<1>3. AimInv => RequestsGoWhereTheClientPoints
  BY DEF AimInv
<1>. QED BY <1>1, <1>2, <1>3, InvHolds, PTL DEF Spec

=============================================================================
