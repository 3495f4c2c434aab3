-------------------------- MODULE CompleteAuthProofs --------------------------
(***************************************************************************)
(* authorize_in_browser exchanges only the redirect of its own URL, for    *)
(* any number of calls, addresses, tabs, redirects and codes.              *)
(*                                                                         *)
(* First, a call drives its listener as CodeListener says (Listens), so    *)
(* that its invariant LInv holds here too.  FlowInv adds what the calls    *)
(* know: the state in a redirect is that of the URL its code was granted   *)
(* for, all the way from the request to Wait's result, and a call past its *)
(* comparison holds a redirect of its own.  FlowInv is about the calls     *)
(* alone: it survives other users of the client's token and of the token   *)
(* endpoint.  CInv adds what holds without such users.                     *)
(***************************************************************************)
EXTENDS CompleteAuth, CodeListenerProofs

\* A code reaches a handler with the state of the URL it was granted for.
CarriesGrant ==
  \A r \in Requests :
    /\ req[r].phase \in {"handling", "sent", "answered", "cut"}
    /\ req[r].query.kind = "code"
    => grants[req[r].query.result.code] = req[r].query.result.state

\* So does the code that Wait returned.
GotGrant ==
  \A l \in Listeners : wait[l] = "code" =>
    got[l] \in AuthResult /\ grants[got[l].code] = got[l].state

Committed == Exchanged \cup {"exchanging"}

\* What a call has done by the time it is at each stage.
StageKnown ==
  \A l \in Listeners :
    /\ stage[l] \in Committed => wait[l] = "code" /\ got[l].state = l
    /\ stage[l] \in Committed \cup {"opened"} => l \in tabs
    /\ stage[l] \in Exchanged => got[l].code \in redeemed
    /\ stage[l] \in {"stored", "ok"} => token # None

FlowInv ==
  /\ CTypeOK
  /\ LInv
  /\ CarriesGrant
  /\ GotGrant
  /\ StageKnown

CInv == FlowInv /\ OwnRedirectOnly

-----------------------------------------------------------------------------
\* Nothing has begun in the initial state.
LEMMA CInitInv == CInit => CInv
<1> SUFFICES ASSUME CInit PROVE CInv
  OBVIOUS
<1>1. LInv
  BY LInitInv DEF CInit
<1>2. CTypeOK
  BY <1>1 DEF LInv, CInit, CTypeOK, Stages
<1>3. CarriesGrant /\ GotGrant /\ StageKnown /\ OwnRedirectOnly
  BY DEF CInit, LInit, CarriesGrant, GotGrant, StageKnown, Committed,
    Exchanged, OwnRedirectOnly
<1> QED
  BY <1>1, <1>2, <1>3 DEF CInv, FlowInv

\* A step of a call, of the PSU or of the browser is a step of CodeListener,
\* or one it cannot see.
LEMMA Listens ==
  ASSUME CTypeOK, [CNext]_cvars
  PROVE  [LNext]_lvars
<1>1. ASSUME NEW r \in Requests, NEW x \in Codes, Redirected(r, x)
      PROVE  LNext
  <2> DEFINE q == [kind |-> "code",
                   result |-> [code |-> x, state |-> grants[x]]]
  <2>1. grants[x] \in Marks
    BY <1>1 DEF Redirected, CTypeOK
  <2>2. q \in Query /\ RedirectAddr \in Addrs
    BY <2>1, MarksAssumption DEF Query, AuthResult
  <2>3. Visit(r, RedirectAddr, q)
    BY <1>1 DEF Redirected
  <2>4. QED
    BY <2>2, <2>3 DEF LNext
<1>2. ASSUME NEW r \in Requests, NEW kind \in {"error", "other"},
             Stray(r, kind)
      PROVE  LNext
  <2> DEFINE q == [kind |-> kind, result |-> None]
  <2>1. q \in Query /\ RedirectAddr \in Addrs
    BY MarksAssumption DEF Query
  <2>2. Visit(r, RedirectAddr, q)
    BY <1>2 DEF Stray
  <2>3. QED
    BY <2>1, <2>2 DEF LNext
<1>3. ASSUME NEW r \in Requests, Handled(r)
      PROVE  LNext
  BY <1>3 DEF Handled, LNext
<1>4. ASSUME NEW l \in Listeners, NEW a \in Addrs, Start(l, a)
      PROVE  LNext
  BY <1>4 DEF Start, LNext
<1>5. ASSUME NEW l \in Listeners,
             Await(l) \/ Receive(l) \/ Return(l) \/ Cancelled(l)
      PROVE  LNext
  BY <1>5 DEF Await, Receive, Return, Cancelled, LNext
<1>6. CASE UNCHANGED lvars
  BY <1>6
<1>7. \/ \E r \in Requests, x \in Codes : Redirected(r, x)
      \/ \E r \in Requests : \E kind \in {"error", "other"} : Stray(r, kind)
      \/ \E r \in Requests : Handled(r)
      \/ \E l \in Listeners, a \in Addrs : Start(l, a)
      \/ \E l \in Listeners : \/ Await(l) \/ Receive(l)
                              \/ Return(l) \/ Cancelled(l)
      \/ UNCHANGED lvars
  BY DEF CNext, cvars, StartFails, AddrRefused, CallStep, OpenURL, Proceed,
    Refuse, BankRedeems, StoreToken, ExchangeFails, PSUApproves
<1> QED
  BY <1>1, <1>2, <1>3, <1>4, <1>5, <1>6, <1>7

-----------------------------------------------------------------------------
\* Steps of the calls themselves; what is disturbed is StageKnown.

\* OpenURL preserves the invariant of the flow.
LEMMA OpenURLStep ==
  ASSUME FlowInv, NEW l \in Listeners, OpenURL(l)
  PROVE  FlowInv'
<1> USE DEF FlowInv, OpenURL, Go
<1>1. CTypeOK' /\ LInv'
  BY DEF CTypeOK, Stages, lvars, LTypeOK, LInv, Routed, Buffered, NoLostCode,
    Sent
<1>2. StageKnown'
  BY DEF StageKnown, Committed, Exchanged, CTypeOK, lvars
<1>3. CarriesGrant' /\ GotGrant'
  BY DEF CarriesGrant, GotGrant, lvars
<1> QED
  BY <1>1, <1>2, <1>3

\* Proceed preserves the invariant of the flow: the comparison of the states
\* makes the redirect the call's own.
LEMMA ProceedStep ==
  ASSUME FlowInv, NEW l \in Listeners, Proceed(l)
  PROVE  FlowInv'
<1> USE DEF FlowInv, Proceed, Go, world
<1>1. CTypeOK' /\ LInv'
  BY DEF CTypeOK, Stages, lvars, LTypeOK, LInv, Routed, Buffered, NoLostCode,
    Sent
<1>2. StageKnown'
  BY DEF StageKnown, Committed, Exchanged, StateIsOwn, CTypeOK, lvars
<1>3. CarriesGrant' /\ GotGrant'
  BY DEF CarriesGrant, GotGrant, lvars
<1> QED
  BY <1>1, <1>2, <1>3

\* BankRedeems preserves the invariant of the flow.
LEMMA BankRedeemsStep ==
  ASSUME FlowInv, NEW l \in Listeners, BankRedeems(l)
  PROVE  FlowInv'
<1> USE DEF FlowInv, BankRedeems, Go
<1>1. got[l] \in AuthResult
  BY DEF StageKnown, Committed, GotGrant
<1>2. got[l].code \in Codes
  BY <1>1 DEF AuthResult
<1>3. CTypeOK' /\ LInv'
  BY <1>2 DEF CTypeOK, Stages, lvars, LTypeOK, LInv, Routed, Buffered,
    NoLostCode, Sent
<1>4. StageKnown'
  BY DEF StageKnown, Committed, Exchanged, CTypeOK, lvars
<1>5. CarriesGrant' /\ GotGrant'
  BY DEF CarriesGrant, GotGrant, lvars
<1> QED
  BY <1>3, <1>4, <1>5

\* StoreToken preserves the invariant of the flow.
LEMMA StoreTokenStep ==
  ASSUME FlowInv, NEW l \in Listeners, StoreToken(l)
  PROVE  FlowInv'
<1> USE DEF FlowInv, StoreToken, Go
<1>1. got[l] \in AuthResult
  BY DEF StageKnown, Committed, Exchanged, GotGrant
<1>2. got[l].code \in Codes /\ got[l].code # None
  BY <1>1, NoneAssumption DEF AuthResult
<1>3. CTypeOK' /\ LInv'
  BY <1>2 DEF CTypeOK, Stages, lvars, LTypeOK, LInv, Routed, Buffered,
    NoLostCode, Sent
<1>4. StageKnown'
  BY <1>2 DEF StageKnown, Committed, Exchanged, CTypeOK, lvars
<1>5. CarriesGrant' /\ GotGrant'
  BY DEF CarriesGrant, GotGrant, lvars
<1> QED
  BY <1>3, <1>4, <1>5

\* A call fails or is refused.
CallFails(l) ==
  \/ \E a \in Addrs : StartFails(l, a)
  \/ AddrRefused(l) \/ Refuse(l) \/ ExchangeFails(l)

\* The failing steps preserve the invariant of the flow.
LEMMA CallFailsStep ==
  ASSUME FlowInv, NEW l \in Listeners, CallFails(l)
  PROVE  FlowInv'
<1>1. /\ stage' = [stage EXCEPT ![l] = stage'[l]]
      /\ stage'[l] \in {"fail", "failed"}
      /\ UNCHANGED <<lvars, world>>
  BY DEF CallFails, StartFails, AddrRefused, Refuse, ExchangeFails, Go,
    FlowInv, CTypeOK
<1> USE DEF FlowInv, world, lvars
<1>2. LInv'
  BY <1>1 DEF LTypeOK, LInv, Routed, Buffered, NoLostCode, Sent
<1>3. CTypeOK'
  BY <1>1, <1>2 DEF CTypeOK, Stages, LInv
<1>4. StageKnown'
  BY <1>1 DEF StageKnown, Committed, Exchanged, CTypeOK
<1>5. CarriesGrant' /\ GotGrant'
  BY <1>1 DEF CarriesGrant, GotGrant
<1> QED
  BY <1>2, <1>3, <1>4, <1>5

-----------------------------------------------------------------------------
\* Steps of a call on its listener.

\* Start preserves the invariant of the flow.
LEMMA StartStep ==
  ASSUME FlowInv, NEW l \in Listeners, NEW a \in Addrs, Start(l, a)
  PROVE  FlowInv'
<1> USE DEF FlowInv, Start, Go, ListenForCode, world
<1>1. LInv'
  BY ListenForCodeStep
<1>2. CTypeOK'
  BY <1>1 DEF CTypeOK, Stages, LInv
<1>3. StageKnown'
  BY DEF StageKnown, Committed, Exchanged, CTypeOK
<1>4. CarriesGrant' /\ GotGrant'
  BY DEF CarriesGrant, GotGrant
<1> QED
  BY <1>1, <1>2, <1>3, <1>4

\* Receive preserves the invariant of the flow: Wait returns what a request to
\* this listener carried.
LEMMA ReceiveStep ==
  ASSUME FlowInv, NEW l \in Listeners, Receive(l)
  PROVE  FlowInv'
<1> USE DEF FlowInv, Receive, world
<1>1. LInv'
  BY WaitCodeStep, CallerStepStep DEF WaitReturns, CallerStep
<1>2. CTypeOK'
  BY <1>1 DEF CTypeOK, LInv
<1>3. /\ wait[l] = "waiting"
      /\ \A m \in Listeners \ {l} : wait'[m] = wait[m] /\ got'[m] = got[m]
      /\ req' = req
  BY DEF WaitReturns, WaitCode, WaitError, WaitCancelled, CTypeOK, LTypeOK
<1>4. StageKnown'
  BY <1>3 DEF StageKnown, Committed, Exchanged
<1>5. CarriesGrant'
  BY <1>3 DEF CarriesGrant
<1>6. GotGrant'
  <2>1. SUFFICES ASSUME wait'[l] = "code"
                 PROVE  /\ got'[l] \in AuthResult
                        /\ grants[got'[l].code] = got'[l].state
    BY <1>3 DEF GotGrant
  <2>2. WaitCode(l)
    BY <2>1 DEF WaitReturns, WaitError, WaitCancelled, CTypeOK, LTypeOK
  <2>3. PICK r \in Sent(l) : ch[l] = <<req[r].query.result>>
    BY <2>2 DEF WaitCode, LInv, Buffered
  <2>4. got'[l] = req[r].query.result
    BY <2>2, <2>3 DEF WaitCode, CTypeOK, LTypeOK
  <2>5. /\ req[r].query.result \in AuthResult
        /\ grants[req[r].query.result.code] = req[r].query.result.state
    BY CodeQuery DEF Sent, LInv, Routed, CarriesGrant
  <2>6. QED
    BY <2>4, <2>5
<1> QED
  BY <1>1, <1>2, <1>4, <1>5, <1>6

\* Await, Return and Cancelled preserve the invariant of the flow.
LEMMA CallerFlowStep ==
  ASSUME FlowInv, NEW l \in Listeners, Await(l) \/ Return(l) \/ Cancelled(l)
  PROVE  FlowInv'
<1> USE DEF FlowInv, Await, Return, Cancelled, world
<1>1. LInv'
  BY CallerStepStep DEF CallerStep
<1>2. CTypeOK'
  BY <1>1 DEF CTypeOK, LInv, Go, Stages
<1> USE DEF Wait, Close, Cancel
<1>3. /\ \A m \in Listeners :
           wait[m] = "code" <=> wait'[m] = "code"
      /\ UNCHANGED <<got, req>>
  BY DEF CTypeOK, LTypeOK
<1>4. StageKnown'
  BY <1>3 DEF StageKnown, Committed, Exchanged, Go, CTypeOK
<1>5. CarriesGrant' /\ GotGrant'
  BY <1>3 DEF CarriesGrant, GotGrant
<1> QED
  BY <1>1, <1>2, <1>4, <1>5

-----------------------------------------------------------------------------
\* Steps of the PSU and of the browser.

\* PSUApproves preserves the invariant of the flow: it grants a code that no
\* redirect carries yet.
LEMMA PSUApprovesStep ==
  ASSUME FlowInv, NEW m \in Marks, NEW x \in Codes, PSUApproves(m, x)
  PROVE  FlowInv'
<1> USE DEF FlowInv, PSUApproves
<1>1. CTypeOK' /\ LInv'
  BY DEF CTypeOK, lvars, LTypeOK, LInv, Routed, Buffered, NoLostCode, Sent
<1>2. \A c \in Codes : grants[c] \in Marks => grants'[c] = grants[c]
  BY MarksAssumption DEF CTypeOK
<1>3. CarriesGrant'
  <2>1. SUFFICES ASSUME NEW r \in Requests,
                        req[r].phase \in
                          {"handling", "sent", "answered", "cut"},
                        req[r].query.kind = "code"
                 PROVE  grants'[req[r].query.result.code]
                          = req[r].query.result.state
    BY DEF CarriesGrant, lvars
  <2>2. req[r].query.result \in AuthResult
    BY <2>1, CodeQuery DEF LInv, Routed
  <2>3. QED
    BY <1>2, <2>1, <2>2 DEF CarriesGrant, AuthResult
<1>4. GotGrant'
  BY <1>2 DEF GotGrant, AuthResult, lvars
<1>5. StageKnown'
  BY DEF StageKnown, lvars
<1> QED
  BY <1>1, <1>3, <1>4, <1>5

\* Redirected preserves the invariant of the flow: the bridge puts the state
\* of the approved URL next to the code.
LEMMA RedirectedStep ==
  ASSUME FlowInv, NEW r \in Requests, NEW x \in Codes, Redirected(r, x)
  PROVE  FlowInv'
<1> USE DEF FlowInv, Redirected, world
<1>1. LInv'
  BY Listens, LNextInv DEF CNext
<1>2. CTypeOK'
  BY <1>1 DEF CTypeOK, LInv
<1>3. CarriesGrant'
  <2> DEFINE redirect == [code |-> x, state |-> grants[x]]
  <2>1. /\ req'[r].query = [kind |-> "code", result |-> redirect]
        /\ \A s \in Requests \ {r} : req'[s] = req[s]
    BY DEF Visit, CTypeOK, LTypeOK
  <2>2. grants[redirect.code] = redirect.state
    OBVIOUS
  <2> HIDE DEF redirect
  <2>3. QED
    BY <2>1, <2>2 DEF CarriesGrant
<1>4. GotGrant' /\ StageKnown'
  BY DEF GotGrant, StageKnown, Visit
<1> QED
  BY <1>1, <1>2, <1>3, <1>4

\* Stray preserves the invariant of the flow.
LEMMA StrayStep ==
  ASSUME FlowInv, NEW r \in Requests, NEW kind \in {"error", "other"},
         Stray(r, kind)
  PROVE  FlowInv'
<1> USE DEF FlowInv, Stray, world
<1>1. LInv'
  BY Listens, LNextInv DEF CNext
<1>2. CTypeOK'
  BY <1>1 DEF CTypeOK, LInv
<1>3. CarriesGrant'
  BY DEF CarriesGrant, Visit, CTypeOK, LTypeOK, Request
<1>4. GotGrant' /\ StageKnown'
  BY DEF GotGrant, StageKnown, Visit
<1> QED
  BY <1>1, <1>2, <1>3, <1>4

\* Handled preserves the invariant of the flow.
LEMMA HandledStep ==
  ASSUME FlowInv, NEW r \in Requests, Handled(r)
  PROVE  FlowInv'
<1> USE DEF FlowInv, Handled, world
<1>1. LInv'
  BY Listens, LNextInv DEF CNext
<1>2. CTypeOK'
  BY <1>1 DEF CTypeOK, LInv
<1> USE DEF Handle, HandleCode, HandleError, HandleOther, Handling, Respond
<1>3. CarriesGrant'
  <2>0. /\ \E p : req' = [req EXCEPT ![r].phase = p]
        /\ req[r].phase \in {"handling", "sent"}
    OBVIOUS
  <2>1. ASSUME NEW s \in Requests
        PROVE  /\ req'[s].query = req[s].query
               /\ req'[s].phase = req[s].phase
                    \/ req[s].phase \in {"handling", "sent"}
    BY <2>0 DEF CTypeOK, LTypeOK
  <2>2. QED
    BY <2>1 DEF CarriesGrant
<1>4. GotGrant' /\ StageKnown'
  BY DEF GotGrant, StageKnown
<1> QED
  BY <1>1, <1>2, <1>3, <1>4

-----------------------------------------------------------------------------
\* Every step of the calls, the PSU and the browser, by name.
LEMMA CNextCases ==
  ASSUME CNext
  PROVE  \/ \E l \in Listeners, a \in Addrs : Start(l, a)
         \/ \E l \in Listeners :
              \/ OpenURL(l) \/ Await(l) \/ Receive(l) \/ Proceed(l)
              \/ BankRedeems(l) \/ StoreToken(l) \/ CallFails(l)
              \/ Return(l) \/ Cancelled(l)
         \/ \E m \in Marks, x \in Codes : PSUApproves(m, x)
         \/ \E r \in Requests, x \in Codes : Redirected(r, x)
         \/ \E r \in Requests : \E kind \in {"error", "other"} : Stray(r, kind)
         \/ \E r \in Requests : Handled(r)
BY DEF CNext, CallStep, CallFails

\* The invariant of the flow is inductive.
LEMMA FlowNextInv ==
  ASSUME FlowInv, [CNext]_cvars
  PROVE  FlowInv'
<1>1. CASE CNext
  BY <1>1, CNextCases, StartStep, OpenURLStep, CallerFlowStep, ReceiveStep,
    ProceedStep, BankRedeemsStep, StoreTokenStep, CallFailsStep,
    PSUApprovesStep, RedirectedStep, StrayStep, HandledStep
<1>2. CASE UNCHANGED cvars
  <2> USE DEF cvars, lvars
  <2>1. CTypeOK' /\ LInv'
    BY <1>2 DEF FlowInv, CTypeOK, LInv, LTypeOK, Routed, Buffered,
      NoLostCode, Sent
  <2>2. CarriesGrant' /\ GotGrant' /\ StageKnown'
    BY <1>2 DEF FlowInv, CarriesGrant, GotGrant, StageKnown
  <2>3. QED
    BY <2>1, <2>2 DEF FlowInv
<1> QED
  BY <1>1, <1>2

\* It survives whoever else redeems codes at the bank and stores their tokens.
LEMMA OthersStep ==
  ASSUME FlowInv, UNCHANGED <<lvars, stage, tabs, grants>>,
         redeemed \subseteq redeemed', redeemed' \subseteq Codes,
         token' \in Codes \cup {None}, token # None => token' # None
  PROVE  FlowInv'
<1> USE DEF lvars
<1>1. CTypeOK' /\ LInv'
  BY DEF FlowInv, CTypeOK, LInv, LTypeOK, Routed, Buffered, NoLostCode, Sent
<1>2. CarriesGrant' /\ GotGrant'
  BY DEF FlowInv, CarriesGrant, GotGrant
<1>3. StageKnown'
  BY DEF FlowInv, StageKnown
<1> QED
  BY <1>1, <1>2, <1>3 DEF FlowInv

\* A call past its comparison holds a code that was granted for its own URL.
LEMMA CommittedOwn ==
  ASSUME FlowInv, NEW l \in Listeners, stage[l] \in Committed
  PROVE  /\ l \in tabs
         /\ got[l].code \in Codes /\ got[l].code # None
         /\ grants[got[l].code] = l
<1>1. got[l] \in AuthResult
  BY DEF FlowInv, StageKnown, GotGrant
<1>2. got[l].code \in Codes /\ got[l].code # None
  BY <1>1, NoneAssumption DEF AuthResult
<1> QED
  BY <1>2 DEF FlowInv, StageKnown, GotGrant

\* No step exchanges a foreign code, or keeps the token of one.
LEMMA OwnRedirectNext ==
  ASSUME CInv, [CNext]_cvars
  PROVE  OwnRedirectOnly'
<1> USE DEF CInv
<1>1. FlowInv'
  BY FlowNextInv
<1>2. \A l \in Listeners :
        stage'[l] \in Committed => grants'[got'[l].code] = l
  BY <1>1 DEF FlowInv, StageKnown, GotGrant
<1> DEFINE Kept == /\ \A x \in redeemed : grants[x] \in tabs
                   /\ token # None => token \in redeemed
<1>3. Kept'
  <2> USE DEF OwnRedirectOnly
  <2>1. ASSUME NEW l \in Listeners, OpenURL(l)
        PROVE  Kept'
    BY <2>1 DEF OpenURL
  <2>2. ASSUME NEW l \in Listeners, BankRedeems(l)
        PROVE  Kept'
    BY <2>2, CommittedOwn DEF BankRedeems, Go, Committed
  <2>3. ASSUME NEW l \in Listeners, StoreToken(l)
        PROVE  Kept'
    BY <2>3 DEF StoreToken, Go, FlowInv, StageKnown, Exchanged
  <2>4. ASSUME NEW m \in Marks, NEW x \in Codes, PSUApproves(m, x)
        PROVE  Kept'
    BY <2>4, NoneAssumption DEF PSUApproves, FlowInv, CTypeOK
  <2>5. CASE UNCHANGED world
    BY <2>5 DEF world
  <2>6. \/ \E l \in Listeners : OpenURL(l) \/ BankRedeems(l) \/ StoreToken(l)
        \/ \E m \in Marks, x \in Codes : PSUApproves(m, x)
        \/ UNCHANGED world
    BY CNextCases DEF cvars, world, Start, Await, Receive, Proceed, CallFails,
      StartFails, AddrRefused, Refuse, ExchangeFails, Return, Cancelled,
      Redirected, Stray, Handled
  <2>7. QED
    BY <2>1, <2>2, <2>3, <2>4, <2>5, <2>6
<1> QED
  BY <1>2, <1>3 DEF OwnRedirectOnly, Committed

\* CompleteAuthorization, with any number of concurrent and abandoned calls:
\* the inductive invariant holds in every state.
THEOREM CInvariance == CSpec => []CInv
<1>1. CInv /\ [CNext]_cvars => CInv'
  BY FlowNextInv, OwnRedirectNext DEF CInv
<1> QED
  BY <1>1, CInitInv, PTL DEF CSpec

\* CompleteAuthorization: every variable keeps its type.
THEOREM CallsTypeCorrect == CSpec => []CTypeOK
<1>1. CInv => CTypeOK
  BY DEF CInv, FlowInv
<1> QED
  BY <1>1, CInvariance, PTL

\* CompleteAuthorization: stale tabs, reloads and redirects of other URLs never
\* make a call exchange a code that was not granted for its own URL.
THEOREM OwnRedirects == CSpec => []OwnRedirectOnly
<1>1. CInv => OwnRedirectOnly
  BY DEF CInv
<1> QED
  BY <1>1, CInvariance, PTL

\* The calls use their listeners as CodeListener allows, so what is proved of a
\* CodeListener, NoLostCode and FirstCodeKept included, holds for them.
THEOREM CallsListen == CSpec => LSpec
<1>1. CInit => LInit
  BY DEF CInit
<1>2. CTypeOK /\ [CNext]_cvars => [LNext]_lvars
  BY Listens
<1> QED
  BY <1>1, <1>2, CallsTypeCorrect, PTL DEF CSpec, LSpec

-----------------------------------------------------------------------------
\* A step of a call or of the PSU is a step of Authorization or leaves what
\* that module can see unchanged.
LEMMA CallStepRefines ==
  ASSUME CInv, [CNext]_cvars
  PROVE  [Promise!ANext]_Promise!avars
<1> DEFINE Told == {<<l, got[l].code>> :
                      l \in {i \in Listeners : stage[i] = "ok"}}
<1> USE DEF Promise!avars
<1>1. ASSUME NEW l \in Listeners, OpenURL(l)
      PROVE  Promise!ANext
  <2>1. Told' = Told
    BY <1>1 DEF OpenURL, Go, lvars, CInv, FlowInv, CTypeOK
  <2>2. l \in Marks /\ l \notin {OtherMark}
    BY MarksAssumption
  <2>3. Promise!Issue(l)
    BY <1>1, <2>1, <2>2 DEF OpenURL, Promise!Issue
  <2>4. QED
    BY <2>2, <2>3 DEF Promise!ANext
<1>2. ASSUME NEW m \in Marks, NEW x \in Codes, PSUApproves(m, x)
      PROVE  Promise!ANext
  BY <1>2 DEF PSUApproves, lvars, Promise!ANext, Promise!Grant
<1>3. ASSUME NEW l \in Listeners, BankRedeems(l)
      PROVE  Promise!ANext
  <2>1. PICK x \in Codes : x = got[l].code
    BY <1>3, CommittedOwn DEF BankRedeems, Go, Committed, CInv
  <2>2. grants[x] \in tabs
    BY <1>3, <2>1, CommittedOwn DEF BankRedeems, Go, Committed, CInv
  <2>3. Told' = Told
    BY <1>3 DEF BankRedeems, Go, lvars, CInv, FlowInv, CTypeOK
  <2>4. Promise!Spend(x)
    BY <1>3, <2>1, <2>2, <2>3 DEF BankRedeems, Promise!Spend
  <2>5. QED
    BY <2>4 DEF Promise!ANext
<1>4. ASSUME NEW l \in Listeners, StoreToken(l)
      PROVE  Promise!ANext
  <2>1. PICK x \in Codes : x = got[l].code
    BY <1>4, CommittedOwn DEF StoreToken, Go, Committed, Exchanged, CInv
  <2>2. x \in redeemed
    BY <1>4, <2>1 DEF StoreToken, Go, CInv, FlowInv, StageKnown, Exchanged
  <2>3. Told' = Told
    BY <1>4 DEF StoreToken, Go, lvars, CInv, FlowInv, CTypeOK
  <2>4. Promise!Keep(x)
    BY <1>4, <2>1, <2>2, <2>3 DEF StoreToken, Promise!Keep
  <2>5. QED
    BY <2>4 DEF Promise!ANext
<1>5. ASSUME NEW l \in Listeners, Return(l), stage[l] = "stored"
      PROVE  Promise!ANext
  <2>1. PICK x \in Codes : x = got[l].code
    BY <1>5, CommittedOwn DEF Committed, Exchanged, CInv
  <2>2. grants[x] = l /\ x \in redeemed /\ token # None
    BY <1>5, <2>1, CommittedOwn DEF Committed, Exchanged, CInv, FlowInv,
      StageKnown
  <2>3. stage' = [stage EXCEPT ![l] = "ok"] /\ got' = got
    BY <1>5 DEF Return, Go, Close
  <2>4. {i \in Listeners : stage'[i] = "ok"}
          = {i \in Listeners : stage[i] = "ok"} \cup {l}
    BY <2>3 DEF CInv, FlowInv, CTypeOK
  <2>5. Told' = Told \cup {<<grants[x], x>>}
    BY <2>1, <2>2, <2>3, <2>4
  <2>6. Promise!Tell(x)
    BY <1>5, <2>2, <2>5 DEF Return, world, Promise!Tell
  <2>7. QED
    BY <2>6 DEF Promise!ANext
<1>6. ASSUME UNCHANGED world,
             \A l \in Listeners : /\ stage'[l] = "ok" <=> stage[l] = "ok"
                                  /\ stage[l] = "ok" => got'[l] = got[l]
      PROVE  UNCHANGED Promise!avars
  <2>1. {i \in Listeners : stage'[i] = "ok"}
          = {i \in Listeners : stage[i] = "ok"}
    BY <1>6
  <2>2. Told' = Told
    BY <1>6, <2>1
  <2>3. QED
    BY <1>6, <2>2 DEF world
<1>7. ASSUME NEW l \in Listeners, Receive(l)
      PROVE  UNCHANGED Promise!avars
  <2>1. \A m \in Listeners \ {l} : got'[m] = got[m]
    BY <1>7 DEF Receive, WaitReturns, WaitCode, WaitError, WaitCancelled,
      CInv, FlowInv, CTypeOK, LTypeOK
  <2>2. stage[l] # "ok"
    BY <1>7 DEF Receive, WaitReturns, WaitCode, WaitError, WaitCancelled,
      CInv, FlowInv, StageKnown, Committed, Exchanged
  <2>3. QED
    BY <1>6, <1>7, <2>1, <2>2 DEF Receive
<1>8. ASSUME NEW l \in Listeners, UNCHANGED world, UNCHANGED got,
             \/ Proceed(l) \/ CallFails(l)
             \/ Return(l) /\ stage[l] # "stored"
             \/ \E a \in Addrs : Start(l, a)
      PROVE  UNCHANGED Promise!avars
  <2>1. \A m \in Listeners : stage'[m] = "ok" <=> stage[m] = "ok"
    BY <1>8 DEF Proceed, CallFails, StartFails, AddrRefused, Refuse,
      ExchangeFails, Return, Start, Go, CInv, FlowInv, CTypeOK
  <2>2. QED
    BY <1>6, <1>8, <2>1
<1>9. CASE UNCHANGED <<stage, got, world>>
  BY <1>6, <1>9
<1>10. \/ \E l \in Listeners :
            \/ OpenURL(l) \/ BankRedeems(l) \/ StoreToken(l) \/ Receive(l)
            \/ Return(l) /\ stage[l] = "stored"
            \/ /\ UNCHANGED world /\ UNCHANGED got
               /\ \/ Proceed(l) \/ CallFails(l)
                  \/ Return(l) /\ stage[l] # "stored"
                  \/ \E a \in Addrs : Start(l, a)
       \/ \E m \in Marks, x \in Codes : PSUApproves(m, x)
       \/ UNCHANGED <<stage, got, world>>
  BY CNextCases DEF cvars, lvars, world, Start, ListenForCode, Await, Wait,
    Proceed, CallFails, StartFails, AddrRefused, Refuse, ExchangeFails,
    Return, Close, Cancelled, Cancel, Redirected, Stray, Visit, Handled,
    Handle, HandleCode, HandleError, HandleOther, Handling, Respond
<1> QED
  BY <1>1, <1>2, <1>3, <1>4, <1>5, <1>7, <1>8, <1>9, <1>10

\* authorize_in_browser implements Authorization: listeners, tabs, races and
\* lost replies show nothing more.
THEOREM CallsRefine == CSpec => KeepsPromise
<1>1. CInit => Promise!AInit
  BY DEF CInit, Promise!AInit
<1>2. CInv /\ [CNext]_cvars => [Promise!ANext]_Promise!avars
  BY CallStepRefines
<1> QED
  BY <1>1, <1>2, CInvariance, PTL DEF CSpec, KeepsPromise, Promise!ASpec
=============================================================================
