------------------------- MODULE LocalConnectorProofs -------------------------
(***************************************************************************)
(* The local connector keeps its two flows apart, for any number of tool   *)
(* calls, browser calls, consents, states and codes.                       *)
(*                                                                         *)
(* The proof composes those of the components.  Each has an invariant      *)
(* (ToolsInv, FlowInv) that its own steps keep and that it also keeps      *)
(* under what the other does to the token and to the redeemed codes        *)
(* (OthersStep); here it is shown that the steps of the whole are of these *)
(* kinds.  What is added (JInv) ties the two together: a code of a browser *)
(* flow was granted for the consent that its call was given.               *)
(***************************************************************************)
EXTENDS LocalConnector, TLAPS

T == INSTANCE ConnectorProofs WITH
  grants <- ToolGrants, PairedInputs <- TRUE, CanRestart <- FALSE

B == INSTANCE CompleteAuthProofs WITH
  grants <- TabGrants, Marks <- Listeners \cup {OtherMark}

\* A call with an open tab has begun.
TabsBegun == \A l \in tabs : stage[l] # "start"

\* A code that carries the state of a browser call was granted for the URL
\* that this call has opened.
TabCodes ==
  \A x \in Codes : grants[x] # None /\ grants[x].state \in Listeners =>
    /\ grants[x].state \in tabs
    /\ grants[x].consent = consentOf[grants[x].state]

JInv ==
  /\ T!ToolsInv
  /\ B!FlowInv
  /\ JTypeOK
  /\ TabsBegun
  /\ TabCodes

-----------------------------------------------------------------------------
\* The constants are what the two components assume.
LEMMA Assumptions ==
  /\ T!ConstantsAssumption
  /\ B!NoneAssumption
  /\ B!MarksAssumption
BY LocalAssumption DEF T!ConstantsAssumption, B!NoneAssumption,
  B!MarksAssumption, T!AnyState, T!Url, AuthUrl

\* A tool's step is one of Connector.
LEMMA ToolSteps ==
  ASSUME NEW k \in Calls, ToolStep(k)
  PROVE  T!CallBegin(k) \/ T!CallStep(k)
BY DEF ToolStep, Tools!CallBegin, T!CallBegin, Tools!CallStep, T!CallStep,
  Tools!CreateBegin, T!CreateBegin, Tools!BankCreates, T!BankCreates,
  Tools!StoreState, T!StoreState, Tools!CreateFails, T!CreateFails,
  Tools!SubmitCheck, T!SubmitCheck, Tools!BankRedeems, T!BankRedeems,
  Tools!StoreToken, T!StoreToken, Tools!ExchangeFails, T!ExchangeFails,
  Tools!SubmitDone, T!SubmitDone, Tools!ReadSend, T!ReadSend,
  Tools!BankServes, T!BankServes, Tools!ReadFails, T!ReadFails,
  Tools!Return, T!Return, Tools!Advance, T!Advance, Tools!Fail, T!Fail,
  Tools!Idle, T!Idle, Tools!bank, T!bank, Tools!AnyState, T!AnyState,
  Tools!Inputs, T!Inputs, Tools!StateMatches, T!StateMatches,
  Tools!Answered, T!Answered

\* What the browser calls and the browser do are steps of CompleteAuth.
LEMMA BrowserSteps ==
  /\ \A l \in Listeners, c \in Consents, a \in Addrs :
       BrowserBegin(l, c, a) =>
         B!Start(l, a) \/ B!StartFails(l, a) \/ B!AddrRefused(l)
  /\ \A l \in Listeners :
       BrowserStep(l) => B!CallStep(l) \/ B!Cancelled(l)
  /\ \A r \in Requests : Visited(r) =>
       \/ \E x \in Codes : B!Redirected(r, x)
       \/ \E kind \in {"error", "other"} : B!Stray(r, kind)
       \/ B!Handled(r)
<1> USE DEF Browser!Go, B!Go, Browser!world, B!world, Browser!lvars, B!lvars
<1>1. \A l \in Listeners, c \in Consents, a \in Addrs :
        BrowserBegin(l, c, a) =>
          B!Start(l, a) \/ B!StartFails(l, a) \/ B!AddrRefused(l)
  BY DEF BrowserBegin, Browser!Start, B!Start, Browser!StartFails,
    B!StartFails, Browser!AddrRefused, B!AddrRefused, Browser!ListenForCode,
    B!ListenForCode, Browser!InUse, B!InUse
<1>2. \A l \in Listeners :
        BrowserStep(l) => B!CallStep(l) \/ B!Cancelled(l)
  BY DEF BrowserStep, Browser!CallStep, B!CallStep, Browser!Cancelled,
    B!Cancelled, Browser!OpenURL, B!OpenURL, Browser!Await, B!Await,
    Browser!Wait, B!Wait, Browser!Receive, B!Receive, Browser!WaitReturns,
    B!WaitReturns, Browser!WaitCode, B!WaitCode, Browser!WaitError,
    B!WaitError, Browser!WaitCancelled, B!WaitCancelled, Browser!Proceed,
    B!Proceed, Browser!StateIsOwn, B!StateIsOwn, Browser!Refuse, B!Refuse,
    Browser!BankRedeems, B!BankRedeems, Browser!StoreToken, B!StoreToken,
    Browser!ExchangeFails, B!ExchangeFails, Browser!Return, B!Return,
    Browser!Close, B!Close, Browser!Ended, B!Ended, Browser!Cancel, B!Cancel
<1>3. \A r \in Requests : Visited(r) =>
        \/ \E x \in Codes : B!Redirected(r, x)
        \/ \E kind \in {"error", "other"} : B!Stray(r, kind)
        \/ B!Handled(r)
  BY DEF Visited, Browser!Redirected, B!Redirected, Browser!Stray, B!Stray,
    Browser!Handled, B!Handled, Browser!Visit, B!Visit, Browser!InUse,
    B!InUse, Browser!Handle, B!Handle, Browser!HandleCode, B!HandleCode,
    Browser!HandleError, B!HandleError, Browser!HandleOther, B!HandleOther,
    Browser!Handling, B!Handling, Browser!Respond, B!Respond, Browser!Offer,
    B!Offer, Browser!ChanCap, B!ChanCap
<1> QED
  BY <1>1, <1>2, <1>3

-----------------------------------------------------------------------------
\* What may happen to the token and to the redeemed codes at a step.
Use ==
  /\ redeemed \subseteq redeemed' /\ redeemed' \subseteq Codes
  /\ token' \in {token} \cup redeemed

\* A tool redeems and stores codes only.
LEMMA ToolUse ==
  ASSUME JInv, NEW k \in Calls, ToolStep(k)
  PROVE  Use
<1>1. T!CallBegin(k) \/ T!CallStep(k)
  BY ToolSteps
<1>2. redeemed \subseteq Codes
  BY DEF JInv, JTypeOK
<1>3. CASE T!BankRedeems(k)
  BY <1>2, <1>3 DEF Use, JInv, T!BankRedeems, T!Advance, T!ToolsInv,
    T!InFlightChecked, T!InFlight
<1>4. CASE T!StoreToken(k)
  BY <1>2, <1>4 DEF Use, JInv, T!StoreToken, T!Advance, T!bank, T!ToolsInv,
    T!InFlightChecked, T!InFlight
<1>5. CASE redeemed' = redeemed /\ token' = token
  BY <1>2, <1>5 DEF Use
<1>6. T!BankRedeems(k) \/ T!StoreToken(k)
        \/ (redeemed' = redeemed /\ token' = token)
  BY <1>1 DEF T!CallBegin, T!CallStep, T!CreateBegin, T!BankCreates,
    T!StoreState, T!CreateFails, T!SubmitCheck, T!ExchangeFails,
    T!SubmitDone, T!ReadSend, T!BankServes, T!ReadFails, T!Return, T!bank
<1> QED
  BY <1>3, <1>4, <1>5, <1>6

\* So does a browser call.
LEMMA BrowserUse ==
  ASSUME JInv, NEW l \in Listeners, B!CallStep(l) \/ B!Cancelled(l)
  PROVE  Use
<1>1. redeemed \subseteq Codes
  BY DEF JInv, JTypeOK
<1>2. CASE B!BankRedeems(l)
  <2>1. got[l].code \in Codes
    BY <1>2, Assumptions, B!CommittedOwn
    DEF JInv, B!BankRedeems, B!Go, B!Committed
  <2>2. QED
    BY <1>1, <1>2, <2>1 DEF Use, B!BankRedeems
<1>3. CASE B!StoreToken(l)
  BY <1>1, <1>3 DEF Use, JInv, B!StoreToken, B!Go, B!FlowInv, B!StageKnown,
    B!Exchanged
<1>4. CASE redeemed' = redeemed /\ token' = token
  BY <1>1, <1>4 DEF Use
<1>5. B!BankRedeems(l) \/ B!StoreToken(l)
        \/ (redeemed' = redeemed /\ token' = token)
  BY DEF B!CallStep, B!Cancelled, B!OpenURL, B!Await, B!Receive, B!Proceed,
    B!Refuse, B!ExchangeFails, B!Return, B!world
<1> QED
  BY <1>2, <1>3, <1>4, <1>5

\* Such use disturbs neither component, if nothing else of it changes.
LEMMA UseKeeps ==
  ASSUME JInv, Use, UNCHANGED grants
  PROVE  /\ UNCHANGED toolVars => T!ToolsInv'
         /\ UNCHANGED browserVars => B!FlowInv'
<1>1. /\ redeemed \subseteq redeemed' /\ redeemed' \subseteq Codes
      /\ token' \in Codes \cup {None} /\ (token # None => token' # None)
  BY LocalAssumption DEF Use, JInv, JTypeOK
<1>2. ToolGrants' = ToolGrants /\ TabGrants' = TabGrants
  BY DEF ToolGrants, TabGrants
<1>3. UNCHANGED toolVars => T!ToolsInv'
  BY <1>1, <1>2, Assumptions, T!OthersStep DEF JInv, toolVars
<1>4. UNCHANGED browserVars => B!FlowInv'
  BY <1>1, <1>2, Assumptions, B!OthersStep DEF JInv, browserVars, B!lvars
<1> QED
  BY <1>3, <1>4

-----------------------------------------------------------------------------
\* What the invariant adds to those of the components survives a step that
\* grants no code, as long as a browser call keeps its consent and its tab.
LEMMA LinkKept ==
  ASSUME JInv, Use, UNCHANGED grants,
         consentOf' \in [Listeners -> Consents \cup {None}],
         tabs \subseteq tabs',
         \A l \in tabs : consentOf'[l] = consentOf[l],
         \A l \in Listeners : stage'[l] # "start" => consentOf'[l] # None,
         \A l \in tabs' : stage'[l] # "start"
  PROVE  JTypeOK' /\ TabsBegun' /\ TabCodes'
<1>1. JTypeOK'
  BY DEF Use, JInv, JTypeOK
<1>2. TabCodes'
  BY DEF JInv, TabCodes
<1> QED
  BY <1>1, <1>2 DEF TabsBegun

\* A tool's step keeps the invariant.
LEMMA ToolStepInv ==
  ASSUME JInv, NEW k \in Calls, ToolStep(k)
  PROVE  JInv'
<1>1. T!ToolsInv'
  BY ToolSteps, Assumptions, T!ToolsNext DEF JInv, T!Next
<1>2. Use /\ UNCHANGED <<grants, browserVars, consentOf>>
  BY ToolUse DEF ToolStep
<1>3. B!FlowInv'
  BY <1>2, UseKeeps
<1>4. JTypeOK' /\ TabsBegun' /\ TabCodes'
  BY <1>2, LinkKept DEF JInv, JTypeOK, TabsBegun, browserVars
<1> QED
  BY <1>1, <1>3, <1>4 DEF JInv

\* authorize_in_browser begins: the call has no tab yet.
LEMMA BrowserBeginInv ==
  ASSUME JInv, NEW l \in Listeners, NEW c \in Consents, NEW a \in Addrs,
         BrowserBegin(l, c, a)
  PROVE  JInv'
<1>1. B!Start(l, a) \/ B!StartFails(l, a) \/ B!AddrRefused(l)
  BY BrowserSteps
<1>2. B!FlowInv'
  BY <1>1, Assumptions, B!FlowNextInv DEF JInv, B!CNext
<1>3. /\ UNCHANGED <<grants, toolVars, tabs, redeemed, token>>
      /\ consentOf' = [consentOf EXCEPT ![l] = c]
      /\ stage[l] = "start"
      /\ \E s \in {"bound", "failed"} : stage' = [stage EXCEPT ![l] = s]
  BY <1>1 DEF BrowserBegin, B!Start, B!StartFails, B!AddrRefused, B!Go,
    B!world
<1>4. Use
  BY <1>3 DEF Use, JInv, JTypeOK
<1>5. T!ToolsInv'
  BY <1>3, <1>4, UseKeeps
<1>6. stage \in [Listeners -> B!Stages] /\ tabs \subseteq Listeners
  BY DEF JInv, B!FlowInv, B!CTypeOK
<1>7. JTypeOK' /\ TabsBegun' /\ TabCodes'
  <2>1. l \notin tabs
    BY <1>3 DEF JInv, TabsBegun
  <2>2. \A m \in Listeners \ {l} :
          stage'[m] = stage[m] /\ consentOf'[m] = consentOf[m]
    BY <1>3, <1>6 DEF JInv, JTypeOK
  <2>3. consentOf'[l] = c /\ c # None
    BY <1>3, LocalAssumption DEF JInv, JTypeOK
  <2>4. consentOf' \in [Listeners -> Consents \cup {None}]
    BY <1>3 DEF JInv, JTypeOK
  <2>5. \A m \in Listeners : stage'[m] # "start" => consentOf'[m] # None
    BY <2>2, <2>3 DEF JInv, JTypeOK
  <2>6. \A m \in tabs : /\ stage'[m] # "start"
                        /\ consentOf'[m] = consentOf[m]
    BY <1>6, <2>1, <2>2 DEF JInv, TabsBegun
  <2>7. QED
    BY <1>3, <1>4, <2>4, <2>5, <2>6, LinkKept
<1> QED
  BY <1>2, <1>5, <1>7 DEF JInv

\* A step of a call that has begun.
LEMMA BrowserStepInv ==
  ASSUME JInv, NEW l \in Listeners, BrowserStep(l)
  PROVE  JInv'
<1>1. B!CallStep(l) \/ B!Cancelled(l)
  BY BrowserSteps
<1>2. B!FlowInv'
  BY <1>1, Assumptions, B!FlowNextInv DEF JInv, B!CNext
<1>3. Use /\ UNCHANGED <<grants, toolVars, consentOf>>
  BY <1>1, BrowserUse DEF BrowserStep
<1>4. T!ToolsInv'
  BY <1>3, UseKeeps
<1>5. stage \in [Listeners -> B!Stages] /\ tabs \subseteq Listeners
  BY DEF JInv, B!FlowInv, B!CTypeOK
<1>6. \/ stage' = stage
      \/ /\ stage[l] # "start"
         /\ stage' = [stage EXCEPT ![l] = stage'[l]]
         /\ stage'[l] # "start"
  BY <1>1, <1>5 DEF B!CallStep, B!Cancelled, B!OpenURL, B!Await, B!Receive,
    B!Proceed, B!Refuse, B!BankRedeems, B!StoreToken, B!ExchangeFails,
    B!Return, B!Go
<1>7. tabs' = tabs \/ (tabs' = tabs \cup {l} /\ stage'[l] # "start")
  BY <1>1, <1>5 DEF B!CallStep, B!Cancelled, B!OpenURL, B!Await, B!Receive,
    B!Proceed, B!Refuse, B!BankRedeems, B!StoreToken, B!ExchangeFails,
    B!Return, B!Go, B!world
<1>8. JTypeOK' /\ TabsBegun' /\ TabCodes'
  <2>1. \A m \in Listeners : stage'[m] # "start" <=> stage[m] # "start"
    BY <1>5, <1>6
  <2>2. \A m \in tabs' : stage'[m] # "start"
    BY <1>5, <1>7, <2>1 DEF JInv, TabsBegun
  <2>3. \A m \in Listeners : stage'[m] # "start" => consentOf'[m] # None
    BY <1>3, <2>1 DEF JInv, JTypeOK
  <2>4. /\ consentOf' \in [Listeners -> Consents \cup {None}]
        /\ tabs \subseteq tabs'
    BY <1>3, <1>7 DEF JInv, JTypeOK
  <2>5. QED
    BY <1>3, <2>2, <2>3, <2>4, LinkKept
<1> QED
  BY <1>2, <1>4, <1>8 DEF JInv

\* A browser request is sent or handled.
LEMMA VisitedInv ==
  ASSUME JInv, NEW r \in Requests, Visited(r)
  PROVE  JInv'
<1>1. \/ \E x \in Codes : B!Redirected(r, x)
      \/ \E kind \in {"error", "other"} : B!Stray(r, kind)
      \/ B!Handled(r)
  BY BrowserSteps
<1>2. B!FlowInv'
  BY <1>1, Assumptions, B!FlowNextInv DEF JInv, B!CNext
<1>3. UNCHANGED <<grants, toolVars, consentOf, stage, tabs, redeemed, token>>
  BY <1>1 DEF Visited, B!Redirected, B!Stray, B!Handled, B!world
<1>4. Use
  BY <1>3 DEF Use, JInv, JTypeOK
<1>5. T!ToolsInv'
  BY <1>3, <1>4, UseKeeps
<1>6. JTypeOK' /\ TabsBegun' /\ TabCodes'
  BY <1>3, <1>4, LinkKept DEF JInv, JTypeOK, TabsBegun
<1> QED
  BY <1>2, <1>5, <1>6 DEF JInv

-----------------------------------------------------------------------------
\* Each component sees an approval as one of its own actions.
LEMMA ApprovalSeen ==
  ASSUME JInv, NEW u \in AuthUrl, NEW x \in Codes, PSUApproves(u, x)
  PROVE  /\ \E v \in T!Url : T!PSUApproves(v, x)
         /\ \E m \in Listeners \cup {OtherMark} : B!PSUApproves(m, x)
<1>1. /\ grants[x] = None /\ grants' = [grants EXCEPT ![x] = u]
      /\ grants \in [Codes -> AuthUrl \cup {None}]
      /\ UNCHANGED <<token, redeemed, toolVars, browserVars, consentOf>>
  BY DEF PSUApproves, JInv, JTypeOK
<1>2. u # None
  BY LocalAssumption
<1>3. u.state \in Listeners => u.state \in tabs
  <2>1. urls \subseteq [consent : Consents, state : States]
    BY DEF JInv, T!ToolsInv, T!TypeOK
  <2>2. u \in urls => u.state \in States
    BY <2>1
  <2>3. QED
    BY <2>2, LocalAssumption DEF PSUApproves, TabUrl
<1> DEFINE v == IF u.state \in Listeners
                THEN [u EXCEPT !.state = ForeignState] ELSE u
           m == IF u.state \in Listeners THEN u.state ELSE OtherMark
<1>4. /\ v \in T!Url /\ v.consent = u.consent
      /\ u.state \in Listeners => v.state = ForeignState
      /\ u.state \notin Listeners => v = u
  BY DEF AuthUrl, T!Url, T!AnyState
<1>5. ToolGrants' = [ToolGrants EXCEPT ![x] = v] /\ ToolGrants[x] = None
  BY <1>1, <1>2 DEF ToolGrants
<1>6. TabGrants' = [TabGrants EXCEPT ![x] = m] /\ TabGrants[x] = None
  BY <1>1, <1>2 DEF TabGrants
<1> HIDE DEF v, m
<1>7. v \in urls \/ (v.consent \in created
                       /\ v.state \in {ForeignState, EmptyState})
  <2>1. CASE u.state \in Listeners
    BY <1>4, <2>1 DEF PSUApproves
  <2>2. CASE u.state \notin Listeners
    <3>1. \A l \in tabs : u # TabUrl(l)
      BY <2>2 DEF TabUrl, JInv, B!FlowInv, B!CTypeOK
    <3>2. QED
      BY <1>4, <2>2, <3>1 DEF PSUApproves
  <2>3. QED
    BY <2>1, <2>2
<1>8. T!PSUApproves(v, x)
  BY <1>1, <1>5, <1>7 DEF T!PSUApproves, toolVars
<1>9. m \in tabs \cup {OtherMark}
  BY <1>3 DEF m
<1>10. B!PSUApproves(m, x)
  BY <1>1, <1>6, <1>9 DEF B!PSUApproves, B!lvars, browserVars
<1> QED
  BY <1>4, <1>8, <1>9, <1>10 DEF JInv, B!FlowInv, B!CTypeOK

\* The PSU approves a URL of either flow, or of neither.
LEMMA ApprovesInv ==
  ASSUME JInv, NEW u \in AuthUrl, NEW x \in Codes, PSUApproves(u, x)
  PROVE  JInv'
<1>1. T!ToolsInv' /\ B!FlowInv'
  <2>1. [T!Next]_(T!vars) /\ [B!CNext]_(B!cvars)
    BY ApprovalSeen DEF T!Next, B!CNext
  <2>2. QED
    BY <2>1, Assumptions, T!ToolsNext, B!FlowNextInv DEF JInv
<1>2. /\ grants[x] = None /\ grants' = [grants EXCEPT ![x] = u]
      /\ grants \in [Codes -> AuthUrl \cup {None}]
      /\ UNCHANGED <<token, redeemed, consentOf, stage, tabs, urls>>
  BY DEF PSUApproves, JInv, JTypeOK, browserVars, toolVars
<1>3. JTypeOK' /\ TabsBegun'
  BY <1>2 DEF JInv, JTypeOK, TabsBegun
<1>4. u.state \in Listeners =>
        u.state \in tabs /\ u.consent = consentOf[u.state]
  <2>1. urls \subseteq [consent : Consents, state : States]
    BY DEF JInv, T!ToolsInv, T!TypeOK
  <2>2. u \in urls => u.state \in States
    BY <2>1
  <2>3. QED
    BY <2>2, LocalAssumption DEF PSUApproves, TabUrl
<1>5. TabCodes'
  BY <1>2, <1>4 DEF JInv, TabCodes
<1> QED
  BY <1>1, <1>3, <1>5 DEF JInv

\* No step of the local connector breaks the invariant.
LEMMA JNext ==
  ASSUME JInv, [Next]_avars
  PROVE  JInv'
<1>1. CASE UNCHANGED avars
  <2>1. Use /\ UNCHANGED <<grants, toolVars, browserVars, consentOf>>
    BY <1>1 DEF avars, Use, JInv, JTypeOK
  <2>2. T!ToolsInv' /\ B!FlowInv'
    BY <2>1, UseKeeps
  <2>3. JTypeOK' /\ TabsBegun' /\ TabCodes'
    BY <2>1, LinkKept DEF JInv, JTypeOK, TabsBegun, browserVars
  <2>4. QED
    BY <2>2, <2>3 DEF JInv
<1> QED
  BY <1>1, ToolStepInv, BrowserBeginInv, BrowserStepInv, VisitedInv,
    ApprovesInv DEF Next

\* The invariant of the local connector, in every reachable state.
THEOREM JInvariance == Spec => []JInv
<1>1. ASSUME Init PROVE JInv
  <2>1. /\ ToolGrants = [x \in Codes |-> None]
        /\ TabGrants = [x \in Codes |-> None]
    BY <1>1 DEF Init, ToolGrants, TabGrants
  <2>2. T!Init
    BY <1>1, <2>1 DEF Init, Tools!Init, T!Init, Tools!Idle, T!Idle
  <2>3. B!CInit
    BY <1>1, <2>1 DEF Init, Browser!CInit, B!CInit, Browser!LInit, B!LInit
  <2>4. T!ToolsInv
    BY <2>2, Assumptions, T!InitIInv DEF T!IInv
  <2>5. B!FlowInv
    BY <2>3, Assumptions, B!CInitInv DEF B!CInv
  <2>6. JTypeOK /\ TabsBegun /\ TabCodes
    BY <1>1, <2>3 DEF Init, B!CInit, JTypeOK, TabsBegun, TabCodes
  <2>7. QED
    BY <2>4, <2>5, <2>6 DEF JInv
<1>2. JInv /\ [Next]_avars => JInv'
  BY JNext
<1> QED
  BY <1>1, <1>2, PTL DEF Spec

-----------------------------------------------------------------------------
\* What the tools see as granted for a URL of theirs was granted for it.
LEMMA ToolGrant ==
  ASSUME JInv, NEW x \in Codes, ToolGrants[x].state \in States,
         ToolGrants[x] # None
  PROVE  grants[x] = ToolGrants[x]
<1>1. grants[x] \in AuthUrl \cup {None}
  BY DEF JInv, JTypeOK
<1>2. ASSUME grants[x] # None, grants[x].state \in Listeners
      PROVE  FALSE
  <2>1. ToolGrants[x] = [grants[x] EXCEPT !.state = ForeignState]
    BY <1>2 DEF ToolGrants
  <2>2. ToolGrants[x].state = ForeignState
    BY <1>1, <1>2, <2>1 DEF AuthUrl
  <2>3. QED
    BY <2>2, LocalAssumption
<1> QED
  BY <1>2 DEF ToolGrants

\* What a browser call sees as granted for its URL was granted for its state
\* and for the consent it was given.
LEMMA TabGrant ==
  ASSUME JInv, NEW x \in Codes, NEW l \in Listeners, TabGrants[x] = l
  PROVE  grants[x] = TabUrl(l) /\ l \in tabs
<1>1. grants[x] # None /\ grants[x].state = l
  BY LocalAssumption DEF TabGrants
<1>2. grants[x] \in AuthUrl
  BY <1>1 DEF JInv, JTypeOK
<1>3. l \in tabs /\ grants[x].consent = consentOf[l]
  BY <1>1 DEF JInv, TabCodes
<1> QED
  BY <1>1, <1>2, <1>3 DEF TabUrl, AuthUrl

\* A tool's exchange in flight is one of a code of its own URL.
LEMMA ToolFlight ==
  ASSUME JInv, NEW k \in Calls, call[k].pc \in T!InFlight
  PROVE  /\ call[k].code \in Codes
         /\ [consent |-> call[k].consent, state |-> call[k].state] \in urls
         /\ grants[call[k].code] =
              [consent |-> call[k].consent, state |-> call[k].state]
         /\ call[k].state \in States
<1> DEFINE u == [consent |-> call[k].consent, state |-> call[k].state]
<1>1. /\ call[k].code \in Codes /\ u \in urls
      /\ ToolGrants[call[k].code] = u
  BY DEF JInv, T!ToolsInv, T!InFlightChecked
<1>2. u \in [consent : Consents, state : States]
  BY <1>1 DEF JInv, T!ToolsInv, T!TypeOK
<1>3. u.state = call[k].state /\ u.state \in States
  BY <1>2
<1>4. u # None
  BY <1>2, LocalAssumption DEF AuthUrl
<1> HIDE DEF u
<1>5. grants[call[k].code] = u
  BY <1>1, <1>3, <1>4, ToolGrant
<1> QED
  BY <1>1, <1>3, <1>5 DEF u

\* So is a browser call's, from the comparison of the states on.
LEMMA TabFlight ==
  ASSUME JInv, NEW l \in Listeners, stage[l] \in B!Committed
  PROVE  /\ got[l].code \in Codes
         /\ grants[got[l].code] = TabUrl(l)
         /\ l \in tabs
<1>1. got[l].code \in Codes /\ TabGrants[got[l].code] = l
  BY Assumptions, B!CommittedOwn DEF JInv
<1> QED
  BY <1>1, TabGrant

\* The local connector: every variable keeps its type, and the client's token
\* is always one that the bank has issued (JTypeOK).
THEOREM LocalTypeCorrect == Spec => []JTypeOK
<1>1. JInv => JTypeOK
  BY DEF JInv
<1> QED
  BY <1>1, JInvariance, PTL

\* submit_authorization_code and authorize_in_browser: whichever answers
\* "authorized" has exchanged a code granted for its own consent and URL,
\* although redirects of both flows reach both (BothBound).
THEOREM BothFlowsBound == Spec => []BothBound
<1>1. ASSUME JInv, NEW a \in authorized
      PROVE  grants[a.code] = [consent |-> a.consent, state |-> a.state]
  <2> DEFINE u == [consent |-> a.consent, state |-> a.state]
  <2>1. a \in [consent : Consents, state : States, code : Codes]
    BY <1>1 DEF JInv, T!ToolsInv, T!TypeOK
  <2>2. ToolGrants[a.code] = u
    BY <1>1 DEF JInv, T!ToolsInv, T!AuthorizedChecked
  <2>3. u \in AuthUrl /\ u.state \in States
    BY <2>1 DEF AuthUrl
  <2>4. u # None
    BY <2>3, LocalAssumption
  <2> HIDE DEF u
  <2>5. grants[a.code] = u
    BY <1>1, <2>1, <2>2, <2>3, <2>4, ToolGrant
  <2>6. QED
    BY <2>5 DEF u
<1>2. ASSUME JInv, NEW l \in Listeners, stage[l] = "ok"
      PROVE  grants[got[l].code] = [consent |-> consentOf[l], state |-> l]
  BY <1>2, TabFlight DEF B!Committed, B!Exchanged, TabUrl
<1>3. JInv => BothBound
  BY <1>1, <1>2 DEF BothBound
<1> QED
  BY <1>3, JInvariance, PTL

\* The two tools never send the same code to the token endpoint (FlowsApart).
THEOREM FlowsStayApart == Spec => []FlowsApart
<1>1. ASSUME JInv, NEW k \in Calls, NEW l \in Listeners,
             call[k].pc \in Tools!InFlight,
             stage[l] \in Browser!Exchanged \cup {"exchanging"}
      PROVE  call[k].code # got[l].code
  <2>1. /\ grants[call[k].code] =
             [consent |-> call[k].consent, state |-> call[k].state]
        /\ call[k].state \in States
    BY <1>1, ToolFlight DEF Tools!InFlight, T!InFlight
  <2>2. grants[got[l].code] = TabUrl(l)
    BY <1>1, TabFlight DEF Browser!Exchanged, B!Committed, B!Exchanged
  <2>3. QED
    BY <2>1, <2>2, LocalAssumption DEF TabUrl
<1>2. JInv => FlowsApart
  BY <1>1 DEF FlowsApart
<1> QED
  BY <1>2, JInvariance, PTL

-----------------------------------------------------------------------------
\* The history of Authorization, as LocalConnector maps it.
Issued == urls \cup {TabUrl(l) : l \in tabs}

Told ==
  {<<[consent |-> a.consent, state |-> a.state], a.code>> : a \in authorized}
    \cup {<<TabUrl(l), got[l].code>> :
            l \in {i \in Listeners : stage[i] = "ok"}}

\* A tool's step is a step of Authorization or hidden from it.
LEMMA ToolRefines ==
  ASSUME JInv, NEW k \in Calls, ToolStep(k)
  PROVE  [Promise!ANext]_Promise!avars
<1> USE DEF Promise!avars
<1>1. /\ T!CallBegin(k) \/ T!CallStep(k)
      /\ UNCHANGED <<grants, browserVars, consentOf>>
  BY ToolSteps DEF ToolStep
<1>2. {TabUrl(l) : l \in tabs}' = {TabUrl(l) : l \in tabs}
  BY <1>1 DEF browserVars, TabUrl
<1>3. {<<TabUrl(l), got[l].code>> :
          l \in {i \in Listeners : stage[i] = "ok"}}'
        = {<<TabUrl(l), got[l].code>> :
             l \in {i \in Listeners : stage[i] = "ok"}}
  BY <1>1 DEF browserVars, TabUrl
<1>4. /\ authorized' = authorized => Told' = Told
      /\ urls' = urls => Issued' = Issued
  BY <1>2, <1>3 DEF Told, Issued
<1>5. ASSUME NEW s \in States, T!StoreState(k, s)
      PROVE  Promise!ANext
  <2> DEFINE u == [consent |-> call[k].consent, state |-> s]
  <2>1. call[k].consent \in Consents
    BY <1>5 DEF T!StoreState, T!Advance, JInv, T!ToolsInv, T!TypeOK,
      T!CreatedUnissued
  <2>2. /\ u \in AuthUrl
        /\ u \notin [consent : Consents, state : {ForeignState, EmptyState}]
    BY <2>1, LocalAssumption DEF AuthUrl
  <2>3. /\ urls' = urls \cup {u}
        /\ UNCHANGED <<redeemed, token, authorized>>
    BY <1>5 DEF T!StoreState, T!bank
  <2> HIDE DEF u
  <2>4. Issued' = Issued \cup {u}
    BY <1>2, <2>3 DEF Issued
  <2>5. Promise!Issue(u)
    BY <1>1, <1>4, <2>2, <2>3, <2>4 DEF Promise!Issue, Issued, Told
  <2>6. QED
    BY <2>2, <2>5 DEF Promise!ANext
<1>6. ASSUME T!BankRedeems(k)
      PROVE  Promise!ANext
  <2>1. PICK x \in Codes : x = call[k].code /\ grants[x] \in urls
    BY <1>6, ToolFlight DEF T!BankRedeems, T!Advance, T!InFlight
  <2>2. Promise!Spend(x)
    BY <1>1, <1>4, <1>6, <2>1
    DEF T!BankRedeems, Promise!Spend, Issued, Told
  <2>3. QED
    BY <2>2 DEF Promise!ANext
<1>7. ASSUME T!StoreToken(k)
      PROVE  Promise!ANext
  <2>1. PICK x \in Codes : x = call[k].code
    BY <1>7, ToolFlight DEF T!StoreToken, T!Advance, T!InFlight
  <2>2. x \in redeemed
    BY <1>7, <2>1 DEF T!StoreToken, T!Advance, JInv, T!ToolsInv,
      T!InFlightChecked, T!InFlight
  <2>3. Promise!Keep(x)
    BY <1>1, <1>4, <1>7, <2>1, <2>2
    DEF T!StoreToken, T!bank, Promise!Keep, Issued, Told
  <2>4. QED
    BY <2>3 DEF Promise!ANext
<1>8. ASSUME T!SubmitDone(k)
      PROVE  Promise!ANext
  <2> DEFINE u == [consent |-> call[k].consent, state |-> call[k].state]
             answer == [consent |-> call[k].consent,
                        state |-> call[k].state, code |-> call[k].code]
  <2>1. PICK x \in Codes : x = call[k].code /\ grants[x] = u
    BY <1>8, ToolFlight DEF T!SubmitDone, T!Advance, T!InFlight
  <2>2. x \in redeemed /\ token # None
    BY <1>8, <2>1 DEF T!SubmitDone, T!Advance, JInv, T!ToolsInv,
      T!InFlightChecked, T!InFlight
  <2>3. /\ authorized' = authorized \cup {answer}
        /\ UNCHANGED <<urls, redeemed, token>>
    BY <1>8 DEF T!SubmitDone, T!Answered, T!bank
  <2>4. /\ [consent |-> answer.consent, state |-> answer.state] = u
        /\ answer.code = x
    BY <2>1
  <2> HIDE DEF answer, u
  <2>5. {<<[consent |-> a.consent, state |-> a.state], a.code>> :
            a \in authorized'}
          = {<<[consent |-> a.consent, state |-> a.state], a.code>> :
               a \in authorized} \cup {<<u, x>>}
    BY <2>3, <2>4
  <2>6. Told' = Told \cup {<<grants[x], x>>}
    BY <1>3, <2>1, <2>5 DEF Told
  <2>7. Promise!Tell(x)
    BY <1>1, <1>4, <2>2, <2>3, <2>6 DEF Promise!Tell, Issued, Told
  <2>8. QED
    BY <2>7 DEF Promise!ANext
<1>9. CASE UNCHANGED <<urls, redeemed, token, authorized>>
  BY <1>1, <1>4, <1>9 DEF Issued, Told
<1>10. \/ \E s \in States : T!StoreState(k, s)
       \/ T!BankRedeems(k) \/ T!StoreToken(k) \/ T!SubmitDone(k)
       \/ UNCHANGED <<urls, redeemed, token, authorized>>
  BY <1>1 DEF T!CallBegin, T!CallStep, T!CreateBegin, T!BankCreates,
    T!CreateFails, T!SubmitCheck, T!ExchangeFails, T!ReadSend, T!BankServes,
    T!ReadFails, T!Return, T!bank
<1> QED
  BY <1>5, <1>6, <1>7, <1>8, <1>9, <1>10

\* A step that opens no tab, grants, redeems and stores no code, and ends no
\* call with success is hidden from Authorization.
LEMMA HiddenStep ==
  ASSUME JInv, UNCHANGED <<grants, token, redeemed, toolVars, tabs>>,
         \A l \in tabs : consentOf'[l] = consentOf[l],
         \A l \in Listeners : /\ stage'[l] = "ok" <=> stage[l] = "ok"
                              /\ stage[l] = "ok" => got'[l] = got[l]
  PROVE  UNCHANGED Promise!avars
<1>1. Issued' = Issued
  BY DEF Issued, toolVars, TabUrl
<1>2. \A l \in Listeners : stage[l] = "ok" => TabUrl(l)' = TabUrl(l)
  BY TabFlight DEF B!Committed, B!Exchanged, TabUrl
<1>3. {i \in Listeners : stage'[i] = "ok"}
        = {i \in Listeners : stage[i] = "ok"}
  OBVIOUS
<1>4. {<<TabUrl(l), got[l].code>> :
          l \in {i \in Listeners : stage[i] = "ok"}}'
        = {<<TabUrl(l), got[l].code>> :
             l \in {i \in Listeners : stage[i] = "ok"}}
  BY <1>2, <1>3
<1>5. Told' = Told
  BY <1>4 DEF Told, toolVars
<1> QED
  BY <1>1, <1>5 DEF Promise!avars, Issued, Told

\* What the browser asks of the listeners is hidden from Authorization, and so
\* is the beginning of a call.
LEMMA BrowserHidden ==
  ASSUME JInv,
         \/ \E r \in Requests : Visited(r)
         \/ \E l \in Listeners, c \in Consents, a \in Addrs :
              BrowserBegin(l, c, a)
  PROVE  UNCHANGED Promise!avars
<1>1. ASSUME NEW r \in Requests, Visited(r)
      PROVE  UNCHANGED <<grants, token, redeemed, toolVars, tabs, consentOf,
                         stage, got>>
  BY <1>1, BrowserSteps
  DEF Visited, B!Redirected, B!Stray, B!Handled, B!world, B!Visit, B!Handle,
    B!HandleCode, B!HandleError, B!HandleOther, B!Handling, B!Respond
<1>2. CASE \E r \in Requests : Visited(r)
  BY <1>1, <1>2, HiddenStep
<1>3. ASSUME NEW l \in Listeners, NEW c \in Consents, NEW a \in Addrs,
             BrowserBegin(l, c, a)
      PROVE  UNCHANGED Promise!avars
  <2>1. B!Start(l, a) \/ B!StartFails(l, a) \/ B!AddrRefused(l)
    BY <1>3, BrowserSteps
  <2>2. /\ UNCHANGED <<grants, token, redeemed, toolVars, tabs, got>>
        /\ consentOf' = [consentOf EXCEPT ![l] = c]
        /\ stage[l] = "start"
        /\ \E s \in {"bound", "failed"} : stage' = [stage EXCEPT ![l] = s]
    BY <1>3, <2>1 DEF BrowserBegin, B!Start, B!StartFails, B!AddrRefused,
      B!Go, B!world, B!lvars, B!ListenForCode
  <2>3. \A m \in Listeners : stage'[m] = "ok" <=> stage[m] = "ok"
    BY <2>2 DEF JInv, B!FlowInv, B!CTypeOK
  <2>4. \A m \in tabs : consentOf'[m] = consentOf[m]
    BY <2>2 DEF JInv, JTypeOK, TabsBegun, B!FlowInv, B!CTypeOK
  <2>5. QED
    BY <2>2, <2>3, <2>4, HiddenStep
<1> QED
  BY <1>2, <1>3

\* A browser call's step is a step of Authorization or hidden from it.
LEMMA BrowserRefines ==
  ASSUME JInv, NEW l \in Listeners, BrowserStep(l)
  PROVE  [Promise!ANext]_Promise!avars
<1> USE DEF Promise!avars
<1>1. /\ B!CallStep(l) \/ B!Cancelled(l)
      /\ UNCHANGED <<grants, toolVars, consentOf>>
  BY BrowserSteps DEF BrowserStep
<1>2. /\ stage \in [Listeners -> B!Stages] /\ tabs \subseteq Listeners
      /\ JTypeOK
  BY DEF JInv, B!FlowInv, B!CTypeOK
<1>3. \A m \in Listeners : TabUrl(m)' = TabUrl(m)
  BY <1>1 DEF TabUrl
<1>4. tabs' = tabs => Issued' = Issued
  BY <1>1, <1>2, <1>3 DEF Issued, toolVars
<1>5. ASSUME UNCHANGED got,
             \A m \in Listeners : stage'[m] = "ok" <=> stage[m] = "ok"
      PROVE  Told' = Told
  <2>1. {i \in Listeners : stage'[i] = "ok"}
          = {i \in Listeners : stage[i] = "ok"}
    BY <1>5
  <2>2. QED
    BY <1>1, <1>3, <1>5, <2>1 DEF Told, toolVars
<1>6. ASSUME B!OpenURL(l)
      PROVE  Promise!ANext
  <2> DEFINE u == TabUrl(l)
  <2>1. stage[l] = "bound" /\ stage' = [stage EXCEPT ![l] = "opened"]
    BY <1>6 DEF B!OpenURL, B!Go
  <2>2. consentOf[l] \in Consents
    BY <1>2, <2>1 DEF JTypeOK
  <2>3. /\ u \in AuthUrl
        /\ u \notin [consent : Consents, state : {ForeignState, EmptyState}]
    BY <2>2, LocalAssumption DEF AuthUrl, TabUrl
  <2>4. Told' = Told
    BY <1>2, <1>5, <1>6, <2>1 DEF B!OpenURL, B!lvars
  <2>5. /\ tabs' = tabs \cup {l}
        /\ UNCHANGED <<redeemed, token>>
    BY <1>6 DEF B!OpenURL
  <2>6. {TabUrl(m) : m \in tabs}' = {TabUrl(m) : m \in tabs} \cup {u}
    BY <1>2, <1>3, <2>5
  <2>7. Issued' = Issued \cup {u}
    BY <1>1, <2>6 DEF Issued, toolVars
  <2> HIDE DEF u
  <2>8. Promise!Issue(u)
    BY <1>1, <2>3, <2>4, <2>5, <2>7 DEF Promise!Issue, Issued, Told
  <2>9. QED
    BY <2>3, <2>8 DEF Promise!ANext
<1>7. ASSUME B!BankRedeems(l)
      PROVE  Promise!ANext
  <2>1. PICK x \in Codes : x = got[l].code /\ grants[x] \in Issued
    BY <1>7, TabFlight DEF B!BankRedeems, B!Go, B!Committed, Issued
  <2>2. Told' = Told /\ Issued' = Issued
    BY <1>2, <1>4, <1>5, <1>7 DEF B!BankRedeems, B!Go, B!lvars
  <2>3. Promise!Spend(x)
    BY <1>1, <1>7, <2>1, <2>2 DEF B!BankRedeems, Promise!Spend, Issued, Told
  <2>4. QED
    BY <2>3 DEF Promise!ANext
<1>8. ASSUME B!StoreToken(l)
      PROVE  Promise!ANext
  <2>1. PICK x \in Codes : x = got[l].code
    BY <1>8, TabFlight DEF B!StoreToken, B!Go, B!Committed, B!Exchanged
  <2>2. x \in redeemed
    BY <1>8, <2>1 DEF B!StoreToken, B!Go, JInv, B!FlowInv, B!StageKnown,
      B!Exchanged
  <2>3. Told' = Told /\ Issued' = Issued
    BY <1>2, <1>4, <1>5, <1>8 DEF B!StoreToken, B!Go, B!lvars
  <2>4. Promise!Keep(x)
    BY <1>1, <1>8, <2>1, <2>2, <2>3 DEF B!StoreToken, Promise!Keep, Issued,
      Told
  <2>5. QED
    BY <2>4 DEF Promise!ANext
<1>9. ASSUME B!Return(l), stage[l] = "stored"
      PROVE  Promise!ANext
  <2>1. PICK x \in Codes : x = got[l].code /\ grants[x] = TabUrl(l)
    BY <1>9, TabFlight DEF B!Committed, B!Exchanged
  <2>2. x \in redeemed /\ token # None
    BY <1>9, <2>1 DEF JInv, B!FlowInv, B!StageKnown, B!Exchanged
  <2>3. /\ stage' = [stage EXCEPT ![l] = "ok"]
        /\ UNCHANGED <<got, tabs, redeemed, token>>
    BY <1>9 DEF B!Return, B!Go, B!Close, B!world
  <2>4. {i \in Listeners : stage'[i] = "ok"}
          = {i \in Listeners : stage[i] = "ok"} \cup {l}
    BY <1>2, <2>3
  <2>5. {<<TabUrl(m), got[m].code>> :
            m \in {i \in Listeners : stage[i] = "ok"}}'
          = {<<TabUrl(m), got[m].code>> :
               m \in {i \in Listeners : stage[i] = "ok"}}
              \cup {<<grants[x], x>>}
    BY <1>3, <2>1, <2>3, <2>4
  <2>6. Told' = Told \cup {<<grants[x], x>>}
    BY <1>1, <2>5 DEF Told, toolVars
  <2>7. Promise!Tell(x)
    BY <1>1, <1>4, <2>2, <2>3, <2>6 DEF Promise!Tell, Issued, Told
  <2>8. QED
    BY <2>7 DEF Promise!ANext
<1>10. ASSUME B!Receive(l)
       PROVE  UNCHANGED Promise!avars
  <2>1. \A m \in Listeners \ {l} : got'[m] = got[m]
    BY <1>10 DEF B!Receive, B!WaitReturns, B!WaitCode, B!WaitError,
      B!WaitCancelled, JInv, B!FlowInv, B!CTypeOK, B!LTypeOK
  <2>2. stage[l] # "ok"
    BY <1>10 DEF B!Receive, B!WaitReturns, B!WaitCode, B!WaitError,
      B!WaitCancelled, JInv, B!FlowInv, B!StageKnown, B!Committed,
      B!Exchanged
  <2>3. QED
    BY <1>1, <1>10, <2>1, <2>2, HiddenStep DEF B!Receive, B!world
<1>11. ASSUME UNCHANGED <<token, redeemed, tabs, got>>,
              \/ stage' = stage
              \/ \E s \in B!Stages \ {"ok"} :
                   stage[l] # "ok" /\ stage' = [stage EXCEPT ![l] = s]
       PROVE  UNCHANGED Promise!avars
  <2>1. \A m \in Listeners : stage'[m] = "ok" <=> stage[m] = "ok"
    BY <1>2, <1>11
  <2>2. QED
    BY <1>1, <1>11, <2>1, HiddenStep
<1>12. \/ B!OpenURL(l) \/ B!BankRedeems(l) \/ B!StoreToken(l)
       \/ B!Return(l) /\ stage[l] = "stored"
       \/ B!Receive(l)
       \/ /\ UNCHANGED <<token, redeemed, tabs, got>>
          /\ \/ stage' = stage
             \/ \E s \in B!Stages \ {"ok"} :
                  stage[l] # "ok" /\ stage' = [stage EXCEPT ![l] = s]
  BY <1>1 DEF B!CallStep, B!Cancelled, B!Cancel, B!Await, B!Wait, B!Proceed,
    B!Refuse, B!ExchangeFails, B!Return, B!Close, B!Go, B!Stages, B!lvars,
    B!world
<1> QED
  BY <1>6, <1>7, <1>8, <1>9, <1>10, <1>11, <1>12

\* An approval of either kind of URL is a Grant.
LEMMA ApprovesRefines ==
  ASSUME JInv, NEW u \in AuthUrl, NEW x \in Codes, PSUApproves(u, x)
  PROVE  Promise!ANext
<1>1. /\ grants[x] = None /\ grants' = [grants EXCEPT ![x] = u]
      /\ UNCHANGED <<token, redeemed, toolVars, browserVars, consentOf>>
  BY DEF PSUApproves
<1>2. u \in Issued \cup [consent : Consents,
                         state : {ForeignState, EmptyState}]
  BY DEF PSUApproves, Issued, AuthUrl
<1>3. Issued' = Issued /\ Told' = Told
  BY <1>1 DEF Issued, Told, TabUrl, toolVars, browserVars
<1>4. Promise!Grant(u, x)
  BY <1>1, <1>2, <1>3 DEF Promise!Grant, Issued, Told
<1> QED
  BY <1>4 DEF Promise!ANext

\* The local connector as a whole implements Authorization: the two flows
\* share the browser, the bridge and the token, and show nothing that one
\* flow alone would not (KeepsPromise).
THEOREM LocalRefines == Spec => KeepsPromise
<1>1. Init => Promise!AInit
  BY DEF Init, Tools!Init, Browser!CInit, Browser!LInit, Promise!AInit
<1>2. JInv /\ [Next]_avars => [Promise!ANext]_Promise!avars
  <2> SUFFICES ASSUME JInv, [Next]_avars
               PROVE  [Promise!ANext]_Promise!avars
    OBVIOUS
  <2>1. CASE UNCHANGED avars
    BY <2>1 DEF avars, toolVars, browserVars, Promise!avars, TabUrl
  <2> QED
    BY <2>1, ToolRefines, BrowserHidden, BrowserRefines, ApprovesRefines
    DEF Next
<1> QED
  BY <1>1, <1>2, JInvariance, PTL DEF Spec, KeepsPromise, Promise!ASpec
=============================================================================
