-------------------------- MODULE ConnectorProofs --------------------------
(***************************************************************************)
(* The connector keeps its promises for any number of concurrent calls,    *)
(* consents, states and codes.  ToolsInv is inductive: one lemma per       *)
(* action shows that the action preserves it, conjunct by conjunct, the    *)
(* conjuncts that the action cannot disturb together in the last step.  It *)
(* survives others who use the client's token and the token endpoint       *)
(* (OthersStep); IInv adds what holds without them.                        *)
(***************************************************************************)
EXTENDS Connector, TLAPS

\* The inductive invariant holds in the connector's initial state.
LEMMA InitIInv == Init => IInv
<1> SUFFICES ASSUME Init PROVE IInv
  OBVIOUS
<1>1. TypeOK
  BY DEF Init, TypeOK, Call, Phases, Idle
<1>2. CreatedUnissued /\ InFlightChecked
  BY DEF Init, CreatedUnissued, InFlightChecked, InFlight, Idle
<1>3. /\ UrlsUnique
      /\ PendingIssued
      /\ GrantsKnown
      /\ AuthorizedChecked
      /\ NoForeignExchange
      /\ NoReplay
  BY DEF Init, UrlsUnique, PendingIssued, GrantsKnown, AuthorizedChecked,
    NoForeignExchange, NoReplay
<1> QED
  BY <1>1, <1>2, <1>3 DEF IInv, ToolsInv

-----------------------------------------------------------------------------
\* CreateBegin preserves ToolsInv.
LEMMA CreateBeginStep ==
  ASSUME ToolsInv, NEW k \in Calls, NEW hasIBAN \in BOOLEAN, CreateBegin(k,
         hasIBAN)
  PROVE  ToolsInv'
<1> USE DEF ToolsInv
<1>1. TypeOK'
  BY DEF CreateBegin, bank, TypeOK, Url, AnyState, Call, Phases, Idle
<1>2. CreatedUnissued'
  BY DEF CreateBegin, bank, CreatedUnissued, TypeOK, Call, Idle
<1>3. InFlightChecked'
  BY DEF CreateBegin, bank, InFlightChecked, InFlight, TypeOK, Call, Idle
<1>4. /\ UrlsUnique'
      /\ PendingIssued'
      /\ GrantsKnown'
      /\ AuthorizedChecked'
      /\ NoReplay'
  BY DEF CreateBegin, bank, UrlsUnique, PendingIssued, GrantsKnown,
    AuthorizedChecked, NoReplay
<1> QED
  BY <1>1, <1>2, <1>3, <1>4

\* BankCreates preserves ToolsInv.
LEMMA BankCreatesStep ==
  ASSUME ToolsInv, NEW k \in Calls, NEW c \in Consents, BankCreates(k, c)
  PROVE  ToolsInv'
<1> USE DEF ToolsInv
<1>1. TypeOK'
  BY DEF BankCreates, bank, TypeOK, Url, AnyState, Call, Phases
<1>2. CreatedUnissued'
  BY DEF BankCreates, bank, CreatedUnissued, TypeOK, Call
<1>3. InFlightChecked'
  BY DEF BankCreates, bank, InFlightChecked, InFlight, TypeOK, Call
<1>4. /\ UrlsUnique'
      /\ PendingIssued'
      /\ GrantsKnown'
      /\ AuthorizedChecked'
      /\ NoReplay'
  BY DEF BankCreates, bank, UrlsUnique, PendingIssued, GrantsKnown,
    AuthorizedChecked, NoReplay
<1> QED
  BY <1>1, <1>2, <1>3, <1>4

\* StoreState preserves ToolsInv.
LEMMA StoreStateStep ==
  ASSUME ToolsInv, NEW k \in Calls, NEW s \in States, StoreState(k, s)
  PROVE  ToolsInv'
<1> USE DEF ToolsInv
<1>1. TypeOK'
  <2>1. call[k].consent \in Consents
    BY DEF StoreState, Advance, CreatedUnissued, TypeOK
  <2>2. QED
    BY <2>1 DEF StoreState, Advance, bank, TypeOK, Url, AnyState, Call,
      Phases
<1>2. UrlsUnique'
  BY DEF StoreState, Advance, bank, UrlsUnique, TypeOK, CreatedUnissued, Call
<1>3. PendingIssued'
  BY DEF StoreState, Advance, bank, PendingIssued, TypeOK
<1>4. CreatedUnissued'
  BY DEF StoreState, Advance, bank, CreatedUnissued, TypeOK, Call
<1>5. GrantsKnown'
  BY DEF StoreState, Advance, bank, GrantsKnown, TypeOK
<1>6. InFlightChecked'
  BY DEF StoreState, Advance, bank, InFlightChecked, InFlight, TypeOK, Call
<1>7. AuthorizedChecked'
  BY DEF StoreState, Advance, bank, AuthorizedChecked, TypeOK, Url, AnyState
<1>8. NoReplay'
  BY DEF StoreState, Advance, bank, NoReplay, TypeOK, AuthorizedChecked
<1> QED
  BY <1>1, <1>2, <1>3, <1>4, <1>5, <1>6, <1>7, <1>8

\* CreateFails preserves ToolsInv.
LEMMA CreateFailsStep ==
  ASSUME ToolsInv, NEW k \in Calls, CreateFails(k)
  PROVE  ToolsInv'
<1> USE DEF ToolsInv
<1>1. TypeOK'
  BY DEF CreateFails, Fail, bank, TypeOK, Url, AnyState, Call, Phases
<1>2. CreatedUnissued'
  BY DEF CreateFails, Fail, bank, CreatedUnissued, TypeOK, Call
<1>3. InFlightChecked'
  BY DEF CreateFails, Fail, bank, InFlightChecked, InFlight, TypeOK, Call
<1>4. /\ UrlsUnique'
      /\ PendingIssued'
      /\ GrantsKnown'
      /\ AuthorizedChecked'
      /\ NoReplay'
  BY DEF CreateFails, Fail, bank, UrlsUnique, PendingIssued, GrantsKnown,
    AuthorizedChecked, NoReplay
<1> QED
  BY <1>1, <1>2, <1>3, <1>4

\* PSUApproves preserves ToolsInv.
LEMMA PSUApprovesStep ==
  ASSUME ToolsInv, NEW u \in Url, NEW x \in Codes, PSUApproves(u, x)
  PROVE  ToolsInv'
<1> USE DEF ToolsInv
<1>1. TypeOK'
  BY DEF PSUApproves, bank, TypeOK, Url, AnyState, Call, Phases
<1>2. GrantsKnown'
  BY DEF PSUApproves, bank, GrantsKnown, TypeOK
<1>3. InFlightChecked'
  BY ConstantsAssumption DEF PSUApproves, bank, InFlightChecked, InFlight,
    TypeOK, Call, Url, AnyState
<1>4. AuthorizedChecked'
  <2>1. SUFFICES ASSUME NEW a \in authorized, PairedInputs
                 PROVE  a.code # x
    BY DEF PSUApproves, bank, AuthorizedChecked, TypeOK
  <2>2. grants[a.code] = [consent |-> a.consent, state |-> a.state]
    BY <2>1 DEF AuthorizedChecked
  <2>3. [consent |-> a.consent, state |-> a.state] \in Url
    BY DEF AuthorizedChecked, TypeOK, Url, AnyState
  <2>4. QED
    BY <2>2, <2>3, ConstantsAssumption DEF PSUApproves
<1>5. /\ UrlsUnique'
      /\ PendingIssued'
      /\ CreatedUnissued'
      /\ NoReplay'
  BY DEF PSUApproves, bank, UrlsUnique, PendingIssued, CreatedUnissued,
    NoReplay
<1> QED
  BY <1>1, <1>2, <1>3, <1>4, <1>5

\* SubmitCheck preserves ToolsInv.
LEMMA SubmitCheckStep ==
  ASSUME ToolsInv, NEW k \in Calls, NEW c \in Consents, NEW x \in Codes, NEW s
         \in AnyState, SubmitCheck(k, c, x, s)
  PROVE  ToolsInv'
<1> USE DEF ToolsInv
<1>1. TypeOK'
  BY DEF SubmitCheck, bank, TypeOK, Url, AnyState, Call, Phases, Idle
<1>2. CreatedUnissued'
  BY DEF SubmitCheck, bank, CreatedUnissued, TypeOK, Call, Idle
<1>3. InFlightChecked'
  <2>1. ASSUME StateMatches(c, s)
        PROVE  [consent |-> c, state |-> s] \in urls /\ s \in States
    BY <2>1 DEF StateMatches, PendingIssued, TypeOK
  <2>2. ASSUME StateMatches(c, s), PairedInputs
        PROVE  grants[x] = [consent |-> c, state |-> s]
    <3>1. grants[x] # None /\ grants[x].state = s
      BY <2>2 DEF SubmitCheck, Inputs
    <3>2. grants[x] \in urls
      BY <2>1, <2>2, <3>1, ConstantsAssumption DEF GrantsKnown
    <3>3. QED
      BY <2>1, <2>2, <3>1, <3>2 DEF UrlsUnique
  <2>3. ASSUME StateMatches(c, s)
        PROVE  call'[k] = [pc |-> "exchanging", consent |-> c,
                           state |-> s, code |-> x]
    BY <2>3 DEF SubmitCheck, TypeOK
  <2>4. ASSUME ~StateMatches(c, s)
        PROVE  call'[k].pc = "error"
    BY <2>4 DEF SubmitCheck, TypeOK
  <2>5. ASSUME NEW j \in Calls, j # k
        PROVE  call'[j] = call[j]
    BY <2>5 DEF SubmitCheck, TypeOK
  <2>6. /\ urls' = urls
        /\ grants' = grants
        /\ redeemed' = redeemed
        /\ token' = token
    BY DEF SubmitCheck, bank
  <2>7. QED
    BY <2>1, <2>2, <2>3, <2>4, <2>5, <2>6 DEF InFlightChecked, InFlight
<1>4. /\ UrlsUnique'
      /\ PendingIssued'
      /\ GrantsKnown'
      /\ AuthorizedChecked'
      /\ NoReplay'
  BY DEF SubmitCheck, bank, UrlsUnique, PendingIssued, GrantsKnown,
    AuthorizedChecked, NoReplay
<1> QED
  BY <1>1, <1>2, <1>3, <1>4

\* BankRedeems preserves ToolsInv.
LEMMA BankRedeemsStep ==
  ASSUME ToolsInv, NEW k \in Calls, BankRedeems(k)
  PROVE  ToolsInv'
<1> USE DEF ToolsInv
<1>1. TypeOK'
  <2>1. call[k].code \in Codes
    BY DEF BankRedeems, Advance, InFlightChecked, InFlight
  <2>2. QED
    BY <2>1 DEF BankRedeems, Advance, TypeOK, Call, Phases
<1>2. CreatedUnissued'
  BY DEF BankRedeems, Advance, bank, CreatedUnissued, TypeOK, Call
<1>3. InFlightChecked'
  BY DEF BankRedeems, Advance, bank, InFlightChecked, InFlight, TypeOK, Call
<1>4. /\ UrlsUnique'
      /\ PendingIssued'
      /\ GrantsKnown'
      /\ AuthorizedChecked'
      /\ NoReplay'
  BY DEF BankRedeems, Advance, bank, UrlsUnique, PendingIssued, GrantsKnown,
    AuthorizedChecked, NoReplay
<1> QED
  BY <1>1, <1>2, <1>3, <1>4

\* StoreToken preserves ToolsInv.
LEMMA StoreTokenStep ==
  ASSUME ToolsInv, NEW k \in Calls, StoreToken(k)
  PROVE  ToolsInv'
<1> USE DEF ToolsInv
<1>1. TypeOK'
  BY DEF StoreToken, Advance, bank, TypeOK, Url, AnyState, Call, Phases
<1>2. CreatedUnissued'
  BY DEF StoreToken, Advance, bank, CreatedUnissued, TypeOK, Call
<1>3. InFlightChecked'
  <2>1. call[k].code \in Codes /\ token' = call[k].code
    BY DEF StoreToken, Advance, InFlightChecked, InFlight
  <2>2. token' # None
    BY <2>1, ConstantsAssumption
  <2>3. QED
    BY <2>2 DEF StoreToken, Advance, bank, InFlightChecked, InFlight, TypeOK,
      Call
<1>4. /\ UrlsUnique'
      /\ PendingIssued'
      /\ GrantsKnown'
      /\ AuthorizedChecked'
      /\ NoReplay'
  BY DEF StoreToken, Advance, bank, UrlsUnique, PendingIssued, GrantsKnown,
    AuthorizedChecked, NoReplay
<1> QED
  BY <1>1, <1>2, <1>3, <1>4

\* ExchangeFails preserves ToolsInv.
LEMMA ExchangeFailsStep ==
  ASSUME ToolsInv, NEW k \in Calls, ExchangeFails(k)
  PROVE  ToolsInv'
<1> USE DEF ToolsInv
<1>1. TypeOK'
  BY DEF ExchangeFails, Fail, bank, TypeOK, Url, AnyState, Call, Phases
<1>2. CreatedUnissued'
  BY DEF ExchangeFails, Fail, bank, CreatedUnissued, TypeOK, Call
<1>3. InFlightChecked'
  BY DEF ExchangeFails, Fail, bank, InFlightChecked, InFlight, TypeOK, Call
<1>4. /\ UrlsUnique'
      /\ PendingIssued'
      /\ GrantsKnown'
      /\ AuthorizedChecked'
      /\ NoReplay'
  BY DEF ExchangeFails, Fail, bank, UrlsUnique, PendingIssued, GrantsKnown,
    AuthorizedChecked, NoReplay
<1> QED
  BY <1>1, <1>2, <1>3, <1>4

\* SubmitDone preserves ToolsInv.
LEMMA SubmitDoneStep ==
  ASSUME ToolsInv, NEW k \in Calls, SubmitDone(k)
  PROVE  ToolsInv'
<1> USE DEF ToolsInv
<1>a. /\ [consent |-> call[k].consent, state |-> call[k].state] \in urls
      /\ call[k].code \in Codes
      /\ PairedInputs => grants[call[k].code] =
           [consent |-> call[k].consent, state |-> call[k].state]
  BY DEF SubmitDone, Advance, InFlightChecked, InFlight
<1>b. call[k].consent \in Consents /\ call[k].state \in States
  BY <1>a DEF TypeOK
<1> DEFINE answer == [consent |-> call[k].consent, state |-> call[k].state,
                      code |-> call[k].code]
<1>c. authorized' = authorized \cup {answer}
  BY DEF SubmitDone, Answered
<1>d. answer.consent = call[k].consent /\ answer.state = call[k].state
        /\ answer.code = call[k].code
  OBVIOUS
<1> HIDE DEF answer
<1>1. TypeOK'
  <2>1. answer \in [consent : Consents, state : States, code : Codes]
    BY <1>a, <1>b DEF answer
  <2>2. QED
    BY <1>b, <1>c, <2>1 DEF SubmitDone, Advance, bank, TypeOK, Call, Phases
<1>2. PendingIssued'
  BY DEF SubmitDone, Advance, bank, PendingIssued, TypeOK
<1>3. CreatedUnissued'
  BY DEF SubmitDone, Advance, bank, CreatedUnissued, TypeOK, Call
<1>4. InFlightChecked'
  BY DEF SubmitDone, Advance, bank, InFlightChecked, InFlight, TypeOK, Call
<1>5. AuthorizedChecked'
  BY <1>a, <1>c, <1>d DEF SubmitDone, bank, AuthorizedChecked
<1>6. NoReplay'
  <2>1. ASSUME NEW a \in authorized'
        PROVE  a.consent \in Consents /\ a.state # None
    BY <1>b, <1>c, <1>d, <2>1, ConstantsAssumption DEF TypeOK, AnyState
  <2>2. states'[call[k].consent] = None
    BY <1>b DEF SubmitDone, TypeOK
  <2>3. ASSUME NEW d \in Consents, d # call[k].consent
        PROVE  states'[d] = states[d]
    BY <2>3 DEF SubmitDone, TypeOK
  <2>4. QED
    BY <1>c, <1>d, <2>1, <2>2, <2>3 DEF NoReplay
<1>7. /\ UrlsUnique'
      /\ GrantsKnown'
  BY DEF SubmitDone, Advance, bank, UrlsUnique, GrantsKnown
<1> QED
  BY <1>1, <1>2, <1>3, <1>4, <1>5, <1>6, <1>7

\* ReadSend preserves ToolsInv.
LEMMA ReadSendStep ==
  ASSUME ToolsInv, NEW k \in Calls, NEW c \in Consents, ReadSend(k, c)
  PROVE  ToolsInv'
<1> USE DEF ToolsInv
<1>1. TypeOK'
  BY DEF ReadSend, Idle, bank, TypeOK, Url, AnyState, Call, Phases
<1>2. CreatedUnissued'
  BY DEF ReadSend, Idle, bank, CreatedUnissued, TypeOK, Call
<1>3. InFlightChecked'
  BY DEF ReadSend, Idle, bank, InFlightChecked, InFlight, TypeOK, Call
<1>4. /\ UrlsUnique'
      /\ PendingIssued'
      /\ GrantsKnown'
      /\ AuthorizedChecked'
      /\ NoReplay'
  BY DEF ReadSend, Idle, bank, UrlsUnique, PendingIssued, GrantsKnown,
    AuthorizedChecked, NoReplay
<1> QED
  BY <1>1, <1>2, <1>3, <1>4

\* BankServes preserves ToolsInv.
LEMMA BankServesStep ==
  ASSUME ToolsInv, NEW k \in Calls, BankServes(k)
  PROVE  ToolsInv'
<1> USE DEF ToolsInv
<1>1. TypeOK'
  BY DEF BankServes, Advance, bank, TypeOK, Url, AnyState, Call, Phases
<1>2. CreatedUnissued'
  BY DEF BankServes, Advance, bank, CreatedUnissued, TypeOK, Call
<1>3. InFlightChecked'
  BY DEF BankServes, Advance, bank, InFlightChecked, InFlight, TypeOK, Call
<1>4. /\ UrlsUnique'
      /\ PendingIssued'
      /\ GrantsKnown'
      /\ AuthorizedChecked'
      /\ NoReplay'
  BY DEF BankServes, Advance, bank, UrlsUnique, PendingIssued, GrantsKnown,
    AuthorizedChecked, NoReplay
<1> QED
  BY <1>1, <1>2, <1>3, <1>4

\* ReadFails preserves ToolsInv.
LEMMA ReadFailsStep ==
  ASSUME ToolsInv, NEW k \in Calls, ReadFails(k)
  PROVE  ToolsInv'
<1> USE DEF ToolsInv
<1>1. TypeOK'
  BY DEF ReadFails, Fail, bank, TypeOK, Url, AnyState, Call, Phases
<1>2. CreatedUnissued'
  BY DEF ReadFails, Fail, bank, CreatedUnissued, TypeOK, Call
<1>3. InFlightChecked'
  BY DEF ReadFails, Fail, bank, InFlightChecked, InFlight, TypeOK, Call
<1>4. /\ UrlsUnique'
      /\ PendingIssued'
      /\ GrantsKnown'
      /\ AuthorizedChecked'
      /\ NoReplay'
  BY DEF ReadFails, Fail, bank, UrlsUnique, PendingIssued, GrantsKnown,
    AuthorizedChecked, NoReplay
<1> QED
  BY <1>1, <1>2, <1>3, <1>4

\* Return preserves ToolsInv.
LEMMA ReturnStep ==
  ASSUME ToolsInv, NEW k \in Calls, Return(k)
  PROVE  ToolsInv'
<1> USE DEF ToolsInv
<1>1. TypeOK'
  BY DEF Return, Idle, bank, TypeOK, Url, AnyState, Call, Phases
<1>2. CreatedUnissued'
  BY DEF Return, Idle, bank, CreatedUnissued, TypeOK, Call
<1>3. InFlightChecked'
  BY DEF Return, Idle, bank, InFlightChecked, InFlight, TypeOK, Call
<1>4. /\ UrlsUnique'
      /\ PendingIssued'
      /\ GrantsKnown'
      /\ AuthorizedChecked'
      /\ NoReplay'
  BY DEF Return, Idle, bank, UrlsUnique, PendingIssued, GrantsKnown,
    AuthorizedChecked, NoReplay
<1> QED
  BY <1>1, <1>2, <1>3, <1>4

\* Restart preserves ToolsInv.
LEMMA RestartStep ==
  ASSUME ToolsInv, Restart
  PROVE  ToolsInv'
<1> USE DEF ToolsInv
<1>1. TypeOK'
  BY DEF Restart, Idle, bank, TypeOK, Url, AnyState, Call, Phases
<1>2. PendingIssued'
  BY DEF Restart, Idle, bank, PendingIssued, TypeOK
<1>3. CreatedUnissued'
  BY DEF Restart, Idle, bank, CreatedUnissued, TypeOK, Call
<1>4. InFlightChecked'
  BY DEF Restart, Idle, bank, InFlightChecked, InFlight, TypeOK, Call
<1>5. NoReplay'
  <2>1. ASSUME NEW a \in authorized
        PROVE  a.consent \in Consents /\ a.state # None
    BY ConstantsAssumption DEF TypeOK, AnyState
  <2>2. QED
    BY <2>1 DEF Restart, NoReplay
<1>6. /\ UrlsUnique'
      /\ GrantsKnown'
      /\ AuthorizedChecked'
  BY DEF Restart, Idle, bank, UrlsUnique, GrantsKnown, AuthorizedChecked
<1> QED
  BY <1>1, <1>2, <1>3, <1>4, <1>5, <1>6
-----------------------------------------------------------------------------
\* Every step of the connector preserves ToolsInv.
LEMMA ToolsNext ==
  ASSUME ToolsInv, [Next]_vars
  PROVE  ToolsInv'
<1>1. ASSUME NEW k \in Calls, CallBegin(k)
      PROVE  ToolsInv'
  BY <1>1, CreateBeginStep, SubmitCheckStep, ReadSendStep DEF CallBegin
<1>2. ASSUME NEW k \in Calls, CallStep(k)
      PROVE  ToolsInv'
  BY <1>2, BankCreatesStep, StoreStateStep, CreateFailsStep, BankRedeemsStep,
    StoreTokenStep, ExchangeFailsStep, SubmitDoneStep, BankServesStep,
    ReadFailsStep, ReturnStep DEF CallStep
<1>3. ASSUME NEW u \in Url, NEW x \in Codes, PSUApproves(u, x)
      PROVE  ToolsInv'
  BY <1>3, PSUApprovesStep
<1>4. ASSUME Restart
      PROVE  ToolsInv'
  BY <1>4, RestartStep
<1>5. ASSUME UNCHANGED vars
      PROVE  ToolsInv'
  BY <1>5 DEF vars, ToolsInv, TypeOK, UrlsUnique, PendingIssued,
    CreatedUnissued, GrantsKnown, InFlightChecked, AuthorizedChecked, NoReplay
<1> QED
  BY <1>1, <1>2, <1>3, <1>4, <1>5 DEF Next

\* So does whoever else redeems codes at the bank and stores their tokens.
LEMMA OthersStep ==
  ASSUME ToolsInv,
         UNCHANGED <<states, call, created, urls, grants, authorized>>,
         redeemed \subseteq redeemed', redeemed' \subseteq Codes,
         token' \in Codes \cup {None}, token # None => token' # None
  PROVE  ToolsInv'
<1>1. TypeOK'
  BY DEF ToolsInv, TypeOK
<1>2. InFlightChecked'
  BY DEF ToolsInv, InFlightChecked, InFlight
<1> QED
  BY <1>1, <1>2 DEF ToolsInv, UrlsUnique, PendingIssued, CreatedUnissued,
    GrantsKnown, AuthorizedChecked, NoReplay

\* No step exchanges the code of a foreign flow, or keeps its token.
LEMMA ForeignNext ==
  ASSUME IInv, [Next]_vars
  PROVE  NoForeignExchange'
<1> USE DEF IInv, ToolsInv, NoForeignExchange
<1>1. ASSUME NEW k \in Calls, NEW s \in States, StoreState(k, s)
      PROVE  NoForeignExchange'
  BY <1>1 DEF StoreState, bank, TypeOK
<1>2. ASSUME NEW u \in Url, NEW x \in Codes, PSUApproves(u, x)
      PROVE  NoForeignExchange'
  BY <1>2, ConstantsAssumption DEF PSUApproves, TypeOK, Url, AnyState
<1>3. ASSUME NEW k \in Calls, BankRedeems(k)
      PROVE  NoForeignExchange'
  <2>1. PairedInputs => grants[call[k].code] \in urls
    BY <1>3 DEF BankRedeems, Advance, InFlightChecked, InFlight
  <2>2. QED
    BY <1>3, <2>1 DEF BankRedeems
<1>4. ASSUME NEW k \in Calls, StoreToken(k)
      PROVE  NoForeignExchange'
  BY <1>4 DEF StoreToken, Advance, bank, InFlightChecked, InFlight
<1>5. CASE Restart
  BY <1>5 DEF Restart, bank
<1>6. CASE UNCHANGED <<urls, grants, redeemed, token>>
  BY <1>6
<1>7. \/ \E k \in Calls, s \in States : StoreState(k, s)
      \/ \E u \in Url, x \in Codes : PSUApproves(u, x)
      \/ \E k \in Calls : BankRedeems(k) \/ StoreToken(k)
      \/ Restart
      \/ UNCHANGED <<urls, grants, redeemed, token>>
  BY DEF Next, vars, bank, CallBegin, CallStep, CreateBegin, BankCreates,
    CreateFails, SubmitCheck, ExchangeFails, SubmitDone, ReadSend, BankServes,
    ReadFails, Return
<1> QED
  BY <1>1, <1>2, <1>3, <1>4, <1>5, <1>6, <1>7

\* Every step of the connector preserves the inductive invariant.
LEMMA NextIInv == IInv /\ [Next]_vars => IInv'
BY ToolsNext, ForeignNext DEF IInv

\* The inductive invariant holds in every reachable state.
THEOREM Invariance == Spec => []IInv
<1>1. Init => IInv
  BY InitIInv
<1>2. IInv /\ [Next]_vars => IInv'
  BY NextIInv
<1> QED
  BY <1>1, <1>2, PTL DEF Spec

\* Every variable of the connector always holds a value of its type.
THEOREM TypeCorrect == Spec => []TypeOK
<1>1. IInv => TypeOK
  BY DEF IInv, ToolsInv
<1> QED
  BY <1>1, Invariance, PTL

\* submit_authorization_code: "authorized" is answered for a consent only
\* after the exchange of a code that was granted for that consent.
THEOREM Binding == Spec => []ConsentBinding
<1>1. ASSUME IInv, PairedInputs, NEW a \in authorized
      PROVE  grants[a.code].consent = a.consent
  <2>1. grants[a.code] = [consent |-> a.consent, state |-> a.state]
    BY <1>1 DEF IInv, ToolsInv, AuthorizedChecked
  <2>2. QED
    BY <2>1
<1>2. IInv => ConsentBinding
  BY <1>1 DEF ConsentBinding
<1> QED
  BY <1>2, Invariance, PTL

\* submit_authorization_code: the redirect of a foreign flow is refused before
\* its code is exchanged, and its token never reaches the client.
THEOREM ForeignRefused == Spec => []NoForeignExchange
<1>1. IInv => NoForeignExchange
  BY DEF IInv, ToolsInv
<1> QED
  BY <1>1, Invariance, PTL

\* submit_authorization_code: a state answered "authorized" is never pending
\* again, across failed calls, other consents and restarts.
THEOREM ReplayRefused == Spec => []NoReplay
<1>1. IInv => NoReplay
  BY DEF IInv, ToolsInv
<1> QED
  BY <1>1, Invariance, PTL

-----------------------------------------------------------------------------
\* The step behind PendingKept.
KeepsPending ==
  \A c \in Consents : states[c] # None /\ states'[c] # states[c] =>
    \/ Restart
    \/ \E k \in Calls :
         /\ call[k].pc = "exchanged" /\ call'[k].pc = "ok"
         /\ call[k].consent = c
         /\ call[k].state = states[c]
         /\ call[k].code \in redeemed

\* Every step keeps the pending states it may not take.
LEMMA StepKeepsPending == IInv /\ [Next]_vars => KeepsPending
<1> SUFFICES ASSUME IInv, [Next]_vars PROVE KeepsPending
  OBVIOUS
<1>1. ASSUME NEW k \in Calls, NEW s \in States, StoreState(k, s)
      PROVE  KeepsPending
  <2>1. /\ call[k].consent \in Consents
        /\ \A u \in urls : u.consent # call[k].consent
    BY <1>1 DEF IInv, ToolsInv, TypeOK, CreatedUnissued, StoreState, Advance
  <2>2. [consent |-> call[k].consent, state |-> states[call[k].consent]]
          \notin urls
    BY <2>1
  <2>3. states[call[k].consent] = None
    BY <2>1, <2>2 DEF IInv, ToolsInv, PendingIssued
  <2>4. QED
    BY <1>1, <2>3 DEF IInv, ToolsInv, TypeOK, StoreState, KeepsPending
<1>2. ASSUME NEW k \in Calls, SubmitDone(k)
      PROVE  KeepsPending
  <2>1. SUFFICES ASSUME NEW c \in Consents, states[c] # None,
                        states'[c] # states[c]
                 PROVE  /\ call[k].pc = "exchanged" /\ call'[k].pc = "ok"
                        /\ call[k].consent = c
                        /\ call[k].state = states[c]
                        /\ call[k].code \in redeemed
    BY DEF KeepsPending
  <2>2. call[k].pc = "exchanged" /\ call'[k].pc = "ok" /\ call[k].consent = c
    BY <1>2, <2>1 DEF SubmitDone, Advance, IInv, ToolsInv, TypeOK
  <2>3. /\ [consent |-> c, state |-> call[k].state] \in urls
        /\ call[k].code \in redeemed
    BY <2>2 DEF IInv, ToolsInv, InFlightChecked, InFlight
  <2>4. [consent |-> c, state |-> states[c]] \in urls
    BY <2>1 DEF IInv, ToolsInv, PendingIssued
  <2>5. call[k].state = states[c]
    BY <2>3, <2>4 DEF IInv, ToolsInv, UrlsUnique
  <2>6. QED
    BY <2>2, <2>3, <2>5
<1>3. CASE Restart
  BY <1>3 DEF KeepsPending
<1>4. CASE UNCHANGED states
  BY <1>4 DEF KeepsPending
<1>5. \/ \E k \in Calls, s \in States : StoreState(k, s)
      \/ \E k \in Calls : SubmitDone(k)
      \/ Restart
      \/ UNCHANGED states
  BY DEF Next, vars, CallBegin, CallStep, CreateBegin, BankCreates,
    CreateFails, PSUApproves, SubmitCheck, BankRedeems, StoreToken,
    ExchangeFails, ReadSend, BankServes, ReadFails, Return
<1> QED
  BY <1>1, <1>2, <1>3, <1>4, <1>5

\* submit_authorization_code: a pending state is lost only to a restart or to
\* the successful exchange it was checked for; a failed exchange keeps it.
THEOREM PendingKeptAlways == Spec => PendingKept
<1>1. IInv /\ [Next]_vars => KeepsPending
  BY StepKeepsPending
<1>2. [][Next]_vars /\ []IInv => [][KeepsPending]_vars
  BY <1>1, PTL
<1> QED
  BY <1>2, Invariance, PTL DEF Spec, PendingKept, KeepsPending
-----------------------------------------------------------------------------
\* With paired inputs a step of a call, of the PSU or a restart is a step of
\* Authorization or leaves what it can see unchanged.
LEMMA StepRefines ==
  ASSUME IInv, IInv', [Next]_vars, PairedInputs
  PROVE  [Promise!ANext]_Promise!avars
<1> DEFINE Told == {<<[consent |-> a.consent, state |-> a.state], a.code>> :
                      a \in authorized}
<1> USE DEF Promise!avars
<1>1. ASSUME NEW k \in Calls, NEW s \in States, StoreState(k, s)
      PROVE  Promise!ANext
  <2>1. call[k].consent \in Consents
    BY <1>1 DEF StoreState, Advance, IInv, ToolsInv, CreatedUnissued, TypeOK
  <2> DEFINE u == [consent |-> call[k].consent, state |-> s]
  <2>2. u \in Url /\ u.state \notin {ForeignState, EmptyState}
    BY <2>1, ConstantsAssumption DEF Url, AnyState
  <2>3. Promise!Issue(u)
    BY <1>1, <2>2 DEF StoreState, bank, Promise!Issue
  <2>4. QED
    BY <2>2, <2>3 DEF Promise!ANext
<1>2. ASSUME NEW u \in Url, NEW x \in Codes, PSUApproves(u, x)
      PROVE  Promise!ANext
  <2>1. u.state \in {ForeignState, EmptyState} =>
          u \in [consent : Consents, state : {ForeignState, EmptyState}]
    BY DEF Url
  <2>2. Promise!Grant(u, x)
    BY <1>2, <2>1 DEF PSUApproves, Promise!Grant
  <2>3. QED
    BY <2>2 DEF Promise!ANext
<1>3. ASSUME NEW k \in Calls, BankRedeems(k)
      PROVE  Promise!ANext
  <2>1. call[k].code \in Codes /\ grants[call[k].code] \in urls
    BY <1>3 DEF BankRedeems, Advance, IInv, ToolsInv, InFlightChecked, InFlight
  <2>2. Promise!Spend(call[k].code)
    BY <1>3, <2>1 DEF BankRedeems, Promise!Spend
  <2>3. QED
    BY <2>1, <2>2 DEF Promise!ANext
<1>4. ASSUME NEW k \in Calls, StoreToken(k)
      PROVE  Promise!ANext
  <2>1. call[k].code \in Codes /\ call[k].code \in redeemed
    BY <1>4 DEF StoreToken, Advance, IInv, ToolsInv, InFlightChecked, InFlight
  <2>2. Promise!Keep(call[k].code)
    BY <1>4, <2>1 DEF StoreToken, bank, Promise!Keep
  <2>3. QED
    BY <2>1, <2>2 DEF Promise!ANext
<1>5. ASSUME NEW k \in Calls, SubmitDone(k)
      PROVE  Promise!ANext
  <2> DEFINE u == [consent |-> call[k].consent, state |-> call[k].state]
  <2> DEFINE answer == [consent |-> call[k].consent,
                        state |-> call[k].state, code |-> call[k].code]
  <2>1. /\ call[k].code \in Codes /\ call[k].code \in redeemed
        /\ grants[call[k].code] = u
        /\ token # None
    BY <1>5 DEF SubmitDone, Advance, IInv, ToolsInv, InFlightChecked, InFlight
  <2>2. authorized' = authorized \cup {answer}
    BY <1>5 DEF SubmitDone, Answered
  <2>3. /\ [consent |-> answer.consent, state |-> answer.state] = u
        /\ answer.code = call[k].code
    OBVIOUS
  <2>4. Told' = Told \cup {<<u, call[k].code>>}
    <3> HIDE DEF answer, u
    <3> QED
      BY <2>2, <2>3
  <2>5. PICK x \in Codes : x = call[k].code
    BY <2>1
  <2>6. Promise!Tell(x)
    BY <1>5, <2>1, <2>4, <2>5 DEF SubmitDone, bank, Promise!Tell
  <2>7. QED
    BY <2>6 DEF Promise!ANext
<1>6. CASE Restart
  BY <1>6 DEF Restart, bank, Promise!ANext, Promise!Forget
<1>7. CASE UNCHANGED <<urls, grants, redeemed, token, authorized>>
  BY <1>7
<1>8. \/ \E k \in Calls, s \in States : StoreState(k, s)
      \/ \E u \in Url, x \in Codes : PSUApproves(u, x)
      \/ \E k \in Calls : BankRedeems(k) \/ StoreToken(k) \/ SubmitDone(k)
      \/ Restart
      \/ UNCHANGED <<urls, grants, redeemed, token, authorized>>
  BY DEF Next, vars, bank, CallBegin, CallStep, CreateBegin, BankCreates,
    CreateFails, SubmitCheck, ExchangeFails, ReadSend, BankServes, ReadFails,
    Return
<1> QED
  BY <1>1, <1>2, <1>3, <1>4, <1>5, <1>6, <1>7, <1>8

\* The connector implements Authorization when callers take code and state from
\* one redirect: concurrency, lost replies and restarts show nothing more.
THEOREM Refinement ==
  ASSUME PairedInputs PROVE Spec => KeepsPromise
<1>1. Init => Promise!AInit
  BY DEF Init, Promise!AInit
<1>2. IInv /\ IInv' /\ [Next]_vars => [Promise!ANext]_Promise!avars
  BY PairedInputs, StepRefines
<1>3. QED
  BY <1>1, <1>2, Invariance, PTL DEF Spec, KeepsPromise, Promise!ASpec
=============================================================================
