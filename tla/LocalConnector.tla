---------------------------- MODULE LocalConnector ----------------------------
(***************************************************************************)
(* The connector as cmd/rbhu-connector runs it, over stdio and with the    *)
(* tool authorize_in_browser: the tools of Connector and the calls of      *)
(* CompleteAuth in one process, over one rbhu.Client and its one token.    *)
(* The PSU has the authorize URLs of both in tabs of the same browser, so  *)
(* a redirect of either may reach a loopback listener, and the caller may  *)
(* paste the code and state of either into submit_authorization_code.      *)
(*                                                                         *)
(* Codes are granted for URLs of a consent and a state, which is one of    *)
(* newState, one of a browser call (named by the call), or foreign.  Each  *)
(* component sees the other's states as foreign ones.                      *)
(***************************************************************************)
CONSTANTS
  Calls, Consents, States, Codes, None, ForeignState, EmptyState,  \* Connector
  Listeners, Addrs, Requests, RedirectAddr, OtherMark           \* CompleteAuth

VARIABLES
  \* shared: the client's token, the bridge's grants, the codes consumed
  token, grants, redeemed,
  \* Connector
  states, call, created, urls, authorized,
  \* CompleteAuth
  addr, open, ch, err, req, wait, got, ctx, stage, tabs,
  \* the consent_id each browser call was given, None before it starts
  consentOf

toolVars == <<states, call, created, urls, authorized>>
browserVars == <<addr, open, ch, err, req, wait, got, ctx, stage, tabs>>
avars == <<token, grants, redeemed, toolVars, browserVars, consentOf>>

AuthUrl ==
  [consent : Consents,
   state : States \cup Listeners \cup {ForeignState, EmptyState}]

\* The states of the two flows are different UUIDs.
ASSUME LocalAssumption ==
  /\ None \notin Consents \cup States \cup Codes \cup Listeners \cup Addrs
                 \cup AuthUrl \cup {ForeignState, EmptyState, OtherMark}
  /\ States \cap Listeners = {}
  /\ {ForeignState, EmptyState} \cap (States \cup Listeners) = {}
  /\ OtherMark \notin Listeners
  /\ RedirectAddr \in Addrs

\* The grants as each component reads them.
ToolGrants ==
  [x \in Codes |->
     IF grants[x] # None /\ grants[x].state \in Listeners
     THEN [grants[x] EXCEPT !.state = ForeignState] ELSE grants[x]]

TabGrants ==
  [x \in Codes |->
     IF grants[x] = None THEN None
     ELSE IF grants[x].state \in Listeners THEN grants[x].state
     ELSE OtherMark]

Tools == INSTANCE Connector WITH
  grants <- ToolGrants, PairedInputs <- TRUE, CanRestart <- FALSE

Browser == INSTANCE CompleteAuth WITH
  grants <- TabGrants, Marks <- Listeners \cup {OtherMark}

\* The URL that CompleteAuthorization opens for a call.
TabUrl(l) == [consent |-> consentOf[l], state |-> l]

Init ==
  /\ grants = [x \in Codes |-> None]
  /\ consentOf = [l \in Listeners |-> None]
  /\ Tools!Init
  /\ Browser!CInit

\* A tool other than authorize_in_browser begins or takes a step.
ToolStep(k) ==
  /\ UNCHANGED <<grants, browserVars, consentOf>>
  /\ Tools!CallBegin(k) \/ Tools!CallStep(k)

\* authorize_in_browser is called for a consent, of this session or not.
BrowserBegin(l, c, a) ==
  /\ UNCHANGED <<grants, toolVars>>
  /\ Browser!Start(l, a) \/ Browser!StartFails(l, a) \/ Browser!AddrRefused(l)
  /\ consentOf' = [consentOf EXCEPT ![l] = c]

BrowserStep(l) ==
  /\ UNCHANGED <<grants, toolVars, consentOf>>
  /\ Browser!CallStep(l) \/ Browser!Cancelled(l)

\* The PSU approves an authorize URL of either kind, or one that another
\* program made, for a consent that exists at the bank.
PSUApproves(u, x) ==
  /\ u.consent \in created
  /\ \/ u \in urls
     \/ \E l \in tabs : u = TabUrl(l)
     \/ u.state \in {ForeignState, EmptyState}
  /\ grants[x] = None
  /\ grants' = [grants EXCEPT ![x] = u]
  /\ UNCHANGED <<token, redeemed, toolVars, browserVars, consentOf>>

\* What the browser asks of the loopback listeners.
Visited(r) ==
  /\ UNCHANGED <<grants, toolVars, consentOf>>
  /\ \/ \E x \in Codes : Browser!Redirected(r, x)
     \/ \E kind \in {"error", "other"} : Browser!Stray(r, kind)
     \/ Browser!Handled(r)

Next ==
  \/ \E k \in Calls : ToolStep(k)
  \/ \E l \in Listeners, c \in Consents, a \in Addrs : BrowserBegin(l, c, a)
  \/ \E l \in Listeners : BrowserStep(l)
  \/ \E u \in AuthUrl, x \in Codes : PSUApproves(u, x)
  \/ \E r \in Requests : Visited(r)

Spec == Init /\ [][Next]_avars

-----------------------------------------------------------------------------
\* Every variable holds a value of its type, and the token is one that the
\* bank has issued.
JTypeOK ==
  /\ grants \in [Codes -> AuthUrl \cup {None}]
  /\ token \in redeemed \cup {None}
  /\ redeemed \subseteq Codes
  /\ consentOf \in [Listeners -> Consents \cup {None}]
  /\ \A l \in Listeners : stage[l] # "start" => consentOf[l] # None

\* Whichever tool answers "authorized", it has exchanged a code granted for
\* the consent it was asked for and for the URL of that very flow, although
\* redirects of both flows reach both tools.
BothBound ==
  /\ \A a \in authorized :
       grants[a.code] = [consent |-> a.consent, state |-> a.state]
  /\ \A l \in Listeners : stage[l] = "ok" =>
       grants[got[l].code] = [consent |-> consentOf[l], state |-> l]

\* The two tools never send the same code to the token endpoint, so neither
\* makes the other's exchange fail.
FlowsApart ==
  \A k \in Calls, l \in Listeners :
    /\ call[k].pc \in Tools!InFlight
    /\ stage[l] \in Browser!Exchanged \cup {"exchanging"}
    => call[k].code # got[l].code

\* The local connector as a whole keeps the promise of Authorization.
Promise == INSTANCE Authorization WITH
  Urls <- AuthUrl,
  Foreign <- [consent : Consents, state : {ForeignState, EmptyState}],
  issued <- urls \cup {TabUrl(l) : l \in tabs},
  granted <- grants,
  spent <- redeemed,
  told <- {<<[consent |-> a.consent, state |-> a.state], a.code>> :
             a \in authorized}
          \cup {<<TabUrl(l), got[l].code>> :
                  l \in {i \in Listeners : stage[i] = "ok"}}

KeepsPromise == Promise!ASpec
===============================================================================
