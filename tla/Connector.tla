------------------------------ MODULE Connector ------------------------------
(***************************************************************************)
(* The MCP connector (connector/connector.go) as cmd/rbhu-connector-http   *)
(* runs it: one process, one rbhu.Client, one map of pending OAuth states, *)
(* and tool handlers that run concurrently, one goroutine per call.  The   *)
(* bank (consent API, OAuth bridge, token endpoint, account API) is        *)
(* external; it is modelled from what the handlers send it and from how    *)
(* they treat its replies.                                                 *)
(*                                                                         *)
(* A token is named by the authorization code it was issued for: the bank  *)
(* issues at most one token per code.                                      *)
(***************************************************************************)
CONSTANTS
  Calls,          \* slots for concurrent tool calls
  Consents,       \* ids the bank's consent API can assign
  States,         \* values newState() can draw
  Codes,          \* authorization codes the bridge can issue
  None,           \* no consent, no state, no code, no token
  ForeignState,   \* state of an authorize URL this connector did not build
  EmptyState,     \* the empty string: a redirect or a call without a state
  PairedInputs,   \* do callers take code and state from the same redirect?
  CanRestart      \* may the process crash and start again?

AnyState == States \cup {ForeignState, EmptyState}

\* What an authorize URL binds together.
Url == [consent : Consents, state : AnyState]

ASSUME ConstantsAssumption ==
  /\ None \notin Consents \cup AnyState \cup Codes \cup Url
  /\ {ForeignState, EmptyState} \cap States = {}
  /\ PairedInputs \in BOOLEAN
  /\ CanRestart \in BOOLEAN

VARIABLES
  states,      \* conn.states: consent id -> issued state, None if absent
  token,       \* Client.token: the code it was issued for, or None
  call,        \* the handler running in each slot
  created,     \* consents that exist at the bank
  urls,        \* authorize URLs returned by create_consent (history)
  grants,      \* authorize URL the PSU approved to obtain each code
  redeemed,    \* codes the token endpoint has consumed
  authorized   \* submissions answered "authorized" (history)

vars == <<states, token, call, created, urls, grants, redeemed, authorized>>

(***************************************************************************)
(* pc of a call, by tool:                                                  *)
(*   create_consent             creating -> created -> ok                  *)
(*   submit_authorization_code  exchanging -> redeemed -> exchanged -> ok  *)
(*   list_accounts, get_balances, get_transactions     reading -> ok       *)
(* and "error" for an answer made by errResult.  In a read, code is the    *)
(* bearer the request carries.                                             *)
(***************************************************************************)
Phases == {"idle", "creating", "created", "exchanging", "redeemed",
           "exchanged", "reading", "ok", "error"}

Call == [pc : Phases, consent : Consents \cup {None},
         state : AnyState \cup {None}, code : Codes \cup {None}]

Idle == [pc |-> "idle", consent |-> None, state |-> None, code |-> None]

Advance(k, from, to) ==
  /\ call[k].pc = from
  /\ call' = [call EXCEPT ![k].pc = to]

Fail(k, phases) ==
  /\ call[k].pc \in phases
  /\ call' = [call EXCEPT ![k].pc = "error"]

Init ==
  /\ states = [c \in Consents |-> None]
  /\ token = None
  /\ call = [k \in Calls |-> Idle]
  /\ created = {}
  /\ urls = {}
  /\ grants = [x \in Codes |-> None]
  /\ redeemed = {}
  /\ authorized = {}

bank == <<created, grants, redeemed>>

-----------------------------------------------------------------------------
\* create_consent

\* CreateAISConsent refuses a call without IBANs, else posts the consent.
CreateBegin(k, hasIBAN) ==
  /\ call[k] = Idle
  /\ call' = [call EXCEPT ![k].pc = IF hasIBAN THEN "creating" ELSE "error"]
  /\ UNCHANGED <<states, token, bank, urls, authorized>>

\* The consent API assigns a fresh id and replies 200.
BankCreates(k, c) ==
  /\ call[k].pc = "creating"
  /\ c \notin created
  /\ created' = created \cup {c}
  /\ call' = [call EXCEPT ![k].pc = "created", ![k].consent = c]
  /\ UNCHANGED <<states, token, urls, grants, redeemed, authorized>>

\* Mutant: newState returns the same value twice.
StoreState_FixedState(k, s) ==
  /\ Advance(k, "created", "ok")
  /\ states' = [states EXCEPT ![call[k].consent] = s]
  /\ urls' = urls \cup {[consent |-> call[k].consent, state |-> s]}
  /\ UNCHANGED <<token, bank, authorized>>

\* The handler records a fresh random state and returns the authorize URL.
StoreState(k, s) ==
  /\ \A u \in urls : u.state # s
  /\ Advance(k, "created", "ok")
  /\ states' = [states EXCEPT ![call[k].consent] = s]
  /\ urls' = urls \cup {[consent |-> call[k].consent, state |-> s]}
  /\ UNCHANGED <<token, bank, authorized>>

\* Mutant: the http.Client waits for a reply for ever.
CreateFails_NoTimeout(k) ==
  /\ Fail(k, {"created"})
  /\ UNCHANGED <<states, token, bank, urls, authorized>>

\* Transport error, time out, cancelled context, refusal, or a reply without
\* a consent id: the consent may exist at the bank all the same.
CreateFails(k) ==
  /\ Fail(k, {"creating", "created"})
  /\ UNCHANGED <<states, token, bank, urls, authorized>>

-----------------------------------------------------------------------------
\* The bridge and the PSU

\* The PSU approves an authorize URL: this connector's, or one that another
\* program (the examples, authorize_in_browser) built for the same consent.
PSUApproves(u, x) ==
  /\ \/ u \in urls
     \/ u.consent \in created /\ u.state \in {ForeignState, EmptyState}
  /\ grants[x] = None
  /\ grants' = [grants EXCEPT ![x] = u]
  /\ UNCHANGED <<states, token, call, created, urls, redeemed, authorized>>

-----------------------------------------------------------------------------
\* submit_authorization_code

\* The (code, state) pairs a caller can come by.  With PairedInputs both are
\* copied from one redirect; otherwise any code goes with any state.
Inputs ==
  IF PairedInputs
  THEN {in \in Codes \X AnyState :
          grants[in[1]] # None /\ grants[in[1]].state = in[2]}
  ELSE Codes \X AnyState

\* Mutant: the state is looked up without its consent.
StateMatches_AnyConsent(c, s) == \E d \in Consents : states[d] = s

\* Mutant: the states are not compared.
StateMatches_PendingOnly(c, s) == states[c] # None

StateMatches(c, s) == states[c] # None /\ s # EmptyState /\ states[c] = s

\* Mutant: the state is deleted before the exchange.
SubmitCheck_ConsumesState(k, c, x, s) ==
  /\ call[k] = Idle
  /\ <<x, s>> \in Inputs
  /\ call' = [call EXCEPT ![k] =
       [pc |-> IF StateMatches(c, s) THEN "exchanging" ELSE "error",
        consent |-> c, state |-> s, code |-> x]]
  /\ states' = [states EXCEPT ![c] = IF StateMatches(c, s) THEN None ELSE @]
  /\ UNCHANGED <<token, bank, urls, authorized>>

\* The check under the lock; the lock is released before the exchange.
SubmitCheck(k, c, x, s) ==
  /\ call[k] = Idle
  /\ <<x, s>> \in Inputs
  /\ call' = [call EXCEPT ![k] =
       [pc |-> IF StateMatches(c, s) THEN "exchanging" ELSE "error",
        consent |-> c, state |-> s, code |-> x]]
  /\ UNCHANGED <<states, token, bank, urls, authorized>>

\* The token endpoint consumes the code and replies with its token.
BankRedeems(k) ==
  /\ Advance(k, "exchanging", "redeemed")
  /\ grants[call[k].code] # None
  /\ call[k].code \notin redeemed
  /\ redeemed' = redeemed \cup {call[k].code}
  /\ UNCHANGED <<states, token, created, urls, grants, authorized>>

\* Mutant: postToken does not call SetToken.
StoreToken_Skipped(k) ==
  /\ Advance(k, "redeemed", "exchanged")
  /\ UNCHANGED <<states, token, bank, urls, authorized>>

\* postToken decodes the reply and SetToken replaces the client's token.
StoreToken(k) ==
  /\ Advance(k, "redeemed", "exchanged")
  /\ token' = call[k].code
  /\ UNCHANGED <<states, bank, urls, authorized>>

\* The request or its reply is lost, refused or undecodable: the state stays
\* pending, and the code may have been consumed.
ExchangeFails(k) ==
  /\ Fail(k, {"exchanging", "redeemed"})
  /\ UNCHANGED <<states, token, bank, urls, authorized>>

\* The submissions answered "authorized" once call k is.
Answered(k) == authorized \cup
  {[consent |-> call[k].consent, state |-> call[k].state,
    code |-> call[k].code]}

\* Mutant: the state is not deleted.
SubmitDone_KeepsState(k) ==
  /\ Advance(k, "exchanged", "ok")
  /\ authorized' = Answered(k)
  /\ UNCHANGED <<states, token, bank, urls>>

\* Mutant: the entry is emptied instead of deleted.
SubmitDone_EmptiesState(k) ==
  /\ Advance(k, "exchanged", "ok")
  /\ states' = [states EXCEPT ![call[k].consent] = EmptyState]
  /\ authorized' = Answered(k)
  /\ UNCHANGED <<token, bank, urls>>

\* The state is forgotten and the caller is told "authorized".
SubmitDone(k) ==
  /\ Advance(k, "exchanged", "ok")
  /\ states' = [states EXCEPT ![call[k].consent] = None]
  /\ authorized' = Answered(k)
  /\ UNCHANGED <<token, bank, urls>>

-----------------------------------------------------------------------------
\* list_accounts, get_balances, get_transactions

\* requestEditor attaches whatever token the client holds when it sends.
ReadSend(k, c) ==
  /\ call[k] = Idle
  /\ call' = [call EXCEPT ![k] =
       [Idle EXCEPT !.pc = "reading", !.consent = c, !.code = token]]
  /\ UNCHANGED <<states, token, bank, urls, authorized>>

\* The account API serves a consent to the bearer of its own token only.
BankServes(k) ==
  /\ Advance(k, "reading", "ok")
  /\ call[k].code # None
  /\ grants[call[k].code].consent = call[k].consent
  /\ UNCHANGED <<states, token, bank, urls, authorized>>

ReadFails(k) ==
  /\ Fail(k, {"reading"})
  /\ UNCHANGED <<states, token, bank, urls, authorized>>

-----------------------------------------------------------------------------
\* The answer leaves and the slot is free again.
Return(k) ==
  /\ call[k].pc \in {"ok", "error"}
  /\ call' = [call EXCEPT ![k] = Idle]
  /\ UNCHANGED <<states, token, bank, urls, authorized>>

\* Everything the connector knows is in memory; the bank forgets nothing.
Restart ==
  /\ CanRestart
  /\ states' = [c \in Consents |-> None]
  /\ token' = None
  /\ call' = [k \in Calls |-> Idle]
  /\ UNCHANGED <<bank, urls, authorized>>

\* What happens in a call once it has begun.
CallStep(k) ==
  \/ \E c \in Consents : BankCreates(k, c)
  \/ \E s \in States : StoreState(k, s)
  \/ CreateFails(k)
  \/ BankRedeems(k)
  \/ StoreToken(k)
  \/ ExchangeFails(k)
  \/ SubmitDone(k)
  \/ BankServes(k)
  \/ ReadFails(k)
  \/ Return(k)

CallBegin(k) ==
  \/ \E hasIBAN \in BOOLEAN : CreateBegin(k, hasIBAN)
  \/ \E c \in Consents, x \in Codes, s \in AnyState : SubmitCheck(k, c, x, s)
  \/ \E c \in Consents : ReadSend(k, c)

Next ==
  \/ \E k \in Calls : CallBegin(k) \/ CallStep(k)
  \/ \E u \in Url, x \in Codes : PSUApproves(u, x)
  \/ Restart

Spec == Init /\ [][Next]_vars

\* A started handler keeps running, and the 60 s Timeout of the http.Client
\* ends a request that gets no reply.
FairSpec == Spec /\ \A k \in Calls : WF_vars(CallStep(k))

-----------------------------------------------------------------------------
\* Every variable holds a value of its type.
TypeOK ==
  /\ states \in [Consents -> States \cup {None}]
  /\ token \in Codes \cup {None}
  /\ call \in [Calls -> Call]
  /\ created \subseteq Consents
  /\ urls \subseteq [consent : Consents, state : States]
  /\ grants \in [Codes -> Url \cup {None}]
  /\ redeemed \subseteq Codes
  /\ authorized \subseteq [consent : Consents, state : States, code : Codes]

\* submit_authorization_code answers "authorized" for a consent only when the
\* code it exchanged was granted for that consent, whatever consent id the
\* caller pasted, as long as code and state come from one redirect.
ConsentBinding ==
  PairedInputs => \A a \in authorized : grants[a.code].consent = a.consent

\* A redirect of a flow this connector did not start costs nothing and gives
\* nothing: its code is never exchanged and its token never becomes the
\* client's.
NoForeignExchange ==
  PairedInputs =>
    /\ \A x \in redeemed : grants[x] \in urls
    /\ token # None => grants[token] \in urls

\* A state that has been answered "authorized" is not pending again, so a
\* later replay of the same redirect is refused by the map, even after other
\* consents, failed submissions and restarts.
NoReplay == \A a \in authorized : states[a.consent] # a.state

\* A pending state disappears only with the process or by a submission for
\* that consent, checked against that very state, whose exchange succeeded.
\* A failed exchange therefore leaves it for a retry.
PendingKept ==
  [][\A c \in Consents : states[c] # None /\ states'[c] # states[c] =>
       \/ Restart
       \/ \E k \in Calls :
            /\ call[k].pc = "exchanged" /\ call'[k].pc = "ok"
            /\ call[k].consent = c
            /\ call[k].state = states[c]
            /\ call[k].code \in redeemed]_vars

-----------------------------------------------------------------------------
(***************************************************************************)
(* The inductive invariant behind the properties above.                    *)
(***************************************************************************)
InFlight == {"exchanging", "redeemed", "exchanged"}

\* An authorize URL is determined by its consent and by its state, since the
\* bank's ids and the drawn states are fresh.
UrlsUnique ==
  \A u, v \in urls : u.consent = v.consent \/ u.state = v.state => u = v

\* A pending state is the one in its consent's URL.
PendingIssued ==
  \A c \in Consents : states[c] # None =>
    [consent |-> c, state |-> states[c]] \in urls

\* A consent whose state is still to be drawn has no URL and no other call.
CreatedUnissued ==
  /\ \A u \in urls : u.consent \in created
  /\ \A k \in Calls : call[k].pc = "created" =>
       /\ call[k].consent \in created
       /\ \A u \in urls : u.consent # call[k].consent
       /\ \A j \in Calls \ {k} :
            call[j].pc = "created" => call[j].consent # call[k].consent

\* A code is granted for a URL of this connector or carries no state of it.
GrantsKnown ==
  \A x \in Codes : grants[x] # None =>
    grants[x] \in urls \/ grants[x].state \in {ForeignState, EmptyState}

\* An exchange in flight passed the state check: its consent and state form
\* an issued URL, and with paired inputs its code was granted for that URL.
InFlightChecked ==
  \A k \in Calls : call[k].pc \in InFlight =>
    LET u == [consent |-> call[k].consent, state |-> call[k].state] IN
    /\ u \in urls
    /\ call[k].code \in Codes
    /\ PairedInputs => grants[call[k].code] = u
    /\ call[k].pc # "exchanging" => call[k].code \in redeemed
    /\ call[k].pc = "exchanged" => token # None

AuthorizedChecked ==
  \A a \in authorized :
    /\ [consent |-> a.consent, state |-> a.state] \in urls
    /\ PairedInputs =>
         grants[a.code] = [consent |-> a.consent, state |-> a.state]

\* What the tools keep up even if others use the client's token and the token
\* endpoint, as authorize_in_browser does in a local connector.
ToolsInv ==
  /\ TypeOK
  /\ UrlsUnique
  /\ PendingIssued
  /\ CreatedUnissued
  /\ GrantsKnown
  /\ InFlightChecked
  /\ AuthorizedChecked
  /\ NoReplay

IInv == ToolsInv /\ NoForeignExchange

-----------------------------------------------------------------------------
\* With paired inputs the connector keeps the promise of Authorization:
\* whatever its concurrent calls do, every step that module can see is one of
\* its own.
Promise == INSTANCE Authorization WITH
  Urls <- Url,
  Foreign <- [consent : Consents, state : {ForeignState, EmptyState}],
  issued <- urls,
  granted <- grants,
  spent <- redeemed,
  told <- {<<[consent |-> a.consent, state |-> a.state], a.code>> :
             a \in authorized}

KeepsPromise == Promise!ASpec

\* Every tool call is answered.
CallsAnswered == \A k \in Calls : call[k].pc # "idle" ~> call[k].pc = "idle"

\* The tool description of list_accounts: it lists the accounts "covered by
\* an authorized consent" and "requires a prior authorization".  So a read sent
\* for a consent that was answered "authorized" carries that consent's token.
AuthorizedConsentReadable ==
  [][\A k \in Calls : \A a \in authorized :
       /\ call[k].pc = "idle" /\ call'[k].pc = "reading"
       /\ call'[k].consent = a.consent
       => /\ call'[k].code # None
          /\ grants[call'[k].code].consent = a.consent]_vars
=============================================================================
