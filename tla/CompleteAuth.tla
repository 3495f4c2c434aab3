----------------------------- MODULE CompleteAuth -----------------------------
(***************************************************************************)
(* CompleteAuthorization (helpers.go) as the authorize_in_browser tool of  *)
(* the connector runs it: each call binds a CodeListener, opens the        *)
(* authorize URL in a browser, waits for the redirect, compares its state  *)
(* and exchanges its code.  Calls run concurrently and after one another;  *)
(* browser tabs outlive the call that opened them.                         *)
(*                                                                         *)
(* The state a call draws (a UUID) is named by the call itself.            *)
(***************************************************************************)
EXTENDS CodeListener

CONSTANTS
  RedirectAddr,   \* where the registered redirect URI points
  OtherMark       \* state of URLs no call here built (create_consent's)

ASSUME MarksAssumption ==
  /\ Marks = Listeners \cup {OtherMark}
  /\ OtherMark \notin Listeners
  /\ None \notin Marks
  /\ RedirectAddr \in Addrs

VARIABLES
  stage,      \* how far each call of CompleteAuthorization is
  tabs,       \* calls whose authorize URL is open in a browser
  grants,     \* the state of the URL the PSU approved to obtain each code
  redeemed,   \* codes the token endpoint has consumed
  token       \* Client.token: the code it was issued for, or None

cvars == <<lvars, stage, tabs, grants, redeemed, token>>

Stages == {"start", "bound", "opened", "exchanging", "redeemed", "stored",
           "fail", "ok", "failed"}

CInit ==
  /\ LInit
  /\ stage = [l \in Listeners |-> "start"]
  /\ tabs = {}
  /\ grants = [x \in Codes |-> None]
  /\ redeemed = {}
  /\ token = None

Go(l, from, to) ==
  /\ stage[l] \in from
  /\ stage' = [stage EXCEPT ![l] = to]

world == <<tabs, grants, redeemed, token>>

-----------------------------------------------------------------------------
Start(l, a) ==
  /\ Go(l, {"start"}, "bound")
  /\ ListenForCode(l, a)
  /\ UNCHANGED world

\* The address is in use: an earlier call still waits on it.
StartFails(l, a) ==
  /\ Go(l, {"start"}, "failed")
  /\ InUse(a)
  /\ UNCHANGED <<lvars, world>>

\* requireLoopback refuses the address the caller asked for.
AddrRefused(l) ==
  /\ Go(l, {"start"}, "failed")
  /\ UNCHANGED <<lvars, world>>

\* The fresh state goes into the URL, and open starts the browser.
OpenURL(l) ==
  /\ Go(l, {"bound"}, "opened")
  /\ tabs' = tabs \cup {l}
  /\ UNCHANGED <<lvars, grants, redeemed, token>>

Await(l) ==
  /\ stage[l] = "opened"
  /\ Wait(l)
  /\ UNCHANGED <<stage, world>>

Receive(l) ==
  /\ WaitReturns(l)
  /\ UNCHANGED <<stage, world>>

\* Mutant: the states are not compared.
StateIsOwn_Unchecked(l) == TRUE

StateIsOwn(l) == got[l].state = l

Proceed(l) ==
  /\ wait[l] = "code" /\ StateIsOwn(l)
  /\ Go(l, {"opened"}, "exchanging")
  /\ UNCHANGED <<lvars, world>>

\* Mutant: Close is called on the other paths only.
Refuse_LeavesOpen(l) ==
  /\ \/ wait[l] = "code" /\ ~StateIsOwn(l)
     \/ wait[l] \in {"error", "cancelled"}
  /\ Go(l, {"opened"}, IF wait[l] = "code" THEN "failed" ELSE "fail")
  /\ UNCHANGED <<lvars, world>>

\* Wait returned an error, or the redirect belongs to another URL.
Refuse(l) ==
  /\ \/ wait[l] = "code" /\ ~StateIsOwn(l)
     \/ wait[l] \in {"error", "cancelled"}
  /\ Go(l, {"opened"}, "fail")
  /\ UNCHANGED <<lvars, world>>

\* The token endpoint consumes the code and replies with its token.
BankRedeems(l) ==
  /\ Go(l, {"exchanging"}, "redeemed")
  /\ got[l].code \notin redeemed
  /\ redeemed' = redeemed \cup {got[l].code}
  /\ UNCHANGED <<lvars, tabs, grants, token>>

\* Mutant: postToken does not call SetToken.
StoreToken_Skipped(l) ==
  /\ Go(l, {"redeemed"}, "stored")
  /\ UNCHANGED <<lvars, tabs, grants, redeemed, token>>

StoreToken(l) ==
  /\ Go(l, {"redeemed"}, "stored")
  /\ token' = got[l].code
  /\ UNCHANGED <<lvars, tabs, grants, redeemed>>

\* Mutant: the token is stored before the status of the reply is looked at.
ExchangeFails_Stores(l) ==
  /\ Go(l, {"exchanging", "redeemed"}, "fail")
  /\ token' = got[l].code
  /\ UNCHANGED <<lvars, tabs, grants, redeemed>>

\* Request or reply lost, refused, undecodable, timed out or cancelled.
ExchangeFails(l) ==
  /\ Go(l, {"exchanging", "redeemed"}, "fail")
  /\ UNCHANGED <<lvars, world>>

\* Every return runs the deferred Close.
Return(l) ==
  /\ \/ Go(l, {"stored"}, "ok")
     \/ Go(l, {"fail"}, "failed")
  /\ Close(l)
  /\ UNCHANGED world

-----------------------------------------------------------------------------
\* The PSU approves an open authorize URL; the bridge makes a code for it.
PSUApproves(m, x) ==
  /\ m \in tabs \cup {OtherMark}
  /\ grants[x] = None
  /\ grants' = [grants EXCEPT ![x] = m]
  /\ UNCHANGED <<lvars, stage, tabs, redeemed, token>>

\* The browser follows the redirect, once or again (a reload).
Redirected(r, x) ==
  /\ grants[x] # None
  /\ Visit(r, RedirectAddr,
           [kind |-> "code", result |-> [code |-> x, state |-> grants[x]]])
  /\ UNCHANGED <<stage, world>>

\* The PSU declines in some tab, this call's or not: an error redirect.  Or the
\* browser asks for something else, such as an icon.
Stray(r, kind) ==
  /\ Visit(r, RedirectAddr, [kind |-> kind, result |-> None])
  /\ UNCHANGED <<stage, world>>

Handled(r) == Handle(r) /\ UNCHANGED <<stage, world>>

Cancelled(l) == Cancel(l) /\ UNCHANGED <<stage, world>>

\* What a call does by itself once it has begun.
CallStep(l) ==
  \/ OpenURL(l) \/ Await(l) \/ Receive(l) \/ Proceed(l) \/ Refuse(l)
  \/ BankRedeems(l) \/ StoreToken(l) \/ ExchangeFails(l) \/ Return(l)

CNext ==
  \/ \E l \in Listeners, a \in Addrs : Start(l, a) \/ StartFails(l, a)
  \/ \E l \in Listeners : AddrRefused(l) \/ CallStep(l) \/ Cancelled(l)
  \/ \E m \in Marks, x \in Codes : PSUApproves(m, x)
  \/ \E r \in Requests, x \in Codes : Redirected(r, x)
  \/ \E r \in Requests : \E kind \in {"error", "other"} : Stray(r, kind)
  \/ \E r \in Requests : Handled(r)

CSpec == CInit /\ [][CNext]_cvars

\* A call's goroutine is scheduled, its select fires when a case is ready, and
\* the time out of the http.Client ends an exchange.
CFairSpec ==
  /\ CSpec
  /\ \A l \in Listeners : WF_cvars(CallStep(l))
  /\ \A r \in Requests : WF_cvars(Handled(r))

-----------------------------------------------------------------------------
CTypeOK ==
  /\ LTypeOK
  /\ stage \in [Listeners -> Stages]
  /\ tabs \subseteq Listeners
  /\ grants \in [Codes -> Marks \cup {None}]
  /\ redeemed \subseteq Codes
  /\ token \in Codes \cup {None}

Exchanged == {"redeemed", "stored", "ok"}

\* A call exchanges only the code granted for its own authorize URL, however
\* many stale tabs, reloads and foreign redirects reach its listener; no code
\* is exchanged by two calls.
OwnRedirectOnly ==
  /\ \A l \in Listeners : stage[l] \in Exchanged \cup {"exchanging"} =>
       grants[got[l].code] = l
  /\ \A x \in redeemed : grants[x] \in tabs
  /\ token # None => token \in redeemed

\* authorize_in_browser keeps the promise of Authorization.
Promise == INSTANCE Authorization WITH
  Urls <- Marks,
  Foreign <- {OtherMark},
  issued <- tabs,
  granted <- grants,
  spent <- redeemed,
  told <- {<<l, got[l].code>> : l \in {i \in Listeners : stage[i] = "ok"}}

KeepsPromise == Promise!ASpec

\* A call that got a redirect or was cancelled answers and frees its callback
\* address on every path, whatever the bank and the other calls do.
CallEnds ==
  \A l \in Listeners :
    l \in open /\ (Sent(l) # {} \/ err[l] > 0 \/ l \in ctx)
      ~> stage[l] \in {"ok", "failed"} /\ l \notin open
=============================================================================
