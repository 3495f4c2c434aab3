---------------------------- MODULE CodeListener ----------------------------
(***************************************************************************)
(* The loopback HTTP server of helpers.go (CodeListener): ListenForCode    *)
(* binds an address and serves it, one goroutine per browser request; a    *)
(* handler puts a code or an error on a channel; Wait takes the first of   *)
(* code, error and cancelled context; Close drops the open connections.    *)
(*                                                                         *)
(* Several listeners may exist, one after another on the same address or   *)
(* side by side on different ones; each has its own channels and one       *)
(* caller that waits once.                                                 *)
(***************************************************************************)
EXTENDS Naturals, Sequences

CONSTANTS
  Listeners,   \* CodeListener objects
  Addrs,       \* loopback addresses
  Requests,    \* browser requests, each handled by its own goroutine
  Codes,       \* values of the code parameter
  Marks,       \* values of the state parameter
  None

ASSUME NoneAssumption == None \notin Listeners \cup Addrs \cup Codes

VARIABLES
  addr,    \* address a listener has bound, None before ListenForCode
  open,    \* listeners that are bound and not closed
  ch,      \* CodeListener.ch: buffered AuthResults
  err,     \* CodeListener.err: number of buffered errors
  req,     \* the browser requests
  wait,    \* where the caller of Wait is
  got,     \* the AuthResult that Wait returned, or None
  ctx      \* listeners whose caller's context is done

lvars == <<addr, open, ch, err, req, wait, got, ctx>>

AuthResult == [code : Codes, state : Marks]

\* What the query string of a request carries.
Query == [kind : {"code"}, result : AuthResult]
           \cup [kind : {"error", "other"}, result : {None}]

(***************************************************************************)
(* A request is new, then handled: its page is written to the response     *)
(* buffer and the channel send is tried (sent), and the response leaves    *)
(* (answered) unless Close has cut the connection.                         *)
(***************************************************************************)
Request == [phase : {"new", "handling", "sent", "answered", "cut", "refused"},
            to : Listeners \cup {None}, query : Query \cup {None}]

WaitPhase == {"before", "waiting", "code", "error", "cancelled"}
Ended == {"code", "error", "cancelled"}

LInit ==
  /\ addr = [l \in Listeners |-> None]
  /\ open = {}
  /\ ch = [l \in Listeners |-> <<>>]
  /\ err = [l \in Listeners |-> 0]
  /\ req = [r \in Requests |-> [phase |-> "new", to |-> None, query |-> None]]
  /\ wait = [l \in Listeners |-> "before"]
  /\ got = [l \in Listeners |-> None]
  /\ ctx = {}

\* Mutant: make(chan AuthResult).
ChanCap_Unbuffered == 0

\* Capacity of both channels.
ChanCap == 1

-----------------------------------------------------------------------------
InUse(a) == \E l \in open : addr[l] = a

\* net.Listen succeeds and the server starts.  On an address in use it fails
\* and the caller gets no listener.
ListenForCode(l, a) ==
  /\ addr[l] = None
  /\ ~InUse(a)
  /\ addr' = [addr EXCEPT ![l] = a]
  /\ open' = open \cup {l}
  /\ UNCHANGED <<ch, err, req, wait, got, ctx>>

\* A browser sends a request to an address.
Visit(r, a, q) ==
  /\ req[r].phase = "new"
  /\ \/ \E l \in open :
          /\ addr[l] = a
          /\ req' = [req EXCEPT ![r] =
                       [phase |-> "handling", to |-> l, query |-> q]]
     \/ /\ ~InUse(a)
        /\ req' = [req EXCEPT ![r] =
                     [phase |-> "refused", to |-> None, query |-> q]]
  /\ UNCHANGED <<addr, open, ch, err, wait, got, ctx>>

\* Mutant: a send replaces what is buffered.
Offer_LatestWins(buf, v) == <<v>>

\* Mutant: off by one in the capacity.
Offer_OneTooMany(buf, v) == IF Len(buf) <= ChanCap THEN Append(buf, v) ELSE buf

\* A non-blocking send: a full channel drops the value.
Offer(buf, v) == IF Len(buf) < ChanCap THEN Append(buf, v) ELSE buf

Handling(r, kind) ==
  /\ req[r].phase = "handling"
  /\ req[r].query.kind = kind
  /\ req' = [req EXCEPT ![r].phase = "sent"]
  /\ UNCHANGED <<addr, open, wait, got, ctx>>

\* Mutant: a plain send, without the default case.
HandleCode_Blocks(r) ==
  /\ Handling(r, "code")
  /\ Len(ch[req[r].to]) < ChanCap
  /\ ch' = [ch EXCEPT ![req[r].to] = Append(@, req[r].query.result)]
  /\ UNCHANGED err

\* A request with a code: the page says "Authorization complete".
HandleCode(r) ==
  /\ Handling(r, "code")
  /\ ch' = [ch EXCEPT ![req[r].to] = Offer(@, req[r].query.result)]
  /\ UNCHANGED err

\* A request with an error and no code, whatever state it carries.
HandleError(r) ==
  /\ Handling(r, "error")
  /\ err' = [err EXCEPT ![req[r].to] = IF @ < ChanCap THEN @ + 1 ELSE @]
  /\ UNCHANGED ch

\* Any other request, a favicon for one.
HandleOther(r) ==
  /\ Handling(r, "other")
  /\ UNCHANGED <<ch, err>>

\* The handler returns and the server flushes the page.
Respond(r) ==
  /\ req[r].phase = "sent"
  /\ req' = [req EXCEPT ![r].phase =
               IF req[r].to \in open THEN "answered" ELSE "cut"]
  /\ UNCHANGED <<addr, open, ch, err, wait, got, ctx>>

\* The caller enters Wait.
Wait(l) ==
  /\ l \in open /\ wait[l] = "before"
  /\ wait' = [wait EXCEPT ![l] = "waiting"]
  /\ UNCHANGED <<addr, open, ch, err, req, got, ctx>>

\* The three cases of the select; Go picks any of those that are ready.
WaitCode(l) ==
  /\ wait[l] = "waiting" /\ ch[l] # <<>>
  /\ got' = [got EXCEPT ![l] = Head(ch[l])]
  /\ ch' = [ch EXCEPT ![l] = Tail(@)]
  /\ wait' = [wait EXCEPT ![l] = "code"]
  /\ UNCHANGED <<addr, open, err, req, ctx>>

\* Mutant: the select has no case for the error channel.
WaitError_Ignored(l) == FALSE

WaitError(l) ==
  /\ wait[l] = "waiting" /\ err[l] > 0
  /\ err' = [err EXCEPT ![l] = @ - 1]
  /\ wait' = [wait EXCEPT ![l] = "error"]
  /\ UNCHANGED <<addr, open, ch, req, got, ctx>>

WaitCancelled(l) ==
  /\ wait[l] = "waiting" /\ l \in ctx
  /\ wait' = [wait EXCEPT ![l] = "cancelled"]
  /\ UNCHANGED <<addr, open, ch, err, req, got, ctx>>

\* The caller's context is cancelled or its deadline passes.
Cancel(l) ==
  /\ l \notin ctx
  /\ ctx' = ctx \cup {l}
  /\ UNCHANGED <<addr, open, ch, err, req, wait, got>>

\* Close frees the address and drops the connections; the handler goroutines
\* run on.
Close(l) ==
  /\ l \in open /\ wait[l] \in Ended
  /\ open' = open \ {l}
  /\ UNCHANGED <<addr, ch, err, req, wait, got, ctx>>

Handle(r) == HandleCode(r) \/ HandleError(r) \/ HandleOther(r) \/ Respond(r)

WaitReturns(l) == WaitCode(l) \/ WaitError(l) \/ WaitCancelled(l)

LNext ==
  \/ \E l \in Listeners, a \in Addrs : ListenForCode(l, a)
  \/ \E r \in Requests, a \in Addrs, q \in Query : Visit(r, a, q)
  \/ \E r \in Requests : Handle(r)
  \/ \E l \in Listeners : Wait(l) \/ WaitReturns(l) \/ Cancel(l) \/ Close(l)

LSpec == LInit /\ [][LNext]_lvars

\* Goroutines are scheduled: handlers run to their end and a ready select
\* fires.  Nothing obliges a browser to come or a context to end.
LFairness ==
  /\ \A r \in Requests : WF_lvars(Handle(r))
  /\ \A l \in Listeners : WF_lvars(WaitReturns(l))

LFairSpec == LSpec /\ LFairness

-----------------------------------------------------------------------------
LTypeOK ==
  /\ addr \in [Listeners -> Addrs \cup {None}]
  /\ open \subseteq Listeners
  /\ ch \in [Listeners -> Seq(AuthResult)]
  /\ err \in [Listeners -> 0 .. 1]
  /\ \A l \in Listeners : Len(ch[l]) <= 1
  /\ req \in [Requests -> Request]
  /\ wait \in [Listeners -> WaitPhase]
  /\ got \in [Listeners -> AuthResult \cup {None}]
  /\ ctx \subseteq Listeners

\* The requests with a code whose handler has tried to send it.
Sent(l) == {r \in Requests : /\ req[r].to = l
                             /\ req[r].query.kind = "code"
                             /\ req[r].phase \in {"sent", "answered", "cut"}}

\* A code is never lost before it is waited for: the redirect may arrive
\* between open(authURL) and Wait, and the buffer holds it until Wait runs.
NoLostCode ==
  \A l \in Listeners :
    Sent(l) # {} /\ wait[l] \in {"before", "waiting"} => ch[l] # <<>>

\* Later redirects (a reload, a second tab) never replace a code that is
\* buffered, and what Wait returned came from a request to this listener.
FirstCodeKept ==
  [][\A l \in Listeners :
       /\ ch[l] # <<>> => ch'[l] \in {ch[l], <<>>}
       /\ got[l] # got'[l] =>
            \E r \in Sent(l) : got'[l] = req[r].query.result]_lvars

\* No handler hangs on a full channel or on a listener nobody waits on, so
\* every browser request gets its page or sees its connection dropped.
HandlersEnd ==
  \A r \in Requests :
    req[r].phase = "handling" ~> req[r].phase \in {"answered", "cut"}

\* Wait returns once a code, an error or the end of its context is there.
WaitEnds ==
  \A l \in Listeners :
    wait[l] = "waiting" /\ (Sent(l) # {} \/ err[l] > 0 \/ l \in ctx)
      ~> wait[l] \in Ended
=============================================================================
