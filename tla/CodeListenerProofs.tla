-------------------------- MODULE CodeListenerProofs --------------------------
(***************************************************************************)
(* The buffers of a CodeListener keep what was captured, for any number of *)
(* listeners, addresses and browser requests.  LInv is inductive: what is  *)
(* buffered came from a request to that listener (Buffered), and requests  *)
(* that are handled have an addressee (Routed).                            *)
(***************************************************************************)
EXTENDS CodeListener, SequenceTheorems, TLAPS

\* A request that reached a handler was addressed to a listener.
Routed ==
  \A r \in Requests :
    req[r].phase \in {"handling", "sent", "answered", "cut"} =>
      req[r].to \in Listeners /\ req[r].query \in Query

\* What a channel holds was captured from a request to its listener.
Buffered ==
  \A l \in Listeners : ch[l] # <<>> =>
    \E r \in Sent(l) : ch[l] = <<req[r].query.result>>

LInv ==
  /\ LTypeOK
  /\ Routed
  /\ Buffered
  /\ NoLostCode

-----------------------------------------------------------------------------
\* A full buffer stays as it is, an empty one takes the value.
LEMMA OfferKeeps ==
  ASSUME NEW S, NEW buf \in Seq(S), NEW v \in S, Len(buf) <= 1
  PROVE  /\ Offer(buf, v) \in Seq(S)
         /\ Len(Offer(buf, v)) = 1 /\ Offer(buf, v) # <<>>
         /\ buf # <<>> => Offer(buf, v) = buf
         /\ buf = <<>> => Offer(buf, v) = <<v>>
<1>1. CASE buf = <<>>
  <2>1. Append(buf, v) = <<v>>
    BY <1>1
  <2>2. Len(buf) = 0 /\ <<v>> \in Seq(S) /\ Len(<<v>>) = 1
    BY <1>1
  <2>3. QED
    BY <1>1, <2>1, <2>2 DEF Offer, ChanCap
<1>2. CASE buf # <<>>
  <2> DEFINE n == Len(buf)
  <2>1. n \in Nat /\ n <= 1 /\ n # 0
    BY <1>2, EmptySeq, LenProperties
  <2>2. Offer(buf, v) = IF n < 1 THEN Append(buf, v) ELSE buf
    BY DEF Offer, ChanCap
  <2> HIDE DEF n
  <2>3. n = 1
    BY <2>1
  <2>4. QED
    BY <1>2, <2>2, <2>3 DEF n
<1> QED
  BY <1>1, <1>2

\* A request with a code carries an AuthResult.
LEMMA CodeQuery ==
  ASSUME NEW q \in Query, q.kind = "code"
  PROVE  q.result \in AuthResult
BY DEF Query

\* Nothing is buffered and no browser has come when the program starts.
LEMMA LInitInv == LInit => LInv
<1> SUFFICES ASSUME LInit PROVE LInv
  OBVIOUS
<1>1. LTypeOK
  BY DEF LInit, LTypeOK, Request, WaitPhase
<1>2. Routed /\ Buffered /\ NoLostCode
  BY DEF LInit, Routed, Buffered, NoLostCode, Sent
<1> QED
  BY <1>1, <1>2 DEF LInv

-----------------------------------------------------------------------------
\* ListenForCode preserves the inductive invariant.
LEMMA ListenForCodeStep ==
  ASSUME LInv, NEW l \in Listeners, NEW a \in Addrs, ListenForCode(l, a)
  PROVE  LInv'
<1> USE DEF LInv, ListenForCode
<1>1. LTypeOK'
  BY DEF LTypeOK
<1>2. Routed' /\ Buffered' /\ NoLostCode'
  BY DEF Routed, Buffered, NoLostCode, Sent
<1> QED
  BY <1>1, <1>2

\* Visit preserves the inductive invariant.
LEMMA VisitStep ==
  ASSUME LInv, NEW r \in Requests, NEW a \in Addrs, NEW q \in Query,
         Visit(r, a, q)
  PROVE  LInv'
<1> USE DEF LInv, Visit
<1>1. LTypeOK'
  BY DEF LTypeOK, Request
<1>2. Routed'
  BY DEF LTypeOK, Routed
<1>3. \A l \in Listeners : Sent(l)' = Sent(l)
  BY DEF LTypeOK, Sent
<1>4. \A l \in Listeners : \A s \in Sent(l) : req'[s] = req[s]
  BY DEF LTypeOK, Sent
<1>5. Buffered' /\ NoLostCode'
  BY <1>3, <1>4 DEF Buffered, NoLostCode
<1> QED
  BY <1>1, <1>2, <1>5

\* HandleCode preserves the inductive invariant: the value it offers is that
\* of a request which from then on counts as sent.
LEMMA HandleCodeStep ==
  ASSUME LInv, NEW r \in Requests, HandleCode(r)
  PROVE  LInv'
<1> USE DEF LInv
<1>1. PICK l \in Listeners, v \in AuthResult :
        l = req[r].to /\ v = req[r].query.result
  BY CodeQuery DEF HandleCode, Handling, Routed
<1>2. ch[l] \in Seq(AuthResult) /\ Len(ch[l]) <= 1
  BY <1>1 DEF LTypeOK
<1>3. /\ Offer(ch[l], v) \in Seq(AuthResult)
      /\ Len(Offer(ch[l], v)) = 1 /\ Offer(ch[l], v) # <<>>
      /\ ch[l] # <<>> => Offer(ch[l], v) = ch[l]
      /\ ch[l] = <<>> => Offer(ch[l], v) = <<v>>
  BY <1>1, <1>2, OfferKeeps
<1>4. /\ ch' = [ch EXCEPT ![l] = Offer(ch[l], v)]
      /\ \A m \in Listeners :
           ch'[m] = IF m = l THEN Offer(ch[l], v) ELSE ch[m]
  BY <1>1 DEF HandleCode, LTypeOK
<1>5. /\ req' = [req EXCEPT ![r].phase = "sent"]
      /\ req[r].phase = "handling" /\ req[r].query.kind = "code"
      /\ UNCHANGED <<addr, open, err, wait, got, ctx>>
  BY DEF HandleCode, Handling
<1>6. LTypeOK'
  <2>1. req' \in [Requests -> Request]
    BY <1>5 DEF LTypeOK, Request
  <2>2. ch' \in [Listeners -> Seq(AuthResult)]
    BY <1>1, <1>3, <1>4 DEF LTypeOK
  <2>3. ASSUME NEW m \in Listeners PROVE Len(ch'[m]) <= 1
    <3>1. CASE m = l
      <4>1. Len(ch'[m]) = 1
        BY <1>3, <1>4, <3>1
      <4>2. QED
        BY <4>1
    <3>2. CASE m # l
      BY <1>4, <3>2 DEF LTypeOK
    <3>3. QED
      BY <3>1, <3>2
  <2>4. QED
    BY <1>5, <2>1, <2>2, <2>3 DEF LTypeOK
<1>7. Routed'
  BY <1>5 DEF Routed, LTypeOK, Request
<1>8. /\ \A m \in Listeners \ {l} : Sent(m)' = Sent(m)
      /\ Sent(l)' = Sent(l) \cup {r}
      /\ \A s \in Requests : req'[s].query = req[s].query
  BY <1>1, <1>5 DEF Sent, LTypeOK, Request
<1>9. Buffered'
  <2>1. SUFFICES ASSUME NEW m \in Listeners, ch'[m] # <<>>
                 PROVE  \E s \in Sent(m)' : ch'[m] = <<req'[s].query.result>>
    BY DEF Buffered
  <2>2. CASE m = l /\ ch[l] = <<>>
    <3>1. ch'[m] = <<v>> /\ r \in Sent(m)'
      BY <1>3, <1>4, <1>8, <2>2
    <3>2. v = req'[r].query.result
      BY <1>1, <1>8
    <3>3. QED
      BY <3>1, <3>2
  <2>3. CASE ch'[m] = ch[m] /\ ch[m] # <<>>
    <3>1. PICK s \in Sent(m) : ch[m] = <<req[s].query.result>>
      BY <2>3 DEF Buffered
    <3>2. s \in Requests
      BY DEF Sent
    <3>3. s \in Sent(m)'
      BY <1>8, <2>1
    <3>4. QED
      BY <1>8, <2>3, <3>1, <3>2, <3>3
  <2>4. QED
    BY <1>3, <1>4, <2>1, <2>2, <2>3
<1>10. NoLostCode'
  <2>1. ch'[l] # <<>>
    BY <1>1, <1>3, <1>4
  <2>2. QED
    BY <1>4, <1>5, <1>8, <2>1 DEF NoLostCode
<1> QED
  BY <1>6, <1>7, <1>9, <1>10

\* HandleError preserves the inductive invariant.
LEMMA HandleErrorStep ==
  ASSUME LInv, NEW r \in Requests, HandleError(r)
  PROVE  LInv'
<1> USE DEF LInv, HandleError, Handling
<1>1. LTypeOK'
  BY DEF LTypeOK, Request, Routed, ChanCap
<1>2. Routed'
  BY DEF LTypeOK, Routed, Request
<1>3. /\ \A l \in Listeners : Sent(l)' = Sent(l)
      /\ \A s \in Requests : req'[s].query = req[s].query
  BY DEF LTypeOK, Sent
<1>4. Buffered' /\ NoLostCode'
  BY <1>3 DEF Buffered, NoLostCode, Sent
<1> QED
  BY <1>1, <1>2, <1>4

\* HandleOther preserves the inductive invariant.
LEMMA HandleOtherStep ==
  ASSUME LInv, NEW r \in Requests, HandleOther(r)
  PROVE  LInv'
<1> USE DEF LInv, HandleOther, Handling
<1>1. LTypeOK'
  BY DEF LTypeOK, Request
<1>2. Routed'
  BY DEF LTypeOK, Routed, Request
<1>3. /\ \A l \in Listeners : Sent(l)' = Sent(l)
      /\ \A s \in Requests : req'[s].query = req[s].query
  BY DEF LTypeOK, Sent
<1>4. Buffered' /\ NoLostCode'
  BY <1>3 DEF Buffered, NoLostCode, Sent
<1> QED
  BY <1>1, <1>2, <1>4

\* Respond preserves the inductive invariant.
LEMMA RespondStep ==
  ASSUME LInv, NEW r \in Requests, Respond(r)
  PROVE  LInv'
<1> USE DEF LInv, Respond
<1>1. LTypeOK'
  BY DEF LTypeOK, Request
<1>2. Routed'
  BY DEF LTypeOK, Routed, Request
<1>3. /\ \A l \in Listeners : Sent(l)' = Sent(l)
      /\ \A s \in Requests : req'[s].query = req[s].query
  BY DEF LTypeOK, Sent
<1>4. Buffered' /\ NoLostCode'
  BY <1>3 DEF Buffered, NoLostCode, Sent
<1> QED
  BY <1>1, <1>2, <1>4

-----------------------------------------------------------------------------
\* WaitCode preserves the inductive invariant: Wait has returned, so the empty
\* buffer it leaves loses nothing.
LEMMA WaitCodeStep ==
  ASSUME LInv, NEW l \in Listeners, WaitCode(l)
  PROVE  LInv'
<1> USE DEF LInv
<1>1. PICK r \in Sent(l) : ch[l] = <<req[r].query.result>>
  BY DEF WaitCode, Buffered
<1>2. req[r].query.result \in AuthResult
  BY <1>1, CodeQuery DEF Sent, Routed
<1>3. Head(ch[l]) = req[r].query.result /\ Tail(ch[l]) = <<>>
  BY <1>1
<1>4. /\ ch' = [ch EXCEPT ![l] = <<>>]
      /\ got' = [got EXCEPT ![l] = req[r].query.result]
      /\ wait' = [wait EXCEPT ![l] = "code"]
      /\ UNCHANGED <<addr, open, err, req, ctx>>
  BY <1>3 DEF WaitCode
<1>5. \A m \in Listeners : ch'[m] = ch[m] \/ (m = l /\ ch'[m] = <<>>)
  BY <1>4
<1>6. LTypeOK'
  <2>1. ch' \in [Listeners -> Seq(AuthResult)]
    <3>1. <<>> \in Seq(AuthResult)
      OBVIOUS
    <3>2. QED
      BY <1>4, <3>1 DEF LTypeOK
  <2>2. \A m \in Listeners : Len(ch'[m]) <= 1
    BY <1>5 DEF LTypeOK
  <2>3. QED
    BY <1>2, <1>4, <2>1, <2>2 DEF LTypeOK, WaitPhase
<1>7. \A m \in Listeners : Sent(m)' = Sent(m)
  BY <1>4 DEF Sent
<1>8. Routed' /\ Buffered'
  BY <1>4, <1>5, <1>7 DEF Routed, Buffered
<1>9. NoLostCode'
  BY <1>4, <1>7 DEF NoLostCode, LTypeOK
<1> QED
  BY <1>6, <1>8, <1>9

\* What happens to a caller or to its listener, apart from taking a code.
CallerStep(l) ==
  Wait(l) \/ WaitError(l) \/ WaitCancelled(l) \/ Cancel(l) \/ Close(l)

\* The other steps of a listener's caller preserve the inductive invariant:
\* they touch no buffered code, and Wait begins to wait where it did not.
LEMMA CallerStepStep ==
  ASSUME LInv, NEW l \in Listeners, CallerStep(l)
  PROVE  LInv'
<1>1. LTypeOK'
  <2> USE DEF LInv, LTypeOK, WaitPhase
  <2>1. CASE Wait(l)
    BY <2>1 DEF Wait
  <2>2. CASE WaitError(l)
    <3>1. err[l] - 1 \in 0 .. 1
      BY <2>2 DEF WaitError
    <3>2. QED
      BY <2>2, <3>1 DEF WaitError
  <2>3. CASE WaitCancelled(l)
    BY <2>3 DEF WaitCancelled
  <2>4. CASE Cancel(l) \/ Close(l)
    BY <2>4 DEF Cancel, Close
  <2>5. QED
    BY <2>1, <2>2, <2>3, <2>4 DEF CallerStep
<1> USE DEF LInv, CallerStep, Wait, WaitError, WaitCancelled, Cancel, Close
<1>2. req' = req /\ ch' = ch
  OBVIOUS
<1>3. \A m \in Listeners :
        wait'[m] \in {"before", "waiting"} => wait[m] \in {"before", "waiting"}
  BY DEF LTypeOK
<1>4. Routed' /\ Buffered' /\ NoLostCode'
  BY <1>2, <1>3 DEF Routed, Buffered, NoLostCode, Sent
<1> QED
  BY <1>1, <1>4

-----------------------------------------------------------------------------
\* Every step of a listener, its callers and its browsers, by name.
LEMMA LNextCases ==
  ASSUME LNext
  PROVE  \/ \E l \in Listeners, a \in Addrs : ListenForCode(l, a)
         \/ \E r \in Requests, a \in Addrs, q \in Query : Visit(r, a, q)
         \/ \E r \in Requests : \/ HandleCode(r) \/ HandleError(r)
                                \/ HandleOther(r) \/ Respond(r)
         \/ \E l \in Listeners : WaitCode(l) \/ CallerStep(l)
BY DEF LNext, Handle, WaitReturns, CallerStep

\* The invariant is inductive.
LEMMA LNextInv ==
  ASSUME LInv, [LNext]_lvars
  PROVE  LInv'
<1>1. CASE LNext
  BY <1>1, LNextCases, ListenForCodeStep, VisitStep, HandleCodeStep,
    HandleErrorStep, HandleOtherStep, RespondStep, WaitCodeStep,
    CallerStepStep
<1>2. CASE UNCHANGED lvars
  BY <1>2 DEF lvars, LInv, LTypeOK, Routed, Buffered, NoLostCode, Sent
<1> QED
  BY <1>1, <1>2

\* Whatever browsers, handlers and callers do, every buffered code came from a
\* request to its own listener and none is lost before Wait takes it.
THEOREM LInvariance == LSpec => []LInv
<1>1. LInv /\ [LNext]_lvars => LInv'
  BY LNextInv
<1> QED
  BY <1>1, LInitInv, PTL DEF LSpec

\* CodeListener: both channels hold at most one value, and every variable has
\* its type.
THEOREM ListenerTypeCorrect == LSpec => []LTypeOK
<1>1. LInv => LTypeOK
  BY DEF LInv
<1> QED
  BY <1>1, LInvariance, PTL

\* CodeListener.Wait: a code whose page said "Authorization complete" is still
\* there when Wait comes for it, however long after the redirect that is.
THEOREM CodeNotLost == LSpec => []NoLostCode
<1>1. LInv => NoLostCode
  BY DEF LInv
<1> QED
  BY <1>1, LInvariance, PTL

-----------------------------------------------------------------------------
\* FirstCodeKept, for one step.
KeepsFirst ==
  \A l \in Listeners :
    /\ ch[l] # <<>> => ch'[l] \in {ch[l], <<>>}
    /\ got[l] # got'[l] =>
         \E r \in Sent(l) : got'[l] = req[r].query.result

\* Offer keeps what is buffered, WaitCode takes it, no other step touches it.
LEMMA StepKeepsFirst ==
  ASSUME LInv, [LNext]_lvars
  PROVE  KeepsFirst
<1> USE DEF LInv
<1>1. ASSUME NEW r \in Requests, HandleCode(r)
      PROVE  KeepsFirst
  <2> DEFINE l == req[r].to
             v == req[r].query.result
  <2>1. l \in Listeners /\ v \in AuthResult
    BY <1>1, CodeQuery DEF HandleCode, Handling, Routed
  <2>2. ch[l] # <<>> => Offer(ch[l], v) = ch[l]
    BY <2>1, OfferKeeps DEF LTypeOK
  <2>3. /\ ch' = [ch EXCEPT ![l] = Offer(ch[l], v)]
        /\ got' = got
    BY <1>1 DEF HandleCode, Handling
  <2> HIDE DEF l, v
  <2>4. QED
    BY <2>1, <2>2, <2>3 DEF KeepsFirst
<1>2. ASSUME NEW l \in Listeners, WaitCode(l)
      PROVE  KeepsFirst
  <2>1. PICK r \in Sent(l) : ch[l] = <<req[r].query.result>>
    BY <1>2 DEF WaitCode, Buffered
  <2>2. Head(ch[l]) = req[r].query.result /\ Tail(ch[l]) = <<>>
    BY <2>1
  <2>3. /\ ch' = [ch EXCEPT ![l] = <<>>]
        /\ got' = [got EXCEPT ![l] = req[r].query.result]
    BY <1>2, <2>2 DEF WaitCode
  <2>4. QED
    BY <2>1, <2>3 DEF KeepsFirst, LTypeOK
<1>3. CASE UNCHANGED <<ch, got>>
  BY <1>3 DEF KeepsFirst
<1>4. \/ \E r \in Requests : HandleCode(r)
      \/ \E l \in Listeners : WaitCode(l)
      \/ UNCHANGED <<ch, got>>
  BY LNextCases DEF lvars, ListenForCode, Visit, Handling, HandleError,
    HandleOther, Respond, CallerStep, Wait, WaitError, WaitCancelled, Cancel,
    Close
<1> QED
  BY <1>1, <1>2, <1>3, <1>4

\* CodeListener: a reload or a second tab never replaces the code that came
\* first, and Wait returns what a browser sent to this very listener.
THEOREM FirstCodeStays == LSpec => FirstCodeKept
<1>1. LInv /\ [LNext]_lvars => KeepsFirst
  BY StepKeepsFirst
<1>2. [][LNext]_lvars /\ []LInv => [][KeepsFirst]_lvars
  BY <1>1, PTL
<1> QED
  BY <1>2, LInvariance, PTL DEF LSpec, FirstCodeKept, KeepsFirst
=============================================================================
