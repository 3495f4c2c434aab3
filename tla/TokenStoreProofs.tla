--------------------------- MODULE TokenStoreProofs ---------------------------
(***************************************************************************)
(* What a program can rely on when it asks Expired, and what a token       *)
(* request leaves behind, for any number of goroutines, any expires_in and *)
(* any Timeout and Margin.  The invariant ties every token that the        *)
(* program holds to what the bank knows of it (Traced), every request to   *)
(* the clock (Timely), and a request that no other overlapped to the       *)
(* tokens there were before it (LoneNewest).                               *)
(***************************************************************************)
EXTENDS TokenStore, SequenceTheorems, TLAPS

\* A request in flight is no older than the Timeout, and the token that the
\* bank issued for it was issued since.
Timely ==
  \A w \in Workers : Busy(w) =>
    /\ req[w].since <= now /\ now <= req[w].since + Timeout
    /\ req[w].pc = "issued" =>
         /\ req[w].id \in 1 .. Len(issued)
         /\ req[w].since <= issued[req[w].id].issuedAt

\* The life of a token with a positive expires_in ends so much after its issue.
LivesAsSaid ==
  \A i \in 1 .. Len(issued) :
    /\ issued[i].issuedAt <= now
    /\ issued[i].said > 0 =>
         issued[i].end = issued[i].issuedAt + issued[i].said

\* A token with an Expiry got it when it was decoded.
Traced ==
  \A t \in held :
    /\ t.id \in 1 .. Len(issued)
    /\ issued[t.id].issuedAt <= t.decodedAt
    /\ t.decodedAt <= issued[t.id].issuedAt + Timeout
    /\ t.expiry # NoTime =>
         /\ issued[t.id].said > 0
         /\ t.expiry = t.decodedAt + Duration(issued[t.id].said)

\* While a request that no other overlapped is in flight, no other one is, and
\* its token is newer than all that the program holds.
LoneNewest ==
  \A w \in Workers : req[w].alone =>
    /\ \A v \in Workers \ {w} : ~Busy(v)
    /\ req[w].pc = "issued" => \A t \in held : t.id < req[w].id

TInv ==
  /\ TTypeOK
  /\ Timely
  /\ LivesAsSaid
  /\ Traced
  /\ LoneNewest

-----------------------------------------------------------------------------
\* What fits a time.Duration is not changed by it.
LEMMA DurationFits ==
  ASSUME NEW e \in Int, 0 < e, e < DurationMax
  PROVE  Duration(e) = e
<1>1. DurationMax \in Nat \ {0}
  BY TimeAssumption
<1>2. (e + DurationMax) % (2 * DurationMax) = e + DurationMax
  BY <1>1
<1> QED
  BY <1>1, <1>2 DEF Duration

\* One that wraps around is shorter than what it was made from.
LEMMA DurationBelow ==
  ASSUME NEW e \in Int, 0 < e
  PROVE  Duration(e) <= e
<1> DEFINE m == 2 * DurationMax
           x == e + DurationMax
<1>1. DurationMax \in Nat \ {0} /\ m \in Nat \ {0} /\ x \in Nat
  BY TimeAssumption
<1>2. CASE x < m
  BY <1>1, <1>2 DEF Duration
<1>3. CASE m <= x
  <2>1. x % m < m
    BY <1>1
  <2>2. x % m \in Int /\ x % m <= x
    BY <1>1, <1>3, <2>1
  <2>3. QED
    BY <1>1, <2>2 DEF Duration
<1> QED
  BY <1>1, <1>2, <1>3

\* A Duration is a number, whatever wraps around.
LEMMA DurationType ==
  ASSUME NEW e \in Int
  PROVE  Duration(e) \in Int
BY TimeAssumption DEF Duration

\* To drop the Expiry of a token that the program holds keeps the rest of it.
LEMMA KeptTokens ==
  ASSUME TInv, NEW t \in Kept
  PROVE  \E u \in held :
           /\ t.id = u.id /\ t.decodedAt = u.decodedAt
           /\ t.expiry \in {u.expiry, NoTime}
<1>1. CASE t \in held
  BY <1>1
<1>2. CASE t \notin held
  <2>1. PICK u \in held : t = [u EXCEPT !.expiry = NoTime]
    BY <1>2 DEF Kept
  <2>2. u \in Token
    BY DEF TInv, TTypeOK
  <2>3. QED
    BY <2>1, <2>2 DEF Token
<1> QED
  BY <1>1, <1>2

\* A request begins: those in flight are no longer alone, and neither is it
\* unless there are none.
LEMMA PostStep ==
  ASSUME TInv, NEW w \in Workers, Post(w)
  PROVE  TInv'
<1>1. /\ now' = now /\ issued' = issued /\ token' = token /\ held' = held
      /\ req' = [v \in Workers |->
           IF v = w THEN [pc |-> "posted", since |-> now, id |-> 0,
                          alone |-> \A u \in Workers : ~Busy(u)]
           ELSE [req[v] EXCEPT !.alone = FALSE]]
  BY DEF Post
<1>2. /\ now \in Nat /\ Timeout \in Nat
      /\ req \in [Workers -> [pc : {"idle", "posted", "issued"}, since : Nat,
                              id : Nat, alone : BOOLEAN]]
  BY TimeAssumption DEF TInv, TTypeOK
<1>3. /\ req'[w].pc = "posted" /\ req'[w].since = now
      /\ req'[w].alone => \A u \in Workers : ~Busy(u)
  BY <1>1
<1>4. \A v \in Workers \ {w} :
        /\ req'[v].pc = req[v].pc /\ req'[v].since = req[v].since
        /\ req'[v].id = req[v].id /\ ~req'[v].alone
  BY <1>1, <1>2
<1>5. req' \in [Workers -> [pc : {"idle", "posted", "issued"}, since : Nat,
                            id : Nat, alone : BOOLEAN]]
  BY <1>1, <1>2
<1>6. TTypeOK'
  BY <1>1, <1>5 DEF TInv, TTypeOK, Kept
<1>7. Timely'
  BY <1>1, <1>2, <1>3, <1>4 DEF TInv, Timely, Busy
<1>8. LivesAsSaid' /\ Traced'
  BY <1>1 DEF TInv, LivesAsSaid, Traced
<1>9. LoneNewest'
  BY <1>1, <1>3, <1>4 DEF LoneNewest, Busy
<1> QED
  BY <1>6, <1>7, <1>8, <1>9 DEF TInv

\* The bank issues a token that is newer than all others.
LEMMA IssueStep ==
  ASSUME TInv, NEW w \in Workers, NEW e \in Announced, NEW life \in Lives,
         BankIssues(w, e, life)
  PROVE  TInv'
<1> DEFINE record == [issuedAt |-> now, said |-> e,
                      end |-> now + (IF e > 0 THEN e ELSE life)]
           n == Len(issued)
<1>1. /\ now' = now /\ token' = token /\ held' = held
      /\ issued' = Append(issued, record)
      /\ req' = [req EXCEPT ![w].pc = "issued", ![w].id = n + 1]
      /\ req[w].pc = "posted"
  BY DEF BankIssues
<1>2. /\ now \in Nat /\ issued \in Seq(Life) /\ e \in Int /\ life \in Nat
      /\ req \in [Workers -> [pc : {"idle", "posted", "issued"}, since : Nat,
                              id : Nat, alone : BOOLEAN]]
      /\ held \subseteq Token
  BY TimeAssumption DEF TInv, TTypeOK
<1>3. record \in Life /\ record.issuedAt = now /\ record.said = e
  BY <1>2 DEF Life
<1>4. e > 0 => record.end = now + e
  OBVIOUS
<1> HIDE DEF record
<1>5. /\ issued' \in Seq(Life) /\ Len(issued') = n + 1 /\ n \in Nat
      /\ issued'[n + 1] = record
      /\ \A i \in 1 .. n : issued'[i] = issued[i]
  BY <1>1, <1>2, <1>3
<1> HIDE DEF n
<1>6. /\ req'[w].pc = "issued" /\ req'[w].id = n + 1
      /\ req'[w].since = req[w].since /\ req'[w].alone = req[w].alone
      /\ \A v \in Workers \ {w} : req'[v] = req[v]
      /\ req' \in [Workers -> [pc : {"idle", "posted", "issued"}, since : Nat,
                               id : Nat, alone : BOOLEAN]]
  <2> DEFINE r == [pc |-> "issued", since |-> req[w].since, id |-> n + 1,
                   alone |-> req[w].alone]
  <2>1. req' = [req EXCEPT ![w] = r]
    <3>1. [[req EXCEPT ![w].pc = "issued"] EXCEPT ![w].id = n + 1][w] = r
      BY <1>2
    <3>2. \A v \in Workers \ {w} : req'[v] = req[v]
      BY <1>1, <1>2
    <3>3. req' = [v \in Workers |-> req'[v]]
      BY <1>1, <1>2
    <3>4. QED
      BY <1>1, <1>2, <3>1, <3>2, <3>3
  <2>2. r \in [pc : {"idle", "posted", "issued"}, since : Nat, id : Nat,
               alone : BOOLEAN]
    BY <1>2, <1>5
  <2>3. QED
    BY <1>2, <2>1, <2>2
<1>7. TTypeOK'
  BY <1>1, <1>5, <1>6 DEF TInv, TTypeOK, Kept
<1>8. Timely'
  BY <1>1, <1>2, <1>3, <1>5, <1>6 DEF TInv, Timely, Busy, n
<1>9. LivesAsSaid'
  <2>1. SUFFICES ASSUME NEW i \in 1 .. (n + 1)
                 PROVE  /\ issued'[i].issuedAt <= now
                        /\ issued'[i].said > 0 =>
                             issued'[i].end =
                               issued'[i].issuedAt + issued'[i].said
    BY <1>1, <1>5 DEF LivesAsSaid
  <2>2. CASE i = n + 1
    BY <1>2, <1>3, <1>4, <1>5, <2>2
  <2>3. CASE i \in 1 .. n
    BY <1>5, <2>3 DEF TInv, LivesAsSaid, n
  <2>4. QED
    BY <1>5, <2>2, <2>3
<1>10. Traced'
  BY <1>1, <1>5 DEF TInv, Traced, n
<1>11. LoneNewest'
  <2>1. \A t \in held : t.id < n + 1
    BY <1>2, <1>5 DEF TInv, Traced, n, Token
  <2>2. QED
    BY <1>1, <1>6, <2>1 DEF TInv, LoneNewest, Busy
<1> QED
  BY <1>7, <1>8, <1>9, <1>10, <1>11 DEF TInv

\* A reply is decoded within the Timeout; the token it brings joins those that
\* the program holds.
LEMMA ReceiveStep ==
  ASSUME TInv, NEW w \in Workers, Receive(w)
  PROVE  TInv'
<1> DEFINE i == req[w].id
           new == [id |-> i, decodedAt |-> now,
                   expiry |-> Expiry(issued[i].said)]
<1>1. /\ now' = now /\ issued' = issued
      /\ req' = [req EXCEPT ![w] = Idle] /\ req[w].pc = "issued"
      /\ token' = new /\ held' = held \cup {new}
  BY DEF Receive
<1>2. /\ now \in Nat /\ issued \in Seq(Life) /\ held \subseteq Token
      /\ Timeout \in Nat
      /\ req \in [Workers -> [pc : {"idle", "posted", "issued"}, since : Nat,
                              id : Nat, alone : BOOLEAN]]
  BY TimeAssumption DEF TInv, TTypeOK
<1>3. /\ i \in 1 .. Len(issued) /\ req[w].since <= issued[i].issuedAt
      /\ now <= req[w].since + Timeout
      /\ req[w].since \in Nat
  BY <1>1, <1>2 DEF TInv, Timely, Busy
<1>4. issued[i] \in Life /\ i \in Nat \ {0}
  BY <1>2, <1>3
<1>5. issued[i].issuedAt <= now
  BY <1>3 DEF TInv, LivesAsSaid
<1>6. issued[i].said \in Int /\ issued[i].issuedAt \in Nat
  BY <1>4 DEF Life
<1> DEFINE s == issued[i].said
           at == issued[i].issuedAt
<1>7. /\ Expiry(s) \in Int \cup {NoTime}
      /\ Expiry(s) # NoTime => s > 0 /\ Expiry(s) = now + Duration(s)
  <2>1. Duration(s) \in Int
    BY <1>6, DurationType
  <2>2. QED
    BY <1>2, <2>1 DEF Expiry
<1>8. at <= now /\ now <= at + Timeout
  BY <1>2, <1>3, <1>5, <1>6
<1> HIDE DEF i, s, at
<1>9. /\ new \in Token /\ new.id = i /\ new.decodedAt = now
      /\ new.expiry = Expiry(s)
  BY <1>2, <1>4, <1>7 DEF Token, s
<1> HIDE DEF new
<1>10. TTypeOK'
  <2>1. req' \in [Workers -> [pc : {"idle", "posted", "issued"}, since : Nat,
                              id : Nat, alone : BOOLEAN]]
    BY <1>1, <1>2 DEF Idle
  <2>2. token' \in Kept'
    BY <1>1 DEF Kept
  <2>3. QED
    BY <1>1, <1>2, <1>9, <2>1, <2>2 DEF TTypeOK
<1>11. /\ req'[w] = Idle
       /\ \A v \in Workers \ {w} : req'[v] = req[v]
  BY <1>1, <1>2
<1>12. Timely'
  BY <1>1, <1>11 DEF TInv, Timely, Busy, Idle
<1>13. LivesAsSaid'
  BY <1>1 DEF TInv, LivesAsSaid
<1>14. Traced'
  <2>1. SUFFICES ASSUME NEW t \in held \cup {new}
                 PROVE  /\ t.id \in 1 .. Len(issued)
                        /\ issued[t.id].issuedAt <= t.decodedAt
                        /\ t.decodedAt <= issued[t.id].issuedAt + Timeout
                        /\ t.expiry # NoTime =>
                             /\ issued[t.id].said > 0
                             /\ t.expiry = t.decodedAt
                                             + Duration(issued[t.id].said)
    BY <1>1 DEF Traced, Duration
  <2>2. CASE t \in held
    BY <2>2 DEF TInv, Traced
  <2>3. CASE t = new
    BY <1>3, <1>7, <1>8, <1>9, <2>3 DEF s, at, i
  <2>4. QED
    BY <2>2, <2>3
<1>15. LoneNewest'
  <2>1. \A v \in Workers \ {w} : ~req[v].alone
    BY <1>1 DEF TInv, LoneNewest, Busy
  <2>2. QED
    BY <1>11, <2>1 DEF LoneNewest, Idle
<1> QED
  BY <1>10, <1>12, <1>13, <1>14, <1>15 DEF TInv

\* A request fails, and what it was issued is lost.
LEMMA FailStep ==
  ASSUME TInv, NEW w \in Workers, Fail(w)
  PROVE  TInv'
<1>1. /\ now' = now /\ issued' = issued /\ token' = token /\ held' = held
      /\ req' = [req EXCEPT ![w] = Idle]
  BY DEF Fail
<1>2. req \in [Workers -> [pc : {"idle", "posted", "issued"}, since : Nat,
                           id : Nat, alone : BOOLEAN]]
  BY DEF TInv, TTypeOK
<1>3. /\ req'[w] = Idle
      /\ \A v \in Workers \ {w} : req'[v] = req[v]
      /\ req' \in [Workers -> [pc : {"idle", "posted", "issued"}, since : Nat,
                               id : Nat, alone : BOOLEAN]]
  BY <1>1, <1>2 DEF Idle
<1>4. TTypeOK'
  BY <1>1, <1>3 DEF TInv, TTypeOK, Kept
<1>5. Timely'
  BY <1>1, <1>3 DEF TInv, Timely, Busy, Idle
<1>6. LivesAsSaid' /\ Traced'
  BY <1>1 DEF TInv, LivesAsSaid, Traced
<1>7. LoneNewest'
  BY <1>1, <1>3 DEF TInv, LoneNewest, Busy, Idle
<1> QED
  BY <1>4, <1>5, <1>6, <1>7 DEF TInv

\* The clock waits for a request that has reached its Timeout to fail.
LEMMA TickStep ==
  ASSUME TInv, Tick
  PROVE  TInv'
<1>1. /\ issued' = issued /\ token' = token /\ held' = held /\ req' = req
      /\ now' = now + 1
      /\ \A w \in Workers : Busy(w) => now < req[w].since + Timeout
  BY DEF Tick
<1>2. /\ now \in Nat /\ issued \in Seq(Life) /\ Timeout \in Nat
      /\ req \in [Workers -> [pc : {"idle", "posted", "issued"}, since : Nat,
                              id : Nat, alone : BOOLEAN]]
  BY TimeAssumption DEF TInv, TTypeOK
<1>3. TTypeOK'
  BY <1>1, <1>2 DEF TInv, TTypeOK, Kept
<1>4. Timely'
  BY <1>1, <1>2 DEF TInv, Timely, Busy
<1>5. LivesAsSaid'
  <2>1. \A i \in 1 .. Len(issued) : issued[i] \in Life
    BY <1>2
  <2>2. QED
    BY <1>1, <1>2, <2>1 DEF TInv, LivesAsSaid, Life
<1>6. Traced' /\ LoneNewest'
  BY <1>1 DEF TInv, Traced, LoneNewest, Busy
<1> QED
  BY <1>3, <1>4, <1>5, <1>6 DEF TInv

\* No step breaks the invariant.
LEMMA TStep ==
  ASSUME TInv, [TNext]_tvars
  PROVE  TInv'
<1>1. ASSUME NEW t \in Kept \cup {None}, SetToken(t)
      PROVE  TInv'
  <2>1. /\ now' = now /\ issued' = issued /\ req' = req /\ held' = held
        /\ token' = t
    BY <1>1 DEF SetToken
  <2>2. TTypeOK'
    BY <1>1, <2>1 DEF TInv, TTypeOK, Kept
  <2>3. QED
    BY <2>1, <2>2
    DEF TInv, Timely, LivesAsSaid, Traced, LoneNewest, Busy
<1>2. CASE UNCHANGED tvars
  BY <1>2 DEF tvars, TInv, TTypeOK, Kept, Timely, LivesAsSaid, Traced,
    LoneNewest, Busy
<1> QED
  BY <1>1, <1>2, PostStep, IssueStep, ReceiveStep, FailStep, TickStep
  DEF TNext

\* The invariant of the token store, in every reachable state.
THEOREM TInvariance == TSpec => []TInv
<1>1. ASSUME TInit PROVE TInv
  <2>1. TTypeOK
    BY <1>1 DEF TInit, TTypeOK, Idle
  <2>2. /\ req = [w \in Workers |-> Idle] /\ held = {} /\ issued = <<>>
    BY <1>1 DEF TInit
  <2>3. QED
    BY <2>1, <2>2
    DEF TInv, Timely, LivesAsSaid, Traced, LoneNewest, Busy, Idle
<1>2. TInv /\ [TNext]_tvars => TInv'
  BY TStep
<1> QED
  BY <1>1, <1>2, PTL DEF TSpec

-----------------------------------------------------------------------------
\* Client.token is always one that the program was given (TTypeOK).
THEOREM StoreTypeCorrect == TSpec => []TTypeOK
<1>1. TInv => TTypeOK
  BY DEF TInv
<1> QED
  BY <1>1, TInvariance, PTL

\* What is known of a token that the client or the program holds.
LEMMA Origins ==
  ASSUME TInv, NEW t \in held \cup {token}, t # None
  PROVE  /\ t.id \in 1 .. Len(issued)
         /\ issued[t.id] \in Life
         /\ t.decodedAt \in Nat
         /\ issued[t.id].issuedAt <= t.decodedAt
         /\ t.decodedAt <= issued[t.id].issuedAt + Timeout
         /\ issued[t.id].said > 0 =>
              issued[t.id].end = issued[t.id].issuedAt + issued[t.id].said
         /\ t.expiry # NoTime =>
              /\ issued[t.id].said > 0
              /\ t.expiry = t.decodedAt + Duration(issued[t.id].said)
<1>1. t \in Kept
  BY DEF TInv, TTypeOK, Kept
<1>2. PICK u \in held : /\ t.id = u.id /\ t.decodedAt = u.decodedAt
                        /\ t.expiry \in {u.expiry, NoTime}
  BY <1>1, KeptTokens
<1>3. u \in Token /\ issued \in Seq(Life)
  BY DEF TInv, TTypeOK
<1>4. u.id \in 1 .. Len(issued) /\ u.decodedAt \in Nat
  BY <1>3 DEF TInv, Traced, Token
<1>5. issued[u.id] \in Life
  BY <1>3, <1>4
<1> QED
  BY <1>2, <1>4, <1>5 DEF TInv, Traced, LivesAsSaid

\* A token that Expired calls good is alive at the bank, or its reply took
\* longer than the margin, by no more than that, whatever expires_in was
\* (Token.Expired, postToken).
THEOREM ExpiredIsLateByMargin == TSpec => []GoodMeansAlive
<1>1. ASSUME TInv, NEW t \in held \cup {token}, t # None,
             t.expiry # NoTime, ~Expired(t)
      PROVE  /\ now <= issued[t.id].end + Max0(Latency(t) - Margin)
             /\ Latency(t) <= Timeout
  <2> DEFINE life == issued[t.id]
  <2>1. /\ life.said \in Int /\ life.issuedAt \in Nat
        /\ t.decodedAt \in Nat /\ life.said > 0
        /\ life.end = life.issuedAt + life.said
        /\ t.expiry = t.decodedAt + Duration(life.said)
        /\ life.issuedAt <= t.decodedAt
        /\ t.decodedAt <= life.issuedAt + Timeout
    BY <1>1, Origins DEF Life
  <2> HIDE DEF life
  <2>2. Duration(life.said) \in Int /\ Duration(life.said) <= life.said
    BY <2>1, DurationType, DurationBelow
  <2>3. /\ now \in Nat /\ Margin \in Nat /\ Timeout \in Nat
    BY <1>1, TimeAssumption DEF TInv, TTypeOK
  <2>4. t.expiry \in Int /\ t.expiry <= t.decodedAt + life.said
    BY <2>1, <2>2
  <2>5. now <= t.expiry - Margin
    BY <1>1, <2>3, <2>4 DEF Expired
  <2>6. QED
    BY <2>1, <2>3, <2>4, <2>5 DEF Latency, Max0, life
<1>2. TInv => GoodMeansAlive
  BY <1>1 DEF GoodMeansAlive
<1> QED
  BY <1>2, TInvariance, PTL

\* A token is not given up while it has the margin or more left to live, with
\* any expires_in that fits a time.Duration, missing or not positive included
\* (Token.Expired, postToken).
THEOREM ExpiredIsNotEarly == TSpec => []ExpiredMeansNearEnd
<1>1. ASSUME TInv, NEW t \in held \cup {token}, t # None,
             issued[t.id].said < DurationMax, Expired(t)
      PROVE  now > issued[t.id].end - Margin
  <2> DEFINE life == issued[t.id]
  <2>1. t.expiry # NoTime /\ now > t.expiry - Margin
    BY <1>1 DEF Expired
  <2>2. /\ life.said \in Int /\ life.issuedAt \in Nat
        /\ t.decodedAt \in Nat /\ life.said > 0
        /\ life.end = life.issuedAt + life.said
        /\ t.expiry = t.decodedAt + Duration(life.said)
        /\ life.issuedAt <= t.decodedAt
    BY <1>1, <2>1, Origins DEF Life
  <2>3. now \in Nat /\ Margin \in Nat
    BY <1>1, TimeAssumption DEF TInv, TTypeOK
  <2>4. life.said < DurationMax
    BY <1>1
  <2> HIDE DEF life
  <2>5. t.expiry = t.decodedAt + life.said
    BY <2>2, <2>4, DurationFits
  <2>6. QED
    BY <2>1, <2>2, <2>3, <2>5 DEF life
<1>2. TInv => ExpiredMeansNearEnd
  BY <1>1 DEF ExpiredMeansNearEnd
<1> QED
  BY <1>2, TInvariance, PTL

\* A token request that no other overlapped leaves a newer token than the
\* client had, and one that was overlapped leaves none that the bank issued
\* more than a Timeout before it, whatever was lost or put back before
\* (postToken, SetToken).
THEOREM RequestsRenew == TSpec => NoRegression
<1>1. ASSUME TInv, NEW w \in Workers, token # None, Receive(w)
      PROVE  /\ req[w].alone => token'.id > token.id
             /\ issued[token.id].issuedAt
                  <= issued[token'.id].issuedAt + Timeout
  <2> DEFINE new == issued[req[w].id]
             old == issued[token.id]
  <2>1. token \in Kept /\ req[w].pc = "issued"
    BY <1>1 DEF TInv, TTypeOK, Receive
  <2>2. token'.id = req[w].id
    BY <1>1 DEF Receive
  <2>3. PICK u \in held : token.id = u.id
    BY <1>1, <2>1, KeptTokens
  <2>4. u.id \in Nat /\ req[w].id \in Nat /\ req[w].since \in Nat
    BY <1>1 DEF TInv, TTypeOK, Token
  <2>5. req[w].alone => token'.id > token.id
    BY <1>1, <2>1, <2>2, <2>3, <2>4 DEF TInv, LoneNewest
  <2>6. /\ now <= req[w].since + Timeout
        /\ req[w].since <= new.issuedAt
        /\ req[w].id \in 1 .. Len(issued)
    BY <1>1, <2>1 DEF TInv, Timely, Busy
  <2>7. old.issuedAt <= now /\ token.id \in 1 .. Len(issued)
    BY <1>1, Origins DEF TInv, LivesAsSaid
  <2>8. old.issuedAt \in Nat /\ new.issuedAt \in Nat
    <3>1. issued \in Seq(Life)
      BY <1>1 DEF TInv, TTypeOK
    <3>2. old \in Life /\ new \in Life
      BY <2>6, <2>7, <3>1
    <3>3. QED
      BY <3>2 DEF Life
  <2>9. now \in Nat /\ Timeout \in Nat
    BY <1>1, TimeAssumption DEF TInv, TTypeOK
  <2> HIDE DEF new, old
  <2>10. old.issuedAt <= new.issuedAt + Timeout
    BY <2>4, <2>6, <2>7, <2>8, <2>9
  <2>11. QED
    BY <2>2, <2>5, <2>10 DEF new, old
<1>2. TInv => [\A w \in Workers : token # None /\ Receive(w) =>
                 /\ req[w].alone => token'.id > token.id
                 /\ issued[token.id].issuedAt
                      <= issued[token'.id].issuedAt + Timeout]_tvars
  BY <1>1
<1> QED
  BY <1>2, TInvariance, PTL DEF NoRegression
=============================================================================
