------------------------------ MODULE TokenStore ------------------------------
(***************************************************************************)
(* Client.token over time (oauth.go): token requests of several goroutines *)
(* take up to the http.Client's Timeout, the bank starts a token's life    *)
(* when it issues it, postToken computes Expiry when the reply has been    *)
(* read, and Expired compares the clock with Expiry less a margin.  The    *)
(* program may put back a token it holds, or one it has saved as JSON,     *)
(* which has no Expiry.                                                    *)
(*                                                                         *)
(* Tokens are named by the order in which the bank issues them.            *)
(***************************************************************************)
EXTENDS Integers, Sequences

CONSTANTS
  Workers,      \* goroutines that request tokens
  Announced,    \* values of expires_in; 0 also for a reply without it
  Lives,        \* lifetimes of tokens whose expires_in is not positive
  Timeout,      \* of the http.Client: 60 s
  Margin,       \* of Expired: 30 s
  DurationMax,  \* largest time.Duration, plus one
  MaxTime,      \* bound on the clock
  MaxIssued,    \* bound on the tokens issued
  None,         \* a nil token
  NoTime        \* the zero time.Time

ASSUME TimeAssumption ==
  /\ Announced \subseteq Int /\ Lives \subseteq Nat
  /\ Timeout \in Nat /\ Margin \in Nat
  /\ DurationMax \in Nat \ {0}
  /\ MaxTime \in Nat /\ MaxIssued \in Nat
  /\ NoTime \notin Int

VARIABLES
  now,      \* the clock
  issued,   \* what the bank knows of each token
  req,      \* the request of each worker
  token,    \* Client.token
  held      \* tokens returned to the program

tvars == <<now, issued, req, token, held>>

\* issuedAt and end bound the token's life at the bank.
Life == [issuedAt : Nat, end : Int, said : Int]

\* decodedAt is when Expiry was computed (history).
Token == [id : Nat \ {0}, expiry : Int \cup {NoTime}, decodedAt : Nat]

Idle == [pc |-> "idle", since |-> 0, id |-> 0, alone |-> FALSE]

TInit ==
  /\ now = 0
  /\ issued = <<>>
  /\ req = [w \in Workers |-> Idle]
  /\ token = None
  /\ held = {}

Busy(w) == req[w].pc # "idle"

\* Two's complement: the product of expires_in and time.Second wraps around.
Duration(e) == ((e + DurationMax) % (2 * DurationMax)) - DurationMax

\* Mutant: a Duration is made of a negative or missing expires_in as well.
Expiry_Always(e) == now + Duration(e)

\* The Expiry of a token whose reply has been read.
Expiry(e) == IF e > 0 THEN now + Duration(e) ELSE NoTime

\* Mutant: the margin is added.
Expired_Late(t) ==
  t = None \/ (t.expiry # NoTime /\ now > t.expiry + Margin)

Expired(t) == t = None \/ (t.expiry # NoTime /\ now > t.expiry - Margin)

-----------------------------------------------------------------------------
\* ExchangeToken or RefreshToken.
Post(w) ==
  /\ ~Busy(w)
  /\ req' = [v \in Workers |->
       IF v = w THEN [pc |-> "posted", since |-> now, id |-> 0,
                      alone |-> \A u \in Workers : ~Busy(u)]
       ELSE [req[v] EXCEPT !.alone = FALSE]]
  /\ UNCHANGED <<now, issued, token, held>>

\* The bank issues a token, and its life begins.
BankIssues(w, e, life) ==
  /\ req[w].pc = "posted"
  /\ Len(issued) < MaxIssued
  /\ issued' = Append(issued,
       [issuedAt |-> now, said |-> e,
        end |-> now + (IF e > 0 THEN e ELSE life)])
  /\ req' = [req EXCEPT ![w].pc = "issued", ![w].id = Len(issued) + 1]
  /\ UNCHANGED <<now, token, held>>

\* Mutant: a token that is there already is not replaced.
Receive_KeepsFirst(w) ==
  /\ req[w].pc = "issued"
  /\ req' = [req EXCEPT ![w] = Idle]
  /\ token' = IF token # None THEN token
              ELSE [id |-> req[w].id, decodedAt |-> now,
                    expiry |-> Expiry(issued[req[w].id].said)]
  /\ held' = held \cup {token'}
  /\ UNCHANGED <<now, issued>>

\* Mutant: the caller gets another token than the one that is stored.
Receive_KeepsOwnCopy(w) ==
  /\ req[w].pc = "issued"
  /\ req' = [req EXCEPT ![w] = Idle]
  /\ token' = [id |-> req[w].id, decodedAt |-> now,
               expiry |-> Expiry(issued[req[w].id].said)]
  /\ UNCHANGED <<now, issued, held>>

\* The reply has been read and decoded; the token is stored and returned.
Receive(w) ==
  /\ req[w].pc = "issued"
  /\ req' = [req EXCEPT ![w] = Idle]
  /\ token' = [id |-> req[w].id, decodedAt |-> now,
               expiry |-> Expiry(issued[req[w].id].said)]
  /\ held' = held \cup {token'}
  /\ UNCHANGED <<now, issued>>

\* Refused, undecodable, cancelled, or no reply within the Timeout: a token
\* may have been issued all the same.
Fail(w) ==
  /\ Busy(w)
  /\ req' = [req EXCEPT ![w] = Idle]
  /\ UNCHANGED <<now, issued, token, held>>

\* What the program can put back: a token it holds or has decoded from JSON.
Kept == held \cup {[t EXCEPT !.expiry = NoTime] : t \in held}

SetToken(t) ==
  /\ token' = t
  /\ UNCHANGED <<now, issued, req, held>>

\* Time passes; a request that has reached the Timeout fails first.
Tick ==
  /\ now < MaxTime
  /\ \A w \in Workers : Busy(w) => now < req[w].since + Timeout
  /\ now' = now + 1
  /\ UNCHANGED <<issued, req, token, held>>

TNext ==
  \/ \E w \in Workers : Post(w) \/ Receive(w) \/ Fail(w)
  \/ \E w \in Workers, e \in Announced, life \in Lives : BankIssues(w, e, life)
  \/ \E t \in Kept \cup {None} : SetToken(t)
  \/ Tick

TSpec == TInit /\ [][TNext]_tvars

-----------------------------------------------------------------------------
\* Every variable holds a value of its type, and the client's token is one that
\* the program was given.
TTypeOK ==
  /\ now \in Nat
  /\ issued \in Seq(Life)
  /\ req \in [Workers -> [pc : {"idle", "posted", "issued"}, since : Nat,
                          id : Nat, alone : BOOLEAN]]
  /\ token \in Kept \cup {None}
  /\ held \subseteq Token

Max0(x) == IF x > 0 THEN x ELSE 0

\* How long the reply took: Expiry is that much later than the life's end.
Latency(t) == t.decodedAt - issued[t.id].issuedAt

\* Expired can be relied on as far as the margin goes, whatever expires_in the
\* bank announces, one too long for a time.Duration included.  A token with an
\* Expiry that it calls good is alive at the bank, or was received so late
\* that the margin did not make up for it; and then it has been dead for at
\* most Timeout - Margin.
GoodMeansAlive ==
  \A t \in held \cup {token} :
    t # None /\ t.expiry # NoTime /\ ~Expired(t) =>
      /\ now <= issued[t.id].end + Max0(Latency(t) - Margin)
      /\ Latency(t) <= Timeout

\* A token is not given up before its time: what Expired calls expired has
\* less than Margin left to live, also if its expires_in was missing, zero or
\* negative, or if it comes from JSON.  Only an expires_in that overflows a
\* time.Duration is outside, and by GoodMeansAlive it errs to this side.
ExpiredMeansNearEnd ==
  \A t \in held \cup {token} :
    t # None /\ issued[t.id].said < DurationMax /\ Expired(t) =>
      now > issued[t.id].end - Margin

\* A token request that no other request overlapped leaves the client with a
\* newer token than it had, whatever earlier requests timed out or were lost
\* and whatever the program put back.  One that was overlapped may replace a
\* newer token by an older one, but only by one that the bank issued at most
\* a Timeout before it: the order of replies never brings back an old token.
NoRegression ==
  [][\A w \in Workers : token # None /\ Receive(w) =>
       /\ req[w].alone => token'.id > token.id
       /\ issued[token.id].issuedAt
            <= issued[token'.id].issuedAt + Timeout]_tvars
===============================================================================
