---------------------------- MODULE Authorization ----------------------------
(***************************************************************************)
(* What both ways of authorizing a consent promise, without calls, locks,  *)
(* listeners or messages: only a code that was granted for an authorize    *)
(* URL of this program is ever exchanged, each at most once; the client's  *)
(* token comes from such an exchange; and "authorized" is said of the very *)
(* URL the exchanged code was granted for.                                 *)
(***************************************************************************)
CONSTANTS
  Urls,     \* authorize URLs
  Foreign,  \* the subset of them that other programs make
  Codes,    \* authorization codes
  None

VARIABLES
  issued,   \* URLs this program has given out
  granted,  \* the URL each code was granted for, None before
  spent,    \* codes exchanged for a token
  token,    \* the code the client's token was issued for, or None
  told      \* pairs <<url, code>> that were answered "authorized"

avars == <<issued, granted, spent, token, told>>

AInit ==
  /\ issued = {}
  /\ granted = [x \in Codes |-> None]
  /\ spent = {}
  /\ token = None
  /\ told = {}

Issue(u) ==
  /\ u \notin Foreign
  /\ issued' = issued \cup {u}
  /\ UNCHANGED <<granted, spent, token, told>>

Grant(u, x) ==
  /\ u \in issued \cup Foreign
  /\ granted[x] = None
  /\ granted' = [granted EXCEPT ![x] = u]
  /\ UNCHANGED <<issued, spent, token, told>>

Spend(x) ==
  /\ granted[x] \in issued
  /\ x \notin spent
  /\ spent' = spent \cup {x}
  /\ UNCHANGED <<issued, granted, token, told>>

Keep(x) ==
  /\ x \in spent
  /\ token' = x
  /\ UNCHANGED <<issued, granted, spent, told>>

Tell(x) ==
  /\ x \in spent
  /\ token # None
  /\ told' = told \cup {<<granted[x], x>>}
  /\ UNCHANGED <<issued, granted, spent, token>>

\* The process restarts: the token is gone.
Forget ==
  /\ token' = None
  /\ UNCHANGED <<issued, granted, spent, told>>

ANext ==
  \/ \E u \in Urls : Issue(u)
  \/ \E u \in Urls, x \in Codes : Grant(u, x)
  \/ \E x \in Codes : Spend(x) \/ Keep(x) \/ Tell(x)
  \/ Forget

ASpec == AInit /\ [][ANext]_avars
=============================================================================
