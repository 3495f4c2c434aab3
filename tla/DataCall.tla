------------------------------- MODULE DataCall -------------------------------
(***************************************************************************)
(* The life of the calls that an rbhu.Client sends to the bank: a caller   *)
(* fills the parameters, a generated builder makes the request, the        *)
(* request editor adds the gateway's headers and the bearer it finds then, *)
(* the reply is parsed and classified.  Calls run concurrently, one        *)
(* goroutine each, while token requests and SetToken replace the client's  *)
(* token.  Each call slot is used once, so a slot names its call.          *)
(***************************************************************************)
EXTENDS GeneratedClient

CONSTANTS
  Calls,      \* calls, each made at most once
  Catalog,    \* the operations of the generated clients, by client and name
  Replies,    \* responses the bank or the gateway may give
  Tokens,     \* access tokens a program can pass to SetToken
  None        \* no reply, no operation

Vias == {"direct", "typed", "consent", "raw", "token"}

\* The header fields of an operation.
HeaderFields(i) ==
  Fields(Catalog[i].request.params) \ Catalog[i].request.query

\* No operation has a parameter for a header that builder and editor always
\* set themselves, and Authorization is never a required UUID.
ASSUME CatalogAssumption ==
  /\ Replies \subseteq Response
  /\ \A i \in DOMAIN Catalog :
       /\ Catalog[i].edited \in BOOLEAN
       /\ Catalog[i].request.body \in {"none", "json", "form"}
       /\ HeaderFields(i) \subseteq
            HeaderNames \ {"Content-Type", "Date", "Accept", "User-Agent"}
       /\ "Authorization" \notin Catalog[i].request.params.uuid
  /\ None \notin Replies
  /\ None \notin DOMAIN Catalog

\* A helper fills fields of its operation's own struct.
ASSUME HelpersAssumption ==
  \A i \in DOMAIN Catalog :
    /\ i \in {<<"Accounts", "GetAccountList">>, <<"Accounts", "GetBalances">>,
              <<"Accounts", "GetTransactionList">>,
              <<"accountsRawClient", "GetBalances">>,
              <<"accountsRawClient", "GetTransactionList">>} =>
         {"X-Request-ID", "Consent-ID"} \subseteq HeaderFields(i)
    /\ i \in {<<"Accounts", "GetTransactionList">>,
              <<"accountsRawClient", "GetTransactionList">>} =>
         "bookingStatus" \in Catalog[i].request.query
    /\ i = <<"Consent", "NewConsent">> =>
         {"client_id", "X-Request-ID", "PSU-ID"} \subseteq HeaderFields(i)

VARIABLES
  token,      \* Client.token
  clientID,   \* cfg.ClientID, which New does not check: it may be blank
  call,       \* the calls
  seen        \* tokens that were current at some time of a running call

vars == <<token, clientID, call, seen>>

\* Client.token is nil, or points to a Token, whose AccessToken may be "".
NoToken == Value("none", "nobody")
EmptyToken == Value("empty", "nobody")
TokenValues ==
  {NoToken, EmptyToken} \cup {Value("token", x) : x \in Tokens \cup Calls}

Configured == Value("configured", "client")

NoAnswer == [kind |-> "none", status |-> 0]
Error == [kind |-> "error", status |-> 0]
APIError(rsp) == [kind |-> "api", status |-> rsp.status]
Success(rsp) == [kind |-> "ok", status |-> rsp.status]

\* new -> built -> sent -> replied -> done
New == [phase |-> "new", via |-> "direct", op |-> None, given |-> <<>>,
        header |-> [n \in HeaderNames |-> Blank], rsp |-> None,
        answer |-> NoAnswer]

Init ==
  /\ token \in {NoToken} \cup {Value("token", x) : x \in Tokens}
  /\ clientID \in {Blank, Configured}
  /\ call = [k \in Calls |-> New]
  /\ seen = [k \in Calls |-> {}]

Running(c) == c.phase \notin {"new", "done"}

\* A call under way sees the token t as well; one that ends forgets its own.
See(t) == seen' = [k \in Calls |->
                     IF Running(call'[k]) THEN seen[k] \cup {t} ELSE {}]

\* The call ends: its locals are gone, its reply and its answer are kept.
Ended(c, answer) ==
  [New EXCEPT !.phase = "done", !.via = c.via, !.rsp = c.rsp,
     !.answer = answer]

End(k, answer) ==
  /\ call' = [call EXCEPT ![k] = Ended(@, answer)]
  /\ UNCHANGED clientID

\* Mutant: return nil, nil.
Fail_Silently(k) ==
  /\ End(k, NoAnswer)
  /\ See(token)
  /\ UNCHANGED token

\* The caller gets a plain error.
Fail(k) ==
  /\ End(k, Error)
  /\ See(token)
  /\ UNCHANGED token

-----------------------------------------------------------------------------
(* The caller and the builder. *)

\* Method X of a generated client: the builder runs first.
Begin(k, via, i, given, isNil) ==
  /\ call[k].phase = "new"
  /\ call' = [call EXCEPT ![k] =
       [New EXCEPT !.phase = "built", !.via = via, !.op = i, !.given = given,
          !.header = BuildHeaders(Catalog[i].request, given, isNil)]]
  /\ seen' = [seen EXCEPT ![k] = {token}]
  /\ UNCHANGED <<token, clientID>>

\* The headers whose values some part of the program looks at.
Control == {"X-Request-ID", "client_id", "Authorization"}

\* What a caller may fill in: nothing, the control fields, all fields.
Fillings(k, i) ==
  LET fields == Fields(Catalog[i].request.params)
  IN  {[n \in s |-> Value("caller", k)] :
         s \in {{}, Control \cap fields, fields}}

\* Only the helpers can reach the client that reads raw replies.
Exported(i) == i[1] # "accountsRawClient"

\* An operation called through an accessor, with Params or with nil.
DirectCall(k, i) ==
  /\ Exported(i)
  /\ \/ \E given \in Fillings(k, i) : Begin(k, "direct", i, given, FALSE)
     \/ Begin(k, "direct", i, <<>>, TRUE)

\* A path, a parameter or the body cannot be encoded, or the URL is none: no
\* request is made.
BuildFails(k) == call[k].phase = "new" /\ Fail(k)

\* newUUID and newRequestID: each call draws its own.
newUUID(k) == Value("fresh", k)

\* The fields the account helpers fill.
AccountParams(k) ==
  [n \in {"X-Request-ID", "Consent-ID"} |->
     IF n = "X-Request-ID" THEN newUUID(k) ELSE Value("caller", k)]

ListAccounts(k) ==
  Begin(k, "typed", <<"Accounts", "GetAccountList">>, AccountParams(k), FALSE)

Balances(k) ==
  Begin(k, "typed", <<"Accounts", "GetBalances">>, AccountParams(k), FALSE)

\* The booking status defaults to "booked".
TransactionParams(k) ==
  [n \in {"X-Request-ID", "Consent-ID", "bookingStatus"} |->
     IF n = "X-Request-ID" THEN newUUID(k) ELSE Value("caller", k)]

Transactions(k) ==
  Begin(k, "typed", <<"Accounts", "GetTransactionList">>, TransactionParams(k),
        FALSE)

BalancesRaw(k) ==
  Begin(k, "raw", <<"accountsRawClient", "GetBalances">>, AccountParams(k),
        FALSE)

TransactionsRaw(k) ==
  Begin(k, "raw", <<"accountsRawClient", "GetTransactionList">>,
        TransactionParams(k), FALSE)

\* client_id is cfg.ClientID, PSU-ID is given by the caller or left nil.
ConsentParams(k, withPSU) ==
  [n \in {"client_id", "X-Request-ID"}
           \cup (IF withPSU THEN {"PSU-ID"} ELSE {}) |->
     CASE n = "client_id" -> clientID
       [] n = "X-Request-ID" -> newUUID(k)
       [] OTHER -> Value("caller", k)]

CreateAISConsent(k) ==
  \E withPSU \in BOOLEAN :
    Begin(k, "consent", <<"Consent", "NewConsent">>, ConsentParams(k, withPSU),
          FALSE)

\* A call without IBANs is refused before anything is built.
NoIBAN(k) == call[k].phase = "new" /\ Fail(k)

\* ExchangeToken and RefreshToken: postToken builds its request by hand and no
\* editor runs.
postToken(k) ==
  /\ call[k].phase = "new"
  /\ call' = [call EXCEPT ![k] =
       [New EXCEPT !.phase = "sent", !.via = "token",
          !.header = [n \in HeaderNames |->
             IF n \in {"Content-Type", "Accept", "User-Agent"} THEN Literal
             ELSE Blank]]]
  /\ seen' = [seen EXCEPT ![k] = {token}]
  /\ UNCHANGED <<token, clientID>>

-----------------------------------------------------------------------------
(* The request editor, the bank and the answer. *)

\* Mutant: the access token is not compared with "".
requestEditor_EmptyBearer(k, header, t) ==
  [n \in HeaderNames |->
     CASE n = "Authorization" /\ t # NoToken -> Value("bearer", t.of)
       [] n = "client_id" /\ header[n] = Blank -> clientID
       [] n = "X-Request-ID" /\ header[n] = Blank -> Value("fallback", k)
       [] n \in {"Date", "Accept", "User-Agent"} -> Literal
       [] OTHER -> header[n]]

\* Mutant: the client's values are set without looking for the caller's.
requestEditor_Overwrites(k, header, t) ==
  [n \in HeaderNames |->
     CASE n = "Authorization" /\ t.kind = "token" -> Value("bearer", t.of)
       [] n = "client_id" /\ clientID # Blank -> clientID
       [] n = "X-Request-ID" -> Value("fallback", k)
       [] n \in {"Date", "Accept", "User-Agent"} -> Literal
       [] OTHER -> header[n]]

\* The headers after requestEditor, if t is the token it reads.
requestEditor(k, header, t) ==
  [n \in HeaderNames |->
     CASE n = "Authorization" /\ t.kind = "token" -> Value("bearer", t.of)
       [] n = "client_id" /\ header[n] = Blank -> clientID
       [] n = "X-Request-ID" /\ header[n] = Blank -> Value("fallback", k)
       [] n \in {"Date", "Accept", "User-Agent"} -> Literal
       [] OTHER -> header[n]]

\* applyEditors, then Do.  A client wired without the editor sends what the
\* builder made.
Send(k) ==
  /\ call[k].phase = "built"
  /\ call' = [call EXCEPT ![k].phase = "sent",
       ![k].header = IF Catalog[call[k].op].edited
                     THEN requestEditor(k, @, token) ELSE @]
  /\ UNCHANGED <<token, clientID, seen>>

BankReplies(k, rsp) ==
  /\ call[k].phase = "sent"
  /\ call' = [call EXCEPT ![k].phase = "replied", ![k].rsp = rsp]
  /\ UNCHANGED <<token, clientID, seen>>

\* Mutant: newHTTPClient sets no Timeout, and the connection stays up.
NoReply_NoTimeout(k) == FALSE

\* Transport error, the 60 s Timeout, a cancelled context.
NoReply(k) == call[k].phase = "sent" /\ Fail(k)

IsSuccess(rsp) == rsp.status \in 200 .. 299

\* The typed helpers: the parser's error, else JSON200, else an APIError.
TypedAnswer(parse, rsp, bodies) ==
  IF ~Parses(parse, rsp) THEN Error
  ELSE IF /\ rsp.status = 200 /\ rsp.body \in bodies
          /\ Destination(parse, rsp) = "struct" THEN Success(rsp)
  ELSE APIError(rsp)

\* Mutant: the status is not looked at.
ReadAnswer_AnyStatus(rsp) == IF rsp.body = "cut" THEN Error ELSE Success(rsp)

\* readRawBody, and the part of postToken that reads like it.
ReadAnswer(rsp) ==
  IF rsp.body = "cut" THEN Error
  ELSE IF IsSuccess(rsp) THEN Success(rsp) ELSE APIError(rsp)

\* A token reply must also decode.
TokenAnswer(rsp) ==
  IF IsSuccess(rsp) /\ rsp.body \notin Accepted("struct") THEN Error
  ELSE ReadAnswer(rsp)

\* What the caller of a method gets.
Answer(c) ==
  CASE c.via = "direct" ->
         IF Parses(Catalog[c.op].parse, c.rsp) THEN Success(c.rsp) ELSE Error
    [] c.via = "typed" ->
         TypedAnswer(Catalog[c.op].parse, c.rsp, BodyShapes)
    [] c.via = "consent" -> TypedAnswer(Catalog[c.op].parse, c.rsp, {"full"})
    [] c.via = "raw" -> ReadAnswer(c.rsp)
    [] c.via = "token" -> TokenAnswer(c.rsp)

Return(k) ==
  /\ call[k].phase = "replied"
  /\ call[k].via # "token"
  /\ End(k, Answer(call[k]))
  /\ See(token)
  /\ UNCHANGED token

\* The token a reply decodes to.  A reply without access_token decodes too.
Decoded(k) ==
  IF call[k].rsp.body = "full" THEN Value("token", k) ELSE EmptyToken

\* Mutant: the token is stored before the status is looked at.
ReturnToken_StoresFirst(k) ==
  /\ call[k].phase = "replied"
  /\ call[k].via = "token"
  /\ End(k, Answer(call[k]))
  /\ token' = IF call[k].rsp.body \in Accepted("struct") THEN Decoded(k)
              ELSE token
  /\ See(token')

\* postToken stores what it decoded and returns it.
ReturnToken(k) ==
  /\ call[k].phase = "replied"
  /\ call[k].via = "token"
  /\ End(k, Answer(call[k]))
  /\ token' = IF Answer(call[k]).kind = "ok" THEN Decoded(k) ELSE token
  /\ See(token')

\* The tokens that earlier token requests returned to the program.
Obtained ==
  {Decoded(k) : k \in {j \in Calls : /\ call[j].via = "token"
                                    /\ call[j].answer.kind = "ok"}}

\* The program sets or drops the token (SetToken, WithToken).
SetToken(t) ==
  /\ token' = t
  /\ UNCHANGED <<clientID, call>>
  /\ See(t)

-----------------------------------------------------------------------------
\* The helpers exist for the operations they call.
Helpers(k) ==
  \/ <<"Accounts", "GetAccountList">> \in DOMAIN Catalog /\ ListAccounts(k)
  \/ <<"Accounts", "GetBalances">> \in DOMAIN Catalog /\ Balances(k)
  \/ <<"Accounts", "GetTransactionList">> \in DOMAIN Catalog
       /\ Transactions(k)
  \/ <<"accountsRawClient", "GetBalances">> \in DOMAIN Catalog
       /\ BalancesRaw(k)
  \/ <<"accountsRawClient", "GetTransactionList">> \in DOMAIN Catalog
       /\ TransactionsRaw(k)
  \/ <<"Consent", "NewConsent">> \in DOMAIN Catalog
       /\ (CreateAISConsent(k) \/ NoIBAN(k))

CallBegin(k) ==
  \/ \E i \in DOMAIN Catalog : DirectCall(k, i)
  \/ BuildFails(k)
  \/ Helpers(k)
  \/ postToken(k)

\* What the goroutine of a call does by itself.
CallStep(k) == Send(k) \/ NoReply(k) \/ Return(k) \/ ReturnToken(k)

Next ==
  \/ \E k \in Calls : CallBegin(k) \/ CallStep(k)
  \/ \E k \in Calls, rsp \in Replies : BankReplies(k, rsp)
  \/ \E t \in {NoToken, EmptyToken} \cup {Value("token", x) : x \in Tokens}
               \cup Obtained :
       SetToken(t)

Spec == Init /\ [][Next]_vars

\* A goroutine is scheduled, and a request without reply times out.  The bank
\* need not reply.
FairSpec == Spec /\ \A k \in Calls : WF_vars(CallStep(k))

-----------------------------------------------------------------------------
HeaderValue ==
  {Blank, NilUUID, Literal, Configured}
    \cup [kind : {"caller", "fresh", "fallback"}, of : Calls]
    \cup [kind : {"bearer"}, of : Tokens \cup Calls]

\* Every variable holds a value of its type, and a call that has ended has
\* an answer: a result or an error, never neither.
DTypeOK ==
  /\ token \in TokenValues
  /\ clientID \in {Blank, Configured}
  /\ DOMAIN call = Calls
  /\ \A k \in Calls :
       /\ call[k].via \in Vias
       /\ call[k].op \in DOMAIN Catalog \cup {None}
       /\ call[k].rsp \in Replies \cup {None}
       /\ call[k].header \in [HeaderNames -> HeaderValue]
       /\ call[k].phase \in {"new", "built", "sent", "replied", "done"}
       /\ call[k].phase = "done" <=> call[k].answer # NoAnswer
  /\ seen \in [Calls -> SUBSET TokenValues]

OnTheWire(k) == call[k].phase \in {"sent", "replied"}

\* A helper never makes a result of a refusal: ListAccounts, Balances,
\* Transactions and CreateAISConsent return one for a 200 reply only, the raw
\* reads and the token requests for a 2xx reply.  An APIError tells the
\* status of the reply that the call got.
RefusalNotSuccess ==
  \A k \in Calls :
    LET c == call[k] IN
    /\ c.answer.kind = "ok" /\ c.via \in {"typed", "consent"} =>
         c.rsp.status = 200
    /\ c.answer.kind = "ok" /\ c.via \in {"raw", "token"} => IsSuccess(c.rsp)
    /\ c.answer.kind = "api" =>
         c.via # "direct" /\ c.rsp # None /\ c.answer.status = c.rsp.status

\* However SetToken, token replies and calls interleave, the bearer of a
\* request is a token that was current at some time of its call, so a call
\* begun after a token was replaced never carries the old one; there is never
\* a bearer without a token; and a call that ran while all current tokens were
\* usable is not sent without one.
BearerCurrent ==
  \A k \in Calls :
    LET h == call[k].header["Authorization"] IN
    OnTheWire(k) /\ h.kind # "caller" =>
    /\ h.kind = "bearer" => Value("token", h.of) \in seen[k]
    /\ h # Blank => h.kind = "bearer"
    /\ call[k].via # "token" /\ Catalog[call[k].op].edited /\ h = Blank =>
         \E t \in seen[k] : t.kind # "token"

\* A call through an accessor of services.go, or through the client of the raw
\* reads, has the base URL of a service.
OfService(i) == Len(Catalog[i].base) = 2

\* Every request to a data API carries the headers that the gateway asks for
\* (comments in requestEditor): client_id if there is one to send,
\* X-Request-ID, Date, Accept, and a User-Agent of its own, whichever builder
\* made it and whatever the caller left out.
GatewayHeadersSent ==
  \A k \in Calls :
    OnTheWire(k) /\ call[k].via # "token" /\ OfService(call[k].op) =>
      /\ clientID # Blank => call[k].header["client_id"] # Blank
      /\ \A n \in {"X-Request-ID", "Date", "Accept", "User-Agent"} :
           call[k].header[n] # Blank

\* What a caller fills in arrives: no later step of builder or editor replaces
\* a header field, the client_id and X-Request-ID that the editor would
\* otherwise set included.  Authorization is the exception.
CallerFieldsArrive ==
  \A k \in Calls : OnTheWire(k) =>
    \A n \in DOMAIN call[k].given \ {"Authorization"} :
      n \in Catalog[call[k].op].request.query
        \/ call[k].given[n] \in {Blank, call[k].header[n]}

\* Only a token request that succeeds, or the program itself, changes the
\* token: a refusal, an undecodable reply, a time out and every data call
\* leave it alone, and a token request that succeeds leaves its own token.
TokenChanges ==
  [][\A k \in Calls :
       call[k].phase # "done" /\ call'[k].phase = "done" =>
         IF call[k].via = "token" /\ call'[k].answer.kind = "ok"
         THEN /\ IsSuccess(call[k].rsp)
              /\ token' \in {EmptyToken, Value("token", k)}
         ELSE token' = token]_vars

\* Every call returns, even if the bank never replies.
CallsReturn == \A k \in Calls : call[k].phase # "new" ~> call[k].phase = "done"

-----------------------------------------------------------------------------
(* What the repository says of itself, and the code does not always do.    *)

\* "APIError represents a non-2xx response from an RBHU endpoint" (errors.go).
APIErrorIsRefusal ==
  \A k \in Calls :
    call[k].answer.kind = "api" => ~IsSuccess(call[k].answer)

\* "exchanges an authorization code for an access token ..., stores it on the
\* client and returns it" (oauth.go): success means that there is one.
ExchangeYieldsToken ==
  [][\A k \in Calls :
       call[k].via = "token" /\ call[k].phase = "replied"
         /\ call'[k].answer.kind = "ok"
         => token' = Value("token", k)]_vars
=============================================================================
