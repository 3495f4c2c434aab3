---------------------------- MODULE DataCallProofs ----------------------------
(***************************************************************************)
(* What the client promises of its calls to the bank, for any number of    *)
(* calls and any operations and replies.  The invariant speaks of one call *)
(* at a time (CallInv), as calls meet only in the client's token: what a   *)
(* running call has to know of it is that the token of this moment is      *)
(* among those it has seen (TokenSeen).                                    *)
(***************************************************************************)
EXTENDS DataCall, TLAPS

Phases == {"new", "built", "sent", "replied", "done"}
Open == {"built", "sent", "replied"}
Wire == {"sent", "replied"}

\* A call is a record with these fields.
Shape(c) ==
  DOMAIN c = {"phase", "via", "op", "given", "header", "rsp", "answer"}

CallTyped(c) ==
  /\ c.phase \in Phases
  /\ c.via \in Vias
  /\ c.op \in DOMAIN Catalog \cup {None}
  /\ c.rsp \in Replies \cup {None}
  /\ c.header \in [HeaderNames -> HeaderValue]
  /\ c.phase = "done" <=> c.answer # NoAnswer

\* A request that exists came from an operation, whose fields were filled in,
\* or from postToken.
Origin(c) ==
  /\ c.phase = "built" =>
       \A n \in DOMAIN c.given :
         n \in Catalog[c.op].request.query \/ n \in HeaderFields(c.op)
  /\ c.phase \in Open /\ c.via # "token" => c.op \in DOMAIN Catalog
  /\ c.phase \in Open /\ c.via = "token" =>
       c.phase # "built" /\ c.given = <<>>
  /\ c.phase = "replied" => c.rsp \in Replies

\* CallerFieldsArrive, from the builder on.
FieldsKept(c) ==
  c.phase \in Open =>
    \A n \in DOMAIN c.given \ {"Authorization"} :
      n \in Catalog[c.op].request.query
        \/ c.given[n] \in {Blank, c.header[n]}

\* The builder sets no bearer; what the editor sets, or leaves out, agrees with
\* the tokens that the call has seen.
BearerKnown(c, tokens) ==
  LET h == c.header["Authorization"] IN
  /\ c.phase = "built" => h = Blank \/ h.kind = "caller"
  /\ c.phase \in Wire /\ h.kind # "caller" =>
       /\ h.kind = "bearer" => Value("token", h.of) \in tokens
       /\ h # Blank => h.kind = "bearer"
       /\ c.via # "token" /\ Catalog[c.op].edited /\ h = Blank =>
            \E t \in tokens : t.kind # "token"

\* What the editor promises the gateway.
EditorRan(c) ==
  c.phase \in Wire /\ c.via # "token" /\ Catalog[c.op].edited =>
    /\ clientID # Blank => c.header["client_id"] # Blank
    /\ \A n \in {"X-Request-ID", "Date", "Accept", "User-Agent"} :
         c.header[n] # Blank

\* RefusalNotSuccess, of one call.
AnswerFits(c) ==
  /\ c.answer.kind = "ok" /\ c.via \in {"typed", "consent"} =>
       c.rsp.status = 200
  /\ c.answer.kind = "ok" /\ c.via \in {"raw", "token"} => IsSuccess(c.rsp)
  /\ c.answer.kind = "api" =>
       c.via # "direct" /\ c.rsp # None /\ c.answer.status = c.rsp.status

CallInv(c, tokens) ==
  /\ Shape(c)
  /\ CallTyped(c)
  /\ Origin(c)
  /\ FieldsKept(c)
  /\ BearerKnown(c, tokens)
  /\ EditorRan(c)
  /\ AnswerFits(c)

\* A running call has seen the token that the client has now.
TokenSeen == \A k \in Calls : Running(call[k]) => token \in seen[k]

DInv ==
  /\ token \in TokenValues
  /\ clientID \in {Blank, Configured}
  /\ DOMAIN call = Calls
  /\ seen \in [Calls -> SUBSET TokenValues]
  /\ TokenSeen
  /\ \A k \in Calls : CallInv(call[k], seen[k])

-----------------------------------------------------------------------------
\* A call that has not begun satisfies the invariant whatever it has seen.
LEMMA NewInv ==
  ASSUME NEW tokens
  PROVE  CallInv(New, tokens)
<1>1. Shape(New)
  BY DEF Shape, New
<1>2. CallTyped(New)
  BY DEF CallTyped, New, Phases, Vias, HeaderValue, NoAnswer
<1>3. /\ Origin(New) /\ FieldsKept(New) /\ BearerKnown(New, tokens)
      /\ EditorRan(New)
  BY DEF Origin, FieldsKept, BearerKnown, EditorRan, New, Open, Wire
<1>4. AnswerFits(New)
  BY DEF AnswerFits, New, NoAnswer
<1> QED
  BY <1>1, <1>2, <1>3, <1>4 DEF CallInv

\* So does a call that has ended with an answer that fits.
LEMMA EndedInv ==
  ASSUME NEW c, CallTyped(c), NEW answer, NEW tokens,
         answer # NoAnswer,
         AnswerFits([via |-> c.via, rsp |-> c.rsp, answer |-> answer])
  PROVE  CallInv(Ended(c, answer), tokens)
<1> DEFINE e == Ended(c, answer)
<1>1. /\ e.phase = "done" /\ e.via = c.via /\ e.rsp = c.rsp
      /\ e.op = None /\ e.answer = answer
      /\ e.header = [n \in HeaderNames |-> Blank]
  BY DEF Ended, New
<1>2. Shape(e)
  BY DEF Shape, Ended, New
<1> HIDE DEF e
<1>3. CallTyped(e)
  BY <1>1 DEF CallTyped, Phases, HeaderValue, NoAnswer
<1>4. Origin(e) /\ FieldsKept(e) /\ BearerKnown(e, tokens) /\ EditorRan(e)
  BY <1>1 DEF Origin, FieldsKept, BearerKnown, EditorRan, Open, Wire
<1>5. AnswerFits(e)
  BY <1>1 DEF AnswerFits
<1> QED
  BY <1>2, <1>3, <1>4, <1>5 DEF CallInv, e

\* The headers that the editor knows by name.
LEMMA KnownNames ==
  {"Authorization", "client_id", "X-Request-ID", "Date", "Accept",
   "User-Agent", "Content-Type"} \subseteq HeaderNames
BY DEF HeaderNames

\* To see more tokens never hurts.
LEMMA MoreSeen ==
  ASSUME NEW c, NEW tokens, NEW more, CallInv(c, tokens),
         Running(c) => tokens \subseteq more
  PROVE  CallInv(c, more)
<1>1. BearerKnown(c, more)
  BY DEF CallInv, BearerKnown, Running, Wire
<1> QED
  BY <1>1 DEF CallInv

\* A step of one call: the others keep their records, and see the token.
LEMMA OneCall ==
  ASSUME DInv, NEW k \in Calls, clientID' = clientID,
         token' \in TokenValues, seen' \in [Calls -> SUBSET TokenValues],
         DOMAIN call' = Calls,
         \A j \in Calls \ {k} :
           /\ call'[j] = call[j]
           /\ Running(call[j]) =>
                token' \in seen'[j] /\ seen[j] \subseteq seen'[j],
         Running(call'[k]) => token' \in seen'[k],
         CallInv(call'[k], seen'[k])
  PROVE  DInv'
<1>1. TokenSeen'
  BY DEF TokenSeen, Running
<1>2. ASSUME NEW j \in Calls PROVE CallInv(call[j], seen[j])'
  <2>1. CallInv(call'[j], seen'[j])
    BY MoreSeen DEF DInv
  <2>2. QED
    BY <2>1 DEF CallInv, Shape, CallTyped, Origin, FieldsKept, BearerKnown,
      EditorRan, AnswerFits
<1> QED
  BY <1>1, <1>2 DEF DInv

\* The histories after See.
LEMMA SeeEffect ==
  ASSUME DInv, NEW t \in TokenValues, See(t)
  PROVE  /\ seen' \in [Calls -> SUBSET TokenValues]
         /\ \A j \in Calls : Running(call'[j]) =>
              t \in seen'[j] /\ seen[j] \subseteq seen'[j]
BY DEF See, DInv

\* A call that ends with an answer that fits keeps the invariant.
LEMMA EndStep ==
  ASSUME DInv, NEW k \in Calls, NEW answer, End(k, answer),
         token' \in TokenValues, See(token'),
         answer # NoAnswer,
         AnswerFits([via |-> call[k].via, rsp |-> call[k].rsp,
                     answer |-> answer])
  PROVE  DInv'
<1>1. /\ DOMAIN call' = Calls /\ clientID' = clientID
      /\ call'[k] = Ended(call[k], answer)
      /\ \A j \in Calls \ {k} : call'[j] = call[j]
  BY DEF End, DInv
<1>2. CallTyped(call[k])
  BY DEF DInv, CallInv
<1>3. CallInv(call'[k], seen'[k])
  BY <1>1, <1>2, EndedInv
<1>4. /\ seen' \in [Calls -> SUBSET TokenValues]
      /\ \A j \in Calls : Running(call'[j]) =>
           token' \in seen'[j] /\ seen[j] \subseteq seen'[j]
  BY SeeEffect
<1> QED
  BY <1>1, <1>3, <1>4, OneCall

\* Fail keeps the invariant.
LEMMA FailStep ==
  ASSUME DInv, NEW k \in Calls, Fail(k)
  PROVE  DInv'
<1>1. Error # NoAnswer
  BY DEF Error, NoAnswer
<1>2. AnswerFits([via |-> call[k].via, rsp |-> call[k].rsp,
                  answer |-> Error])
  BY DEF AnswerFits, Error
<1>3. token' \in TokenValues /\ See(token')
  BY DEF Fail, DInv, See
<1> QED
  BY <1>1, <1>2, <1>3, EndStep DEF Fail

-----------------------------------------------------------------------------
\* What a caller may fill in for an operation: values of the caller's own, or
\* of the helper that calls for it, in fields that the operation has.
Fits(i, given) ==
  /\ \A n \in DOMAIN given :
       /\ given[n] \in HeaderValue
       /\ n \in Catalog[i].request.query \/ n \in HeaderFields(i)
  /\ "Authorization" \in DOMAIN given =>
       given["Authorization"].kind = "caller"

\* The builder sets values of its type, no bearer, and every header field that
\* the caller filled in.
LEMMA BuilderSets ==
  ASSUME NEW i \in DOMAIN Catalog, NEW given, Fits(i, given),
         NEW isNil \in BOOLEAN, isNil => DOMAIN given = {}
  PROVE  LET h == BuildHeaders(Catalog[i].request, given, isNil) IN
         /\ h \in [HeaderNames -> HeaderValue]
         /\ h["Authorization"] = Blank \/ h["Authorization"].kind = "caller"
         /\ \A n \in DOMAIN given :
              n \in Catalog[i].request.query \/ given[n] = h[n]
<1> DEFINE fields == IF isNil THEN {} ELSE HeaderFields(i)
           h == BuildHeaders(Catalog[i].request, given, isNil)
<1>1. h = [n \in HeaderNames |->
             IF n = "Content-Type" /\ Catalog[i].request.body # "none"
             THEN Literal
             ELSE IF n \in fields \cap DOMAIN given THEN given[n]
             ELSE IF n \in fields \cap Catalog[i].request.params.uuid
             THEN NilUUID ELSE Blank]
  BY DEF BuildHeaders, HeaderFields
<1>2. /\ HeaderFields(i) \subseteq HeaderNames \ {"Content-Type"}
      /\ "Authorization" \notin Catalog[i].request.params.uuid
  BY CatalogAssumption
<1>3. /\ fields \subseteq HeaderNames \ {"Content-Type"}
      /\ ~isNil => fields = HeaderFields(i)
  BY <1>2
<1> HIDE DEF fields, h
<1>4. {Blank, NilUUID, Literal} \subseteq HeaderValue
  BY DEF HeaderValue
<1>5. h \in [HeaderNames -> HeaderValue]
  BY <1>1, <1>4 DEF Fits
<1>6. h["Authorization"] = Blank \/ h["Authorization"].kind = "caller"
  BY <1>1, <1>2, KnownNames DEF Fits
<1>7. ASSUME NEW n \in DOMAIN given, n \notin Catalog[i].request.query
      PROVE  given[n] = h[n]
  <2>1. n \in fields /\ n \in HeaderNames /\ n # "Content-Type"
    BY <1>3, <1>7 DEF Fits
  <2>2. QED
    BY <1>1, <2>1
<1> QED
  BY <1>5, <1>6, <1>7 DEF h

\* A call begins: Begin keeps the invariant.
LEMMA BeginStep ==
  ASSUME DInv, NEW k \in Calls, NEW via \in Vias \ {"token"},
         NEW i \in DOMAIN Catalog, NEW given, Fits(i, given),
         NEW isNil \in BOOLEAN, isNil => DOMAIN given = {},
         Begin(k, via, i, given, isNil)
  PROVE  DInv'
<1> DEFINE h == BuildHeaders(Catalog[i].request, given, isNil)
           c == call'[k]
<1>1. /\ h \in [HeaderNames -> HeaderValue]
      /\ h["Authorization"] = Blank \/ h["Authorization"].kind = "caller"
      /\ \A n \in DOMAIN given :
           n \in Catalog[i].request.query \/ given[n] = h[n]
  BY BuilderSets
<1> HIDE DEF h
<1>2. /\ DOMAIN call' = Calls /\ clientID' = clientID /\ token' = token
      /\ \A j \in Calls \ {k} : call'[j] = call[j]
      /\ seen' = [seen EXCEPT ![k] = {token}]
  BY DEF Begin, DInv
<1>3. /\ c.phase = "built" /\ c.via = via /\ c.op = i /\ c.given = given
      /\ c.header = h /\ c.rsp = None /\ c.answer = NoAnswer
      /\ Shape(c)
  BY DEF Begin, DInv, New, Shape, h
<1> HIDE DEF c
<1>4. CallTyped(c)
  BY <1>1, <1>3 DEF CallTyped, Phases
<1>5. Origin(c) /\ FieldsKept(c) /\ EditorRan(c)
  BY <1>1, <1>3 DEF Origin, FieldsKept, EditorRan, Open, Wire, Fits
<1>6. BearerKnown(c, seen'[k])
  BY <1>1, <1>3 DEF BearerKnown, Wire
<1>7. AnswerFits(c)
  BY <1>3 DEF AnswerFits, NoAnswer
<1>8. CallInv(c, seen'[k])
  BY <1>3, <1>4, <1>5, <1>6, <1>7 DEF CallInv
<1>9. /\ seen' \in [Calls -> SUBSET TokenValues]
      /\ token \in seen'[k]
      /\ \A j \in Calls \ {k} : seen'[j] = seen[j]
      /\ \A j \in Calls \ {k} : Running(call[j]) => token \in seen[j]
  BY <1>2 DEF DInv, TokenSeen
<1>10. token' \in TokenValues
  BY <1>2 DEF DInv
<1> QED
  BY <1>2, <1>8, <1>9, <1>10, OneCall DEF c

\* What DirectCall fills in fits, and nothing always does.
LEMMA DirectStep ==
  ASSUME DInv, NEW k \in Calls, NEW i \in DOMAIN Catalog, DirectCall(k, i)
  PROVE  DInv'
<1>1. Fits(i, <<>>) /\ DOMAIN <<>> = {}
  BY DEF Fits
<1>2. ASSUME NEW given \in Fillings(k, i)
      PROVE  Fits(i, given)
  <2>1. PICK s \in SUBSET Fields(Catalog[i].request.params) :
          given = [n \in s |-> Value("caller", k)]
    BY <1>2 DEF Fillings
  <2>2. Value("caller", k) \in HeaderValue
    BY DEF Value, HeaderValue
  <2>3. Value("caller", k).kind = "caller"
    BY DEF Value
  <2>4. QED
    BY <2>1, <2>2, <2>3 DEF Fits, HeaderFields
<1>3. CASE Begin(k, "direct", i, <<>>, TRUE)
  BY <1>1, <1>3, BeginStep DEF Vias
<1>4. ASSUME NEW given \in Fillings(k, i),
             Begin(k, "direct", i, given, FALSE)
      PROVE  DInv'
  BY <1>2, <1>4, BeginStep DEF Vias
<1> QED
  BY <1>3, <1>4 DEF DirectCall

\* The parameters of the account helpers fit their operations.
LEMMA AccountsStep ==
  ASSUME DInv, NEW k \in Calls,
         NEW i \in DOMAIN Catalog,
         i \in {<<"Accounts", "GetAccountList">>,
                <<"Accounts", "GetBalances">>,
                <<"accountsRawClient", "GetBalances">>},
         NEW via \in {"typed", "raw"},
         Begin(k, via, i, AccountParams(k), FALSE)
  PROVE  DInv'
<1>1. /\ Value("fresh", k) \in HeaderValue
      /\ Value("caller", k) \in HeaderValue
  BY DEF Value, HeaderValue
<1>2. Fits(i, AccountParams(k))
  BY <1>1, HelpersAssumption DEF Fits, AccountParams, newUUID
<1> QED
  BY <1>2, BeginStep DEF Vias

\* So do those of Transactions and TransactionsRaw.
LEMMA TransactionsStep ==
  ASSUME DInv, NEW k \in Calls,
         NEW i \in DOMAIN Catalog,
         i \in {<<"Accounts", "GetTransactionList">>,
                <<"accountsRawClient", "GetTransactionList">>},
         NEW via \in {"typed", "raw"},
         Begin(k, via, i, TransactionParams(k), FALSE)
  PROVE  DInv'
<1>1. /\ Value("fresh", k) \in HeaderValue
      /\ Value("caller", k) \in HeaderValue
  BY DEF Value, HeaderValue
<1>2. /\ {"X-Request-ID", "Consent-ID"} \subseteq HeaderFields(i)
      /\ "bookingStatus" \in Catalog[i].request.query
  BY HelpersAssumption
<1>3. Fits(i, TransactionParams(k))
  BY <1>1, <1>2 DEF Fits, TransactionParams, newUUID
<1> QED
  BY <1>3, BeginStep DEF Vias

\* So do those of CreateAISConsent, with and without a PSU-ID.
LEMMA ConsentStep ==
  ASSUME DInv, NEW k \in Calls,
         <<"Consent", "NewConsent">> \in DOMAIN Catalog, CreateAISConsent(k)
  PROVE  DInv'
<1> DEFINE i == <<"Consent", "NewConsent">>
<1>1. PICK withPSU \in BOOLEAN :
        Begin(k, "consent", i, ConsentParams(k, withPSU), FALSE)
  BY DEF CreateAISConsent
<1> DEFINE given == ConsentParams(k, withPSU)
<1>2. /\ Value("fresh", k) \in HeaderValue
      /\ Value("caller", k) \in HeaderValue
      /\ clientID \in HeaderValue
  BY DEF Value, HeaderValue, DInv, Configured
<1>3. {"client_id", "X-Request-ID", "PSU-ID"} \subseteq HeaderFields(i)
  BY HelpersAssumption
<1>4. /\ DOMAIN given \subseteq {"client_id", "X-Request-ID", "PSU-ID"}
      /\ \A n \in DOMAIN given : given[n] \in HeaderValue
  BY <1>2 DEF ConsentParams, newUUID
<1> HIDE DEF given
<1>5. Fits(i, given)
  BY <1>3, <1>4 DEF Fits
<1> QED
  BY <1>1, <1>5, BeginStep DEF Vias, given

\* Whatever helper is called, the invariant survives.
LEMMA HelpersStep ==
  ASSUME DInv, NEW k \in Calls, Helpers(k)
  PROVE  DInv'
<1>1. CASE /\ <<"Accounts", "GetAccountList">> \in DOMAIN Catalog
           /\ ListAccounts(k)
  BY <1>1, AccountsStep DEF ListAccounts
<1>2. CASE \/ /\ <<"Accounts", "GetBalances">> \in DOMAIN Catalog
              /\ Balances(k)
           \/ /\ <<"accountsRawClient", "GetBalances">> \in DOMAIN Catalog
              /\ BalancesRaw(k)
  BY <1>2, AccountsStep DEF Balances, BalancesRaw
<1>3. CASE \/ /\ <<"Accounts", "GetTransactionList">> \in DOMAIN Catalog
              /\ Transactions(k)
           \/ /\ <<"accountsRawClient", "GetTransactionList">>
                   \in DOMAIN Catalog
              /\ TransactionsRaw(k)
  BY <1>3, TransactionsStep DEF Transactions, TransactionsRaw
<1>4. CASE /\ <<"Consent", "NewConsent">> \in DOMAIN Catalog
           /\ CreateAISConsent(k)
  BY <1>4, ConsentStep
<1>5. CASE NoIBAN(k)
  BY <1>5, FailStep DEF NoIBAN
<1> QED
  BY <1>1, <1>2, <1>3, <1>4, <1>5 DEF Helpers

\* postToken makes its request without an editor: no bearer, no fields.
LEMMA TokenRequestStep ==
  ASSUME DInv, NEW k \in Calls, postToken(k)
  PROVE  DInv'
<1> DEFINE c == call'[k]
<1>1. /\ DOMAIN call' = Calls /\ clientID' = clientID /\ token' = token
      /\ \A j \in Calls \ {k} : call'[j] = call[j]
      /\ seen' = [seen EXCEPT ![k] = {token}]
  BY DEF postToken, DInv
<1>2. /\ c.phase = "sent" /\ c.via = "token" /\ c.op = None
      /\ c.given = <<>> /\ c.rsp = None /\ c.answer = NoAnswer
      /\ c.header = [n \in HeaderNames |->
           IF n \in {"Content-Type", "Accept", "User-Agent"} THEN Literal
           ELSE Blank]
      /\ Shape(c)
  BY DEF postToken, DInv, New, Shape
<1> HIDE DEF c
<1>3. CallTyped(c)
  BY <1>2 DEF CallTyped, Phases, Vias, HeaderValue
<1>4. Origin(c) /\ FieldsKept(c) /\ EditorRan(c)
  BY <1>2 DEF Origin, FieldsKept, EditorRan, Open
<1>5. c.header["Authorization"] = Blank
  BY <1>2, KnownNames
<1>6. Blank.kind = "blank"
  BY DEF Blank, Value
<1>7. BearerKnown(c, seen'[k])
  BY <1>2, <1>5, <1>6 DEF BearerKnown
<1>8. AnswerFits(c)
  BY <1>2 DEF AnswerFits, NoAnswer
<1>9. CallInv(c, seen'[k])
  BY <1>2, <1>3, <1>4, <1>7, <1>8 DEF CallInv
<1>10. /\ seen' \in [Calls -> SUBSET TokenValues]
       /\ token \in seen'[k]
       /\ \A j \in Calls \ {k} : seen'[j] = seen[j]
       /\ \A j \in Calls \ {k} : Running(call[j]) => token \in seen[j]
       /\ token' \in TokenValues
  BY <1>1 DEF DInv, TokenSeen
<1> QED
  BY <1>1, <1>9, <1>10, OneCall DEF c

-----------------------------------------------------------------------------
\* The editor replaces nothing that the caller filled in but Authorization,
\* sets what the gateway asks for, and a bearer only if the token t has one.
LEMMA EditorSets ==
  ASSUME NEW k \in Calls, NEW t \in TokenValues,
         NEW header \in [HeaderNames -> HeaderValue],
         clientID \in {Blank, Configured}
  PROVE  LET h == requestEditor(k, header, t) IN
         /\ h \in [HeaderNames -> HeaderValue]
         /\ \A n \in HeaderNames \ {"Authorization", "Date", "Accept",
                                    "User-Agent"} :
              header[n] \in {Blank, h[n]}
         /\ clientID # Blank => h["client_id"] # Blank
         /\ \A n \in {"X-Request-ID", "Date", "Accept", "User-Agent"} :
              h[n] # Blank
         /\ t.kind = "token" =>
              /\ h["Authorization"].kind = "bearer"
              /\ t = Value("token", h["Authorization"].of)
         /\ t.kind # "token" =>
              h["Authorization"] = header["Authorization"]
<1> DEFINE h == requestEditor(k, header, t)
<1>1. t.kind = "token" =>
        t.of \in Tokens \cup Calls /\ t = Value("token", t.of)
  BY DEF TokenValues, Value, NoToken, EmptyToken
<1>2. /\ t.kind = "token" => Value("bearer", t.of) \in HeaderValue
      /\ {Value("fallback", k), Literal, clientID} \subseteq HeaderValue
      /\ Value("fallback", k) # Blank /\ Literal # Blank
      /\ Value("bearer", t.of).kind = "bearer"
      /\ Value("bearer", t.of).of = t.of
  BY <1>1 DEF Value, HeaderValue, Literal, Blank
<1>3. \A n \in HeaderNames :
        /\ n = "Authorization" /\ t.kind = "token" =>
             h[n] = Value("bearer", t.of)
        /\ n = "Authorization" /\ t.kind # "token" => h[n] = header[n]
        /\ n = "client_id" =>
             h[n] = IF header[n] = Blank THEN clientID ELSE header[n]
        /\ n = "X-Request-ID" =>
             h[n] = IF header[n] = Blank THEN Value("fallback", k)
                    ELSE header[n]
        /\ n \in {"Date", "Accept", "User-Agent"} => h[n] = Literal
        /\ n \notin {"Authorization", "client_id", "X-Request-ID", "Date",
                     "Accept", "User-Agent"} => h[n] = header[n]
  BY DEF requestEditor
<1>4. h \in [HeaderNames -> HeaderValue]
  <2>1. h = [n \in HeaderNames |-> h[n]]
    BY DEF requestEditor
  <2> HIDE DEF h
  <2>2. QED
    BY <1>2, <1>3, <2>1
<1> HIDE DEF h
<1>5. /\ \A n \in HeaderNames \ {"Authorization", "Date", "Accept",
                                 "User-Agent"} :
           header[n] \in {Blank, h[n]}
      /\ clientID # Blank => h["client_id"] # Blank
      /\ \A n \in {"X-Request-ID", "Date", "Accept", "User-Agent"} :
           h[n] # Blank
  BY <1>2, <1>3, KnownNames
<1>6. /\ t.kind = "token" =>
           /\ h["Authorization"].kind = "bearer"
           /\ t = Value("token", h["Authorization"].of)
      /\ t.kind # "token" =>
           h["Authorization"] = header["Authorization"]
  BY <1>1, <1>2, <1>3, KnownNames
<1> QED
  BY <1>4, <1>5, <1>6 DEF h

\* applyEditors and Do keep the invariant.
LEMMA SendStep ==
  ASSUME DInv, NEW k \in Calls, Send(k)
  PROVE  DInv'
<1> DEFINE c == call[k]
           d == call'[k]
           e == requestEditor(k, c.header, token)
<1>1. /\ CallInv(c, seen[k]) /\ c.phase = "built" /\ token \in TokenValues
      /\ clientID \in {Blank, Configured}
  BY DEF DInv, Send
<1>2. token \in seen[k]
  BY <1>1 DEF DInv, TokenSeen, Running
<1>3. /\ DOMAIN call' = Calls /\ clientID' = clientID /\ token' = token
      /\ \A j \in Calls \ {k} : call'[j] = call[j]
      /\ seen' = seen
  BY DEF Send, DInv
<1>4. /\ d.phase = "sent" /\ d.via = c.via /\ d.op = c.op
      /\ d.given = c.given /\ d.rsp = c.rsp /\ d.answer = c.answer
      /\ d.header = IF Catalog[c.op].edited THEN e ELSE c.header
      /\ Shape(d)
  BY <1>1 DEF Send, DInv, CallInv, Shape
<1>5. c.op \in DOMAIN Catalog /\ c.via # "token"
  BY <1>1 DEF CallInv, Origin, Open
<1>6. c.header \in [HeaderNames -> HeaderValue]
  BY <1>1 DEF CallInv, CallTyped
<1>7. c.header["Authorization"] = Blank
        \/ c.header["Authorization"].kind = "caller"
  BY <1>1 DEF CallInv, BearerKnown
<1>8. /\ e \in [HeaderNames -> HeaderValue]
      /\ \A n \in HeaderNames \ {"Authorization", "Date", "Accept",
                                 "User-Agent"} :
           c.header[n] \in {Blank, e[n]}
      /\ clientID # Blank => e["client_id"] # Blank
      /\ \A n \in {"X-Request-ID", "Date", "Accept", "User-Agent"} :
           e[n] # Blank
      /\ token.kind = "token" =>
           /\ e["Authorization"].kind = "bearer"
           /\ token = Value("token", e["Authorization"].of)
      /\ token.kind # "token" =>
           e["Authorization"] = c.header["Authorization"]
  BY <1>1, <1>6, EditorSets
<1> HIDE DEF c, d, e
<1>9. CallTyped(d)
  <2>1. c.phase # "done" /\ CallTyped(c)
    BY <1>1 DEF CallInv
  <2>2. QED
    BY <1>4, <1>6, <1>8, <2>1 DEF CallTyped, Phases
<1>10. Origin(d)
  BY <1>4, <1>5 DEF Origin, Open
<1>11. FieldsKept(d)
  <2>1. SUFFICES ASSUME NEW n \in DOMAIN c.given \ {"Authorization"},
                        n \notin Catalog[c.op].request.query
                 PROVE  c.given[n] \in {Blank, d.header[n]}
    BY <1>4 DEF FieldsKept
  <2>2. c.given[n] \in {Blank, c.header[n]}
    BY <1>1, <2>1 DEF CallInv, FieldsKept, Open
  <2>3. n \in HeaderFields(c.op)
    BY <1>1, <2>1 DEF CallInv, Origin
  <2>4. n \in HeaderNames \ {"Authorization", "Date", "Accept", "User-Agent"}
    BY <1>5, <2>1, <2>3, CatalogAssumption
  <2>5. QED
    BY <1>4, <1>8, <2>2, <2>4
<1>12. BearerKnown(d, seen[k])
  <2>1. Blank.kind = "blank"
    BY DEF Blank, Value
  <2>2. CASE Catalog[c.op].edited
    <3>1. d.header["Authorization"] = e["Authorization"]
      BY <1>4, <2>2
    <3>2. QED
      BY <1>2, <1>4, <1>7, <1>8, <2>1, <3>1 DEF BearerKnown, Wire
  <2>3. CASE ~Catalog[c.op].edited
    BY <1>4, <1>7, <2>1, <2>3 DEF BearerKnown, Wire
  <2>4. QED
    BY <2>2, <2>3
<1>13. EditorRan(d)
  BY <1>4, <1>8 DEF EditorRan
<1>14. AnswerFits(d)
  BY <1>1, <1>4 DEF CallInv, AnswerFits
<1>15. CallInv(d, seen'[k])
  BY <1>3, <1>4, <1>9, <1>10, <1>11, <1>12, <1>13, <1>14 DEF CallInv
<1>16. /\ seen' \in [Calls -> SUBSET TokenValues]
       /\ \A j \in Calls : Running(call[j]) => token \in seen[j]
  BY <1>3 DEF DInv, TokenSeen
<1> QED
  BY <1>1, <1>2, <1>3, <1>15, <1>16, OneCall DEF d

\* The reply of bank or gateway arrives.
LEMMA ReplyStep ==
  ASSUME DInv, NEW k \in Calls, NEW rsp \in Replies, BankReplies(k, rsp)
  PROVE  DInv'
<1> DEFINE c == call[k]
           d == call'[k]
<1>1. CallInv(c, seen[k]) /\ c.phase = "sent" /\ token \in TokenValues
  BY DEF DInv, BankReplies
<1>2. token \in seen[k]
  BY <1>1 DEF DInv, TokenSeen, Running
<1>3. /\ DOMAIN call' = Calls /\ clientID' = clientID /\ token' = token
      /\ \A j \in Calls \ {k} : call'[j] = call[j]
      /\ seen' = seen
  BY DEF BankReplies, DInv
<1>4. /\ d.phase = "replied" /\ d.via = c.via /\ d.op = c.op
      /\ d.given = c.given /\ d.rsp = rsp /\ d.answer = c.answer
      /\ d.header = c.header
      /\ Shape(d)
  BY <1>1 DEF BankReplies, DInv, CallInv, Shape
<1> HIDE DEF c, d
<1>5. CallTyped(d)
  BY <1>1, <1>4 DEF CallInv, CallTyped, Phases
<1>6. Origin(d)
  BY <1>1, <1>4 DEF CallInv, Origin, Open
<1>7. FieldsKept(d)
  BY <1>1, <1>4 DEF CallInv, FieldsKept, Open
<1>8. BearerKnown(d, seen[k])
  BY <1>1, <1>4 DEF CallInv, BearerKnown, Wire
<1>9. EditorRan(d)
  BY <1>1, <1>4 DEF CallInv, EditorRan, Wire
<1>10. AnswerFits(d)
  <2>1. c.answer = NoAnswer
    BY <1>1 DEF CallInv, CallTyped
  <2>2. QED
    BY <1>4, <2>1 DEF AnswerFits, NoAnswer
<1>11. CallInv(d, seen'[k])
  BY <1>3, <1>4, <1>5, <1>6, <1>7, <1>8, <1>9, <1>10 DEF CallInv
<1>12. /\ seen' \in [Calls -> SUBSET TokenValues]
       /\ \A j \in Calls : Running(call[j]) => token \in seen[j]
  BY <1>3 DEF DInv, TokenSeen
<1> QED
  BY <1>1, <1>2, <1>3, <1>11, <1>12, OneCall DEF d

\* What a method makes of a reply fits the reply: a typed helper or a raw read
\* never makes a result of a refusal.
LEMMA AnswerMade ==
  ASSUME NEW c, c.via \in Vias, c.rsp \in Replies
  PROVE  /\ Answer(c) # NoAnswer
         /\ AnswerFits([via |-> c.via, rsp |-> c.rsp, answer |-> Answer(c)])
<1> DEFINE a == Answer(c)
           Made == a = Error
                     \/ (a = Success(c.rsp) \/ a = APIError(c.rsp))
<1>1. CASE c.via = "direct"
  <2>1. a = Error \/ a = Success(c.rsp)
    BY <1>1 DEF Answer
  <2>2. QED
    BY <1>1, <2>1 DEF AnswerFits, Error, Success, NoAnswer
<1>2. CASE c.via \in {"typed", "consent"}
  <2>1. \A parse, bodies :
          \/ TypedAnswer(parse, c.rsp, bodies) \in {Error, APIError(c.rsp)}
          \/ /\ TypedAnswer(parse, c.rsp, bodies) = Success(c.rsp)
             /\ c.rsp.status = 200
    BY DEF TypedAnswer
  <2>2. a \in {Error, APIError(c.rsp)}
          \/ (a = Success(c.rsp) /\ c.rsp.status = 200)
    BY <1>2, <2>1 DEF Answer
  <2>3. c.rsp # None
    BY CatalogAssumption
  <2>4. QED
    BY <1>2, <2>2, <2>3 DEF AnswerFits, Error, Success, APIError, NoAnswer
<1>3. CASE c.via \in {"raw", "token"}
  <2>1. a \in {Error, APIError(c.rsp)}
          \/ (a = Success(c.rsp) /\ IsSuccess(c.rsp))
    BY <1>3 DEF Answer, ReadAnswer, TokenAnswer
  <2>2. c.rsp # None
    BY CatalogAssumption
  <2>3. IsSuccess([via |-> c.via, rsp |-> c.rsp, answer |-> a].rsp)
          <=> IsSuccess(c.rsp)
    OBVIOUS
  <2>4. QED
    BY <1>3, <2>1, <2>2, <2>3
    DEF AnswerFits, Error, Success, APIError, NoAnswer
<1> QED
  BY <1>1, <1>2, <1>3 DEF Vias

\* A method of a data API returns.
LEMMA ReturnStep ==
  ASSUME DInv, NEW k \in Calls, Return(k)
  PROVE  DInv'
<1>1. call[k].via \in Vias /\ call[k].rsp \in Replies
  BY DEF DInv, CallInv, CallTyped, Origin, Return
<1>2. token' \in TokenValues /\ See(token')
  BY DEF Return, DInv, See
<1> QED
  BY <1>1, <1>2, AnswerMade, EndStep DEF Return

\* A token request returns, and may leave its own token.
LEMMA ReturnTokenStep ==
  ASSUME DInv, NEW k \in Calls, ReturnToken(k)
  PROVE  DInv'
<1>1. call[k].via \in Vias /\ call[k].rsp \in Replies
  BY DEF DInv, CallInv, CallTyped, Origin, ReturnToken
<1>2. Decoded(k) \in TokenValues
  BY DEF Decoded, TokenValues
<1>3. token' \in TokenValues /\ See(token')
  BY <1>2 DEF ReturnToken, DInv
<1> QED
  BY <1>1, <1>3, AnswerMade, EndStep DEF ReturnToken

\* The program replaces the token: every call under way sees it.
LEMMA SetTokenStep ==
  ASSUME DInv, NEW t \in TokenValues, SetToken(t)
  PROVE  DInv'
<1>1. token' = t /\ clientID' = clientID /\ call' = call
  BY DEF SetToken
<1>2. /\ seen' \in [Calls -> SUBSET TokenValues]
      /\ \A j \in Calls : Running(call[j]) =>
           t \in seen'[j] /\ seen[j] \subseteq seen'[j]
  BY <1>1, SeeEffect DEF SetToken
<1>3. TokenSeen'
  BY <1>1, <1>2 DEF TokenSeen
<1>4. ASSUME NEW j \in Calls PROVE CallInv(call[j], seen[j])'
  <2>1. CallInv(call[j], seen'[j])
    BY <1>2, MoreSeen DEF DInv
  <2>2. QED
    BY <1>1, <2>1 DEF CallInv, Shape, CallTyped, Origin, FieldsKept,
      BearerKnown, EditorRan, AnswerFits
<1> QED
  BY <1>1, <1>2, <1>3, <1>4 DEF DInv

\* No step of the specification breaks the invariant.
LEMMA DNext ==
  ASSUME DInv, [Next]_vars
  PROVE  DInv'
<1>1. ASSUME NEW k \in Calls, CallBegin(k) \/ CallStep(k)
      PROVE  DInv'
  <2>1. CASE \E i \in DOMAIN Catalog : DirectCall(k, i)
    BY <2>1, DirectStep
  <2>2. CASE BuildFails(k)
    BY <2>2, FailStep DEF BuildFails
  <2>3. CASE Helpers(k)
    BY <2>3, HelpersStep
  <2>4. CASE postToken(k)
    BY <2>4, TokenRequestStep
  <2>5. CASE Send(k)
    BY <2>5, SendStep
  <2>6. CASE NoReply(k)
    BY <2>6, FailStep DEF NoReply
  <2>7. CASE Return(k)
    BY <2>7, ReturnStep
  <2>8. CASE ReturnToken(k)
    BY <2>8, ReturnTokenStep
  <2>9. QED
    BY <1>1, <2>1, <2>2, <2>3, <2>4, <2>5, <2>6, <2>7, <2>8
    DEF CallBegin, CallStep
<1>2. ASSUME NEW k \in Calls, NEW rsp \in Replies, BankReplies(k, rsp)
      PROVE  DInv'
  BY <1>2, ReplyStep
<1>3. ASSUME NEW t \in {NoToken, EmptyToken}
                         \cup {Value("token", x) : x \in Tokens}
                         \cup Obtained,
             SetToken(t)
      PROVE  DInv'
  <2>1. t \in TokenValues
    BY DEF TokenValues, Obtained, Decoded
  <2>2. QED
    BY <1>3, <2>1, SetTokenStep
<1>4. CASE UNCHANGED vars
  <2>1. /\ token' = token /\ clientID' = clientID /\ call' = call
        /\ seen' = seen
    BY <1>4 DEF vars
  <2>2. QED
    BY <2>1 DEF DInv, TokenSeen, CallInv, Shape, CallTyped, Origin,
      FieldsKept, BearerKnown, EditorRan, AnswerFits
<1> QED
  BY <1>1, <1>2, <1>3, <1>4 DEF Next

\* The invariant of the calls, in every reachable state.
THEOREM DInvariance == Spec => []DInv
<1>1. ASSUME Init PROVE DInv
  <2>1. \A k \in Calls : call[k] = New /\ seen[k] = {}
    BY <1>1 DEF Init
  <2>2. TokenSeen
    BY <2>1 DEF TokenSeen, Running, New
  <2>3. \A k \in Calls : CallInv(call[k], seen[k])
    BY <2>1, NewInv
  <2>4. QED
    BY <1>1, <2>2, <2>3 DEF Init, DInv, TokenValues
<1>2. DInv /\ [Next]_vars => DInv'
  BY DNext
<1> QED
  BY <1>1, <1>2, PTL DEF Spec

-----------------------------------------------------------------------------
\* Every variable of the client's calls keeps its type, and a call that has
\* ended has an answer (DTypeOK).
THEOREM CallsTyped == Spec => []DTypeOK
<1>1. DInv => DTypeOK
  BY DEF DInv, DTypeOK, CallInv, CallTyped, Phases
<1> QED
  BY <1>1, DInvariance, PTL

\* No helper makes a result of a refusal, whatever bank and gateway reply
\* (readRawBody, the typed helpers, postToken).
THEOREM NoFalseSuccess == Spec => []RefusalNotSuccess
<1>1. DInv => RefusalNotSuccess
  BY DEF DInv, RefusalNotSuccess, CallInv, AnswerFits
<1> QED
  BY <1>1, DInvariance, PTL

\* The bearer of a request was the client's token while its call ran, however
\* calls, token requests and SetToken interleave (requestEditor).
THEOREM BearerIsCurrent == Spec => []BearerCurrent
<1>1. DInv => BearerCurrent
  BY DEF DInv, BearerCurrent, OnTheWire, CallInv, BearerKnown, Wire
<1> QED
  BY <1>1, DInvariance, PTL

\* Builder and editor replace nothing that a caller fills in but
\* Authorization, in any operation of any catalog (requestEditor).
THEOREM CallerFieldsKept == Spec => []CallerFieldsArrive
<1>1. DInv => CallerFieldsArrive
  BY DEF DInv, CallerFieldsArrive, OnTheWire, CallInv, FieldsKept, Open
<1> QED
  BY <1>1, DInvariance, PTL

\* If every client of a service installs the editor, every request carries
\* the headers that the gateway asks for.  The run checks the hypothesis on
\* the accessors and the raw client as they are.
THEOREM HeadersSent ==
  ASSUME \A i \in DOMAIN Catalog : OfService(i) => Catalog[i].edited
  PROVE  Spec => []GatewayHeadersSent
<1>1. DInv => GatewayHeadersSent
  <2>1. SUFFICES ASSUME DInv, NEW k \in Calls, OnTheWire(k),
                        call[k].via # "token", OfService(call[k].op)
                 PROVE
                   /\ clientID # Blank =>
                        call[k].header["client_id"] # Blank
                   /\ \A n \in {"X-Request-ID", "Date", "Accept",
                                "User-Agent"} :
                        call[k].header[n] # Blank
    BY DEF GatewayHeadersSent
  <2>2. call[k].op \in DOMAIN Catalog /\ call[k].phase \in Wire
    BY <2>1 DEF DInv, CallInv, Origin, OnTheWire, Open, Wire
  <2>3. EditorRan(call[k])
    BY <2>1 DEF DInv, CallInv
  <2>4. QED
    BY <2>1, <2>2, <2>3 DEF EditorRan
<1> QED
  BY <1>1, DInvariance, PTL

\* What TokenChanges says of a step and one call.
Kept(k) ==
  call[k].phase # "done" /\ call'[k].phase = "done" =>
    IF call[k].via = "token" /\ call'[k].answer.kind = "ok"
    THEN /\ IsSuccess(call[k].rsp)
         /\ token' \in {EmptyToken, Value("token", k)}
    ELSE token' = token

\* A call that gives up leaves the token alone.
LEMMA FailKeeps ==
  ASSUME DInv, NEW j \in Calls, Fail(j), NEW k \in Calls
  PROVE  Kept(k)
<1>1. token' = token /\ Error.kind # "ok"
  BY DEF Fail, Error
<1>2. CASE k = j
  <2>1. call'[k].answer = Error
    BY <1>2 DEF Fail, End, DInv, Ended, New
  <2>2. QED
    BY <1>1, <2>1 DEF Kept
<1>3. CASE k # j
  <2>1. call'[k] = call[k]
    BY <1>3 DEF Fail, End, DInv
  <2>2. QED
    BY <2>1 DEF Kept
<1> QED
  BY <1>2, <1>3

\* A call that begins has not ended, and the others have not changed.
LEMMA BeginKeeps ==
  ASSUME DInv, NEW j \in Calls, CallBegin(j), NEW k \in Calls
  PROVE  Kept(k)
<1>1. ASSUME NEW via, NEW i, NEW given, NEW isNil,
             Begin(j, via, i, given, isNil)
      PROVE  Kept(k)
  BY <1>1 DEF Begin, DInv, New, Kept
<1>2. CASE postToken(j)
  BY <1>2 DEF postToken, DInv, New, Kept
<1>3. CASE Fail(j)
  BY <1>3, FailKeeps
<1>4. CASE \/ \E i \in DOMAIN Catalog : DirectCall(j, i)
           \/ BuildFails(j)
  BY <1>1, <1>3, <1>4 DEF DirectCall, BuildFails
<1>5. CASE Helpers(j)
  BY <1>1, <1>3, <1>5 DEF Helpers, ListAccounts, Balances, BalancesRaw,
    Transactions, TransactionsRaw, CreateAISConsent, NoIBAN
<1> QED
  BY <1>2, <1>4, <1>5 DEF CallBegin

\* A call under way ends in one of three ways; only ReturnToken changes the
\* token, to what it decoded from a reply of success.
LEMMA StepKeeps ==
  ASSUME DInv, NEW j \in Calls, CallStep(j), NEW k \in Calls
  PROVE  Kept(k)
<1>1. CASE Send(j)
  <2>1. call'[k] = call[k] \/ call'[k].phase = "sent"
    BY <1>1 DEF Send, DInv, CallInv, Shape
  <2>2. QED
    BY <2>1 DEF Kept
<1>2. CASE NoReply(j)
  BY <1>2, FailKeeps DEF NoReply
<1>3. CASE Return(j)
  <2>1. token' = token /\ (call'[k] = call[k] \/ call[k].via # "token")
    BY <1>3 DEF Return, End, DInv
  <2>2. QED
    BY <2>1 DEF Kept
<1>4. CASE ReturnToken(j) /\ k # j
  <2>1. call'[k] = call[k]
    BY <1>4 DEF ReturnToken, End, DInv
  <2>2. QED
    BY <2>1 DEF Kept
<1>5. CASE ReturnToken(j) /\ k = j
  <2>1. call[k].rsp \in Replies /\ call[k].via = "token"
    BY <1>5 DEF ReturnToken, DInv, CallInv, Origin
  <2>2. AnswerFits([via |-> call[k].via, rsp |-> call[k].rsp,
                    answer |-> Answer(call[k])])
    BY <2>1, AnswerMade DEF Vias
  <2>3. Answer(call[k]).kind = "ok" => IsSuccess(call[k].rsp)
    BY <2>1, <2>2 DEF AnswerFits, IsSuccess
  <2>4. call'[k].answer = Answer(call[k])
    BY <1>5 DEF ReturnToken, End, DInv, Ended, New
  <2>5. token' = IF Answer(call[k]).kind = "ok" THEN Decoded(k) ELSE token
    BY <1>5 DEF ReturnToken
  <2>6. Decoded(k) \in {EmptyToken, Value("token", k)}
    BY DEF Decoded
  <2>7. QED
    BY <2>1, <2>3, <2>4, <2>5, <2>6 DEF Kept
<1> QED
  BY <1>1, <1>2, <1>3, <1>4, <1>5 DEF CallStep

\* A call that ends leaves the token alone unless it is a token request that
\* succeeded, which leaves its own (postToken).
THEOREM OnlyTokenRequestsChange == Spec => TokenChanges
<1>1. ASSUME DInv, [Next]_vars PROVE [\A k \in Calls : Kept(k)]_vars
  <2> SUFFICES ASSUME NEW k \in Calls, Next PROVE Kept(k)
    BY <1>1
  <2>1. ASSUME NEW j \in Calls, CallBegin(j) \/ CallStep(j) PROVE Kept(k)
    BY <1>1, <2>1, BeginKeeps, StepKeeps
  <2>2. ASSUME NEW j \in Calls, NEW rsp \in Replies, BankReplies(j, rsp)
        PROVE  Kept(k)
    <3>1. call'[k] = call[k] \/ call'[k].phase = "replied"
      BY <1>1, <2>2 DEF BankReplies, DInv, CallInv, Shape
    <3>2. QED
      BY <3>1 DEF Kept
  <2>3. ASSUME NEW t, SetToken(t) PROVE Kept(k)
    BY <2>3 DEF SetToken, Kept
  <2>4. QED
    BY <2>1, <2>2, <2>3 DEF Next
<1>2. [\A k \in Calls : Kept(k)]_vars =>
        [\A k \in Calls :
           call[k].phase # "done" /\ call'[k].phase = "done" =>
             IF call[k].via = "token" /\ call'[k].answer.kind = "ok"
             THEN /\ IsSuccess(call[k].rsp)
                  /\ token' \in {EmptyToken, Value("token", k)}
             ELSE token' = token]_vars
  BY DEF Kept
<1> QED
  BY <1>1, <1>2, DInvariance, PTL DEF Spec, TokenChanges
=============================================================================
