# Verification of the RBHU client and its MCP connector

The repository is a Go client for the PSD2 sandbox of Raiffeisen Hungary and an
MCP connector that offers its read-only account information to a chat client.
This directory holds TLA+ models of the parts where order, concurrency and
failure matter, TLC configurations that check them on small instances, and
proofs that TLAPS checks for every value of the constants. Every safety property
that a passing run checks, refinements and action properties included, is also
a theorem; liveness is model-checked.

## 1. Inventory

| Component | Source | State | Operations | Status |
|---|---|---|---|---|
| MCP connector | `connector/connector.go`, `cmd/rbhu-connector-http` | `conn.states` (consent id → issued OAuth state, one mutex), the shared `rbhu.Client` | `create_consent`, `submit_authorization_code`, `list_accounts`, `get_balances`, `get_transactions` | `Connector` |
| Browser authorization | `helpers.go` `CompleteAuthorization`, `connector.go` `authorizeBrowser` | one call's listener, state and outcome; `Client.token` | bind, open, wait, compare, exchange, close | `CompleteAuth` |
| Code listener | `helpers.go` `CodeListener` | bound address, two channels of capacity 1, handler goroutines | `ListenForCode`, handler, `Wait`, `Close` | `CodeListener` |
| OAuth token client | `oauth.go` | `Client.token`, expiry | `ExchangeToken`, `RefreshToken`, `Expired` | `TokenStore`, `DataCall`, `Connector`, `CompleteAuth` |
| HTTP client | `rbhu.go` | `token` under an RWMutex, `http.Client` with a 60 s time out | `SetToken`, `CurrentToken`, `requestEditor` | `DataCall` |
| AIS helpers | `helpers.go` | none | consent creation, typed and raw reads, error classification | `DataCall`, `Connector` |
| Errors | `errors.go` | none | `parseAPIError` | `DataCall` (when, and with which status) |
| Local connector | `cmd/rbhu-connector` | connector and browser calls over one client | all six tools | `LocalConnector` |
| Configuration, start-up | `config.go`, `NewSandboxFromEnv`, both `main` | none after start-up | `.env`, PKCS#12, validation | `Startup` |
| Endpoints | `endpoints.go`, `services.go` | none | wires a package to a base URL | `Services` |
| Generated clients | `psd2/`, 14 packages, 45 operations | none | builder and parser per operation | `GeneratedClient` and a module per package |
| Examples, scripts | `examples/`, `scripts/` | none | straight-line programs | not modelled |

How they interact: an MCP client calls a tool; the SDK runs its handler in a
goroutine; the handler calls the `rbhu.Client`, whose generated client posts to
the bank with the token `requestEditor` finds at that moment. The PSU (the
customer) approves the authorize URL in a browser; the bridge redirects to the
registered redirect URI with a code and the URL's state. Either the caller
pastes both into `submit_authorization_code`, or the loopback listener of
`authorize_in_browser` captures them. Both end in `ExchangeToken`, which
replaces the client's only token.

What is hard: tool handlers run concurrently and drop the lock during the
exchange; the bank may act while its reply is lost; redirects outlive the
process and the call that caused them; the browser reloads and opens tabs at
will; channel sends race with `Wait`, with cancellation and with `Close`; all
connector state is in memory while the bank forgets nothing. In the client, a
request is built before the token it carries is read, replies take up to a
minute while Expiry is computed when they have been read, and three writers
(builder, editor, caller) set headers of the same names. PROJECT.json lists
these hazards line by line with the properties that cover them.

What makes each component correct:

- connector: a code is exchanged only for the consent whose state was issued
  and shown; an authorized state cannot be replayed; a failed exchange does not
  cost the caller its state; every call is answered;
- listener: no captured code is lost before `Wait`, later redirects do not
  replace it, no goroutine blocks;
- browser authorization: only the call's own redirect is exchanged, the address
  is freed on every path;
- token client: only a token request that succeeds changes the token, a request
  that no other overlaps never leaves an older one, overlapping ones never one
  that is more than a time out older, and Expired errs by no more than its
  margin allows;
- data calls: a request carries a bearer of its own time and every header the
  gateway asks for, a refusal is never a result, every call returns;
- local connector: the two ways of authorizing do not use each other's
  redirects;
- start-up: what serves has the configuration that the file spells out.

## 2. Modules

| Module | Role |
|---|---|
| `Connector` | the connector as `cmd/rbhu-connector-http` runs it, with bank, PSU and callers |
| `Authorization` | abstract promise of both ways of authorizing |
| `CodeListener` | the loopback HTTP server |
| `CompleteAuth` | `CompleteAuthorization` calls composed with their listeners (EXTENDS `CodeListener`) |
| `LocalConnector` | `Connector` and `CompleteAuth` in one process (INSTANCE of both over one token, one set of grants) |
| `TokenStore` | `Client.token` over time |
| `DataCall` | the life of a call to the bank: builder, editor, reply, answer |
| `GeneratedClient` | what the builders and parsers under `psd2/` have in common |
| `AccountsApi` … `SigningBasketsApi` (14) | the operations of one package, as data for `GeneratedClient` |
| `Services` | which accessor wires which package to which service (`services.go`, `endpoints.go`) |
| `Startup` | both commands, from environment and files to serving |
| `ConnectorProofs`, `CodeListenerProofs`, `CompleteAuthProofs`, `LocalConnectorProofs`, `DataCallProofs`, `TokenStoreProofs`, `StartupProofs` | theorems about the module of that name (section 4) |
| `MC…` | symmetry sets and constant values for TLC |

Operators whose name has an underscore and a suffix (`SubmitDone_KeepsState`)
are deliberate faults. No specification uses them; each is the definition that
follows it with one plausible bug, and shows that a property would notice it.

### Connector

State: `states` is `conn.states` (`None` for an absent key), `token` is
`Client.token`. Tokens are named by the code they were issued for, as the token
endpoint issues at most one per code. `call` is what runs in each slot, with the
handler's local variables. `created`, `grants` and `redeemed` are the bank's:
existing consents, the URL approved for each code, consumed codes. `urls` and
`authorized` are histories of what was answered.

Actions follow the points where a handler can be interleaved:

| Action | Code |
|---|---|
| `CreateBegin`, `BankCreates`, `CreateFails` | `CreateAISConsent`: refusal without IBANs; request; reply or failure |
| `StoreState` | `newState`, the locked map write and the answer of `createConsent` |
| `SubmitCheck` | the locked map read and the comparison of `submitCode`, with both outcomes |
| `BankRedeems`, `StoreToken`, `ExchangeFails` | `ExchangeToken`/`postToken`: code consumed; token decoded and stored; any failure, the reply being lost after the code was consumed included |
| `SubmitDone` | the locked delete and the answer |
| `ReadSend`, `BankServes`, `ReadFails` | the three read tools: their control is the same, so one action each stands for all three; the bearer is chosen at send time |
| `PSUApproves` | the bridge: any issued URL, or one another program made for an existing consent, with a state of its own or none |
| `Restart` | process end and start: map, token and running calls are gone |

`PairedInputs` is about callers. When true, code and state come from one
redirect, as `docs/connector.md` (step 2) asks; which consent id they are
submitted with is free. When false, anything goes, such as echoing the state
that `create_consent` returned next to some other code. `ConsentBinding` and
`NoForeignExchange` need paired inputs: the token endpoint's reply does not name
the consent, so the state is the only link, and a caller that supplies the state
from elsewhere cuts it. `NoReplay`, `PendingKept` and the liveness do not
need it.

External assumptions: consent ids and drawn states are fresh (a 16-byte random
value; the bank's id generator), a code is redeemed once, an account read is
served to the bearer of the consent's own token only.

Abstracted: IBANs, PSU ids, amounts, JSON, URL syntax, response shapes (a reply
the handler turns into an error is `…Fails`). The bearer check of
`requireBearer` decides only whether a call begins.

### CodeListener

`ListenForCode` binds a free address and starts serving; `Visit` is a browser
request reaching whoever listens there; `HandleCode`, `HandleError` and
`HandleOther` are the handler with its non-blocking sends; `Respond` is the
flush of the page when the handler returns, which `Close` may have cut; `Wait`
and `WaitCode`, `WaitError`, `WaitCancelled` are the select, whose ready cases
Go picks from at random. `Close` follows `Wait`, as its comment and both users
have it.

### CompleteAuth

One call per listener. The call's UUID state is named by the call itself, which
says that it is fresh. `tabs` are the authorize URLs that are open in a
browser; they survive the call. A redirect always goes to `RedirectAddr`, the
registered redirect URI, whatever `callback_addr` a call bound, and lands on
whichever listener has that address then. `OtherMark` is the state of URLs
that no call here built, those of `create_consent` or of an earlier process.
`AddrRefused` and `StartFails` are the early returns (address not loopback,
address in use), `Refuse` the returns after `Wait`, `Return` the return with its
deferred `Close`.

### Authorization

Five operations on sets: a URL is issued, a code is granted for a URL, a granted
code of an issued URL is spent once, the token becomes a spent code's, success
is told of the URL of a spent code while there is a token. `Connector` (with
`urls`, `grants`, `redeemed`, `token`, `authorized`) and `CompleteAuth` (with
`tabs`, `grants`, `redeemed`, `token` and the calls in `ok`) both implement it;
`KeepsPromise` is that refinement in each of them.

### LocalConnector

`cmd/rbhu-connector` gives all six tools one `rbhu.Client`. `Tools` is
`Connector` and `Browser` is `CompleteAuth`, sharing `token` and `redeemed`;
`grants` holds what the PSU approved, URLs of either kind, and each component
sees the other's as foreign (`ToolGrants`, `TabGrants`). So a redirect of
`create_consent`'s URL may land on a listener, and the redirect of a browser
call may be pasted into `submit_authorization_code`. `consentOf` is the
`consent_id` a browser call was given, by any caller, for any consent. `Promise`
is `Authorization` again, now of the whole process: it issues URLs from two
sources and answers from two tools. Restarts are left to `Connector`.

### GeneratedClient, the package modules, Services

oapi-codegen writes the same code for each operation, so each operation is three
records. `XParams` are the fields of the struct by how they are left out: a
required UUID is sent as the nil UUID, a required string as an empty header, a
pointer not at all. `NewXRequest` says which fields are query parameters, and
whether there is a body. `ParseXResponse` says, per type of destination, for
which statuses the parser has a case. `BuildHeaders` and `Parses` do what all
builders and all parsers do with them; a body is described by what
`encoding/json` makes of it (`BodyShapes`). Payload types, comments and enums
of the generated code are abstracted, the control is not.

`Services` gives each of the eleven accessors its base URL and the editor, and
`accountsRawClient`, the second client of the accounts service that the raw
reads of `helpers.go` wire for themselves. The three OAuth packages have no
accessor; a program may wire them with `HTTPClient()`, which brings no editor.

### DataCall

A call slot is used once and names its call, so a fresh UUID is `Value("fresh",
k)`. The phases follow the places where another goroutine can act:

| Phase | Actions | Code |
|---|---|---|
| new to built | `DirectCall` (an accessor's method, with nothing, some or all fields, or nil Params), `ListAccounts` … `CreateAISConsent` (the helpers), `postToken`; `NoIBAN` and `BuildFails` (any builder may) end at once | builder; helpers; `oauth.go:97` |
| built to sent | `Send` | `applyEditors`, `requestEditor`: reads the token now |
| sent to replied | `BankReplies`; or `NoReply` ends it | the bank; transport error, 60 s time out, cancellation |
| replied to done | `Return`, `ReturnToken` | parsing and classification; `postToken` stores |

`SetToken` is the program, at any time, with a token of its own, none, an empty
one, or one that an earlier token request gave it (`Obtained`). `seen` is a history: the tokens that
were current while a call was running. A token is named by the call that
obtained it; `EmptyToken` is a token whose `access_token` is `""`.

### TokenStore

One tick is 30 s: `Margin` is 1, `Timeout` is 2. `BankIssues` starts a token's
life, `Receive` is the moment `postToken` computes `Expiry`, up to the time out
later. `Duration` is `time.Duration(e) * time.Second` in two's complement, with
`DurationMax` in place of 2^63 ns. `Kept` is what a program can put back with
`SetToken`: a token it was given, or the copy it has from JSON, where `Expiry`
is missing. `alone` is a history: no other request ran meanwhile.

### Startup

`Main` is the environment and what is on the disk; a file is named by where it
is. `ReadLine` takes lines one by one, whatever the operator wrote; a line is
described by what `TrimSpace`, `HasPrefix` and `Cut` make of it, a line longer
than the scanner's buffer being the error it causes. Each failure is
`log.Fatal`. `Meant` says what a key means in words of the file only: the value
of the last line that assigns to it. It looks lines up by their position, where
`LoadDotEnv` updates a map line by line.

## 3. Runs

| Run | Instance | Shows |
|---|---|---|
| `connector_paired` | 2 calls, 2 consents, 2 states, 3 codes, restarts | `TypeOK`, `ConsentBinding`, `NoForeignExchange`, the inductive invariant, refinement of `Authorization` |
| `connector_mixed` | 2 calls, 2 consents, 2 states, 1 code, restarts, any inputs, fair | `NoReplay`, `PendingKept`; every call is answered (`CallsAnswered`) |
| `connector_shared_token` | 1 caller, 2 consents, no restart | **violated**: `AuthorizedConsentReadable` |
| `listener` | 1 listener, 3 requests, 2 codes, fair | `NoLostCode`, `FirstCodeKept`, `HandlersEnd`, `WaitEnds` |
| `browser` | 2 calls, 1 address, 2 requests, 2 codes, fair | `OwnRedirectOnly`, refinement of `Authorization`, `CallEnds` |
| `local_connector` | 1 tool call at a time, 1 browser call, 2 consents, 2 states, 2 codes, 1 request at a time | `BothBound`, `FlowsApart`, refinement of `Authorization` |
| `data_catalog` | 1 call, all 45 operations and the raw client, 6 helpers, token requests, 17 replies, fair | `RefusalNotSuccess`, `GatewayHeadersSent`, `CallerFieldsArrive`, `CallsReturn` |
| `data_race` | 2 calls, 2 operations, 3 replies, 1 token of the program's | `BearerCurrent`, `TokenChanges` |
| `token_store` | 2 workers, 2 tokens, 6 ticks | `GoodMeansAlive`, `ExpiredMeansNearEnd`, `NoRegression` |
| `startup` | 2 commands, 5 keys, 2 values, files of up to 3 lines | `ConfigAsWritten`, `ServesConfigured` |
| `data_api_error` | as `data_catalog` | **violated**: `APIErrorIsRefusal` |
| `data_empty_token` | as `data_catalog` | **violated**: `ExchangeYieldsToken` |

Why these bounds. Every hazard of the connector involves two calls (a check and
a delete around each other's exchange) and two consents (one's state, code or
token used for the other); three codes give a consent two redirects and
leave one for a foreign URL. Slots are reused, so runs of any length are
covered. `connector_mixed` has one code, as its caller may submit any code with
any state (and the theorems of section 4 cover the others), and as many consents
as slots, so that a further `create_consent` meets a bank that never replies. In
the listener three requests fill the buffer, fill it again after `Wait` took the
first code, and leave one over, which is what a blocking send needs to hang. In
`browser` two requests are a stale redirect and a call's own, in either
order; the two calls bind the redirect address one after the other, which is
when a tab of the first can reach the second (a call bound to any other address
gets no redirect at all). Requests are finite, so a
listener or browser run may come to rest: these runs do not check deadlock. The
symmetry sets permute values that no definition distinguishes and are used for
safety only.

Fairness. Weak fairness of a call's steps says that a goroutine that can run
does, and that a bank request ends: `newHTTPClient` sets a 60 s time out, so if
no reply comes the failing action happens. Weak fairness of a listener's handler
and of a ready select is the Go scheduler again. Nothing is assumed of the bank,
the PSU, the browser, cancellation or restarts; that is why `CallEnds` and
`WaitEnds` start from an event that has happened. In stdio mode a
call whose tab is closed without a redirect waits until the client cancels it.

The bounds of the other runs. `local_connector` needs one call of each way and a
redirect of each kind in the wrong place; slots and requests are reused, and
`Connector` and `CompleteAuth` alone are checked with two calls each. In
`data_catalog` one call is enough as its properties speak of one call; every
operation is taken, since they differ in parameters and statuses. What relates
two calls is in `data_race`, whose two operations are one with a helper and one
with an `Authorization` parameter: editor and token code do not look at the
operation otherwise. In `token_store` six ticks let a token be issued, received
at the time out and die; the values of `expires_in` are negative, zero or
missing, short, ordinary, and two beyond `DurationMax`, one that wraps around
to a negative Duration and one to a short positive one. Three lines of `.env` hold id, secret
and one reassignment or misspelt line. `TokenStore` bounds are `MaxTime` and
`MaxIssued`, `Startup`'s is `MaxLines`. The runs of `DataCall`,
`TokenStore`, `LocalConnector` and `Startup` may come to rest, their calls and
time being finite, so they do not check deadlock.

`CallsReturn` rests on weak fairness of the goroutine of each call, `NoReply`
included, for the 60 s `Timeout`: the bank is not fair. A program that
brings its own `http.Client` without time out loses this.

### Findings

- `list_accounts` is described as listing the accounts "covered by an authorized
  consent. Requires a prior authorization." (`connector.go:81`). The client has
  a single token: after a second consent is authorized, a read of the first,
  which is still authorized at the bank, carries the second one's token.
  The run needs one caller, no concurrency and no restart. `docs/connector.md`
  calls the shared session "fine for a single tester", yet one tester with two
  consents meets this.
- An `APIError` may have a success status: a 200 that is not JSON, or a 201,
  leaves `JSON200` nil (`helpers.go:111`, `135`, `153`, `177`), while
  `errors.go:8` says it "represents a non-2xx response".
- A token reply `{}` or `null` is a success (`oauth.go:120`), and replaces the
  client's token with an empty one, after which data calls carry no bearer;
  `oauth.go:73` says that `ExchangeToken` obtains a token.

More differences between text and code can be read off the definitions:
`requestEditor` replaces the `Authorization` parameter of `DeleteConsent` and
`DeleteConsentConfirmationOfFunds`, though its comment confines it to headers
that are no parameters; token requests carry no `X-Request-ID`, `Date` or
`client_id` header (`postToken`), though the repository's README says "on every
call"; the fallback `X-Request-ID` never applies where the parameter is a
required UUID, as the nil UUID is not empty; and `NewSandboxFromEnv` defaults to
files under `secrets/`, not to those its comment names. A Config without
redirect URL passes `Validate`, and its authorize URLs have an empty
`redirect_uri`, which the bridge requires.

## 4. Proofs

| Module | Theorem | States |
|---|---|---|
| `ConnectorProofs` | `Invariance`, `TypeCorrect`, `Binding`, `ForeignRefused`, `ReplayRefused`, `PendingKeptAlways` | `IInv`, `TypeOK`, `ConsentBinding`, `NoForeignExchange`, `NoReplay`, `PendingKept` |
| | `Refinement` | with paired inputs, `Connector` implements `Authorization` |
| `CodeListenerProofs` | `LInvariance`, `ListenerTypeCorrect`, `CodeNotLost`, `FirstCodeStays` | `LInv`, `LTypeOK`, `NoLostCode`, `FirstCodeKept` |
| `CompleteAuthProofs` | `CInvariance`, `CallsTypeCorrect`, `OwnRedirects` | `CInv`, `CTypeOK`, `OwnRedirectOnly` |
| | `CallsListen`, `CallsRefine` | `CompleteAuth` implements `CodeListener` and `Authorization` |
| `LocalConnectorProofs` | `JInvariance`, `LocalTypeCorrect`, `BothFlowsBound`, `FlowsStayApart` | `JInv`, `JTypeOK`, `BothBound`, `FlowsApart` |
| | `LocalRefines` | `LocalConnector` implements `Authorization` |
| `DataCallProofs` | `DInvariance`, `CallsTyped`, `NoFalseSuccess`, `BearerIsCurrent`, `CallerFieldsKept`, `HeadersSent`, `OnlyTokenRequestsChange` | `DInv`, `DTypeOK`, `RefusalNotSuccess`, `BearerCurrent`, `CallerFieldsArrive`, `GatewayHeadersSent`, `TokenChanges` |
| `TokenStoreProofs` | `TInvariance`, `StoreTypeCorrect`, `ExpiredIsLateByMargin`, `ExpiredIsNotEarly`, `RequestsRenew` | `TInv`, `TTypeOK`, `GoodMeansAlive`, `ExpiredMeansNearEnd`, `NoRegression` |
| `StartupProofs` | `StInvariance`, `ConfigFollowsFile`, `ServesOnlyConfigured` | `StInv`, `ConfigAsWritten`, `ServesConfigured` |

They hold for constants of any size. What they assume of the constants is named
in the modules, and TLC evaluates it on the instances of the runs:

- `ConstantsAssumption`, `NoneAssumption`, `MarksAssumption`, `LocalAssumption`:
  `None` is none of the other values, the states that `newState` and the browser
  calls draw are different from each other and from foreign ones, and the
  registered redirect points to an address;
- `CatalogAssumption`, `HelpersAssumption`: no generated operation has a
  parameter named like a header that builder and editor always set, and the
  structs that the helpers fill have the fields they fill. TLC evaluates both on
  all 45 operations;
- `TimeAssumption`: times, lifetimes and bounds are numbers, no zero time is one;
- `StartupAssumption`: the Config's fields are keys.

`Refinement` and the parts of `IInv` about codes are conditional on
`PairedInputs`, the assumption about callers of section 2. `HeadersSent` has the
hypothesis that each client with the base URL of a service installs the request
editor. This is a fact about the wiring of the eleven accessors and of
`accountsRawClient`, not about the flow of a call, so it stays with the run
`data_catalog`, where a forgotten editor violates `GatewayHeadersSent`.

### The inductive invariants

`Connector` (`IInv`). `ConsentBinding` and `NoReplay` speak of answers, which
come long after the check that justifies them, so the invariant carries the
check through the exchange: `InFlightChecked` says that a call past its check
has a consent and state that form an issued URL, and, with paired inputs, a code
granted for exactly that URL. It holds at the check since a pending state is in
its consent's URL (`PendingIssued`), a code's URL is ours or carries no state of
ours (`GrantsKnown`), and a state belongs to one URL (`UrlsUnique`). That in
turn rests on fresh states and ids (`CreatedUnissued`: a consent whose state is
not yet drawn has no URL and no second call). `PendingKept` uses both directions
of `UrlsUnique`: the call that deletes an entry was checked against the entry it
deletes, and `create_consent` overwrites none.

`CodeListener` (`LInv`). `NoLostCode` is about requests whose page is out and
codes still to be taken. What makes it inductive is `Buffered`: a channel holds
exactly the result of one request that was sent to this listener. `Routed` says
that a request which reached a handler has an addressee.

`CompleteAuth` (`FlowInv`, `CInv`). A call drives its listener only as
`CodeListener` allows (`CallsListen`), so `LInv`, `NoLostCode` and
`FirstCodeKept` hold of it without another proof. `FlowInv` follows a redirect: it
carries the state of the URL that its code was granted for from the browser's
request (`CarriesGrant`) to what `Wait` returned (`GotGrant`), hence a call that
found its own state has its own code; `StageKnown` ties each stage to what has
been done by then.

`LocalConnector` (`JInv`). Proved by composition. `Connector`'s invariant
without `NoForeignExchange` (`ToolsInv`) and `FlowInv` are kept by the
component's own steps, and also by any step that leaves the component's
variables alone, adds redeemed codes and sets the token to a redeemed one
(`OthersStep` in both modules). `ToolSteps` and `BrowserSteps` show that each
step of the whole is a step of one component, `UseKeeps` that it is such a step
for the other; an approval is seen by both (`ApprovalSeen`). What `JInv` adds is
the link: a code with the state of a browser call was granted for the consent
of that call (`TabCodes`). `NoForeignExchange` itself and `OwnRedirectOnly`'s
account of `redeemed` do not hold of it here, and should be: each component sees codes
redeemed and a token stored that are foreign to it. `LocalRefines` maps the
steps of both to those of `Authorization`: two sources of URLs, two tellers.

`DataCall` (`DInv`). Calls meet only in the client's token, so the invariant
speaks of one call and the tokens it has seen (`CallInv`), plus `TokenSeen`: the
token of this moment is among those that each running call has seen. That is
what makes the bearer a current one when `Send` reads it. `FieldsKept` and
`EditorRan` say what builder and editor did to the headers.

`TokenStore` (`TInv`). `Timely` bounds the age of a request by the time out, so
that `Traced` can bound the delay between the issue of a token and the moment
its Expiry was computed. Duration's two's complement stays in the formula: for a
lifetime below the limit it is that lifetime (`DurationFits`), and beyond the
limit it is a shorter one (`DurationBelow`). So `GoodMeansAlive` holds for every
`expires_in`, while `ExpiredMeansNearEnd` leaves out the one that overflows: such
a token may be called expired at once. A token without an Expiry, because
`expires_in` was not positive or the token comes from JSON, is never expired, as
the comment of `Expired` says; it is the exception of `GoodMeansAlive`.
`LoneNewest` says that a request which is alone holds a token newer than every
one that the program was given; `NoRegression` takes from it the first half, and
from `Timely` that an overlapped request leaves no token which the bank issued
more than a time out before the one it replaces.

`Startup` (`StInv`). After every line the map holds what the lines read so far
mean (`MapAsMeant`). `MeantAppend` shows that a pair decides what its key means
and no other line changes it; the pairs that name a key have a last one
(`LastNaming`, in the invariant, where it needs no induction over the file).

Only model-checked, as the prover has no support for it: liveness
(`CallsAnswered`, `HandlersEnd`, `WaitEnds`, `CallEnds`, `CallsReturn`).
The properties of the three runs that expect a violation are false. The data
under `GeneratedClient` and `Services` is finite, and TLC enumerates it.

## 5. Plan

Modelled, checked and proved: all of the above. What a further round may add:

- `DataCall` implements the token client that `TokenStore` describes, time left
  aside: token requests and `SetToken` are the only writers in both;
- in `Connector`, what a read may see (`ReadSend`, `BankServes`): the largest
  part of the truth that is left of `AuthorizedConsentReadable`, for sessions
  with a single consent;
- hazards without a property in PROJECT.json that a short model would reach.

### Not modelled

- Examples and scripts: straight-line programs without logic of their own.
- TLS, PKCS#12 decoding, redirects and connection reuse of `net/http`, the MCP
  SDK: libraries. Launching the browser: `openBrowser` ignores its outcome.
- Payload types of the generated code, and the body of the consent request
  (dates, frequency, `Recurring`): data that no step of the program reads again.
- Texts of errors and pages; the syntax of URLs; `ConfigFromEnv`, which neither
  command uses.
