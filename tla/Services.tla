------------------------------- MODULE Services -------------------------------
(***************************************************************************)
(* The accessors of services.go: each wires one generated package with the *)
(* base URL of its service, the client's http.Client and requestEditor.    *)
(* The three OAuth packages have no accessor; a program may wire them      *)
(* itself with the http.Client that HTTPClient() exposes, and no editor.   *)
(***************************************************************************)
EXTENDS GeneratedClient

AccountsClient == INSTANCE AccountsApi
ConsentClient == INSTANCE ConsentApi
ConsentAuthClient == INSTANCE ConsentAuthApi
CAFConsentClient == INSTANCE CafConsentApi
CAFClient == INSTANCE CafApi
BulkPaymentsClient == INSTANCE BulkPaymentsApi
CleanUpPaymentsClient == INSTANCE CleanUpPaymentsApi
PaymentsClient == INSTANCE PaymentsApi
SigningBasketsClient == INSTANCE SigningBasketsApi
PeriodicDomesticClient == INSTANCE PeriodicDomesticApi
PeriodicClient == INSTANCE PeriodicApi
OAuth2Client == INSTANCE OAuth2Api
OAuthCispClient == INSTANCE OAuthCispApi
OAuthBridgeClient == INSTANCE OAuthBridgeApi

-----------------------------------------------------------------------------
\* The clients of a package: its operations under one base URL.
Client(name, url, editor, operations) ==
  {[id |-> <<name, op>>, base |-> url, edited |-> editor,
    request |-> operations[op].request, parse |-> operations[op].parse] :
     op \in DOMAIN operations}

\* Environment.URL.
URL(service) == <<"APIBase", service>>

Accessor(name, service, operations) ==
  Client(name, URL(service), TRUE, operations)

ServiceAccounts == "psd2-accounts-api-1.3.2-rbhu/v1"
ServiceConsent == "psd2-bgs-consent-api-1.3.2-rbhu/v1"
ServiceConsentAuth == "psd2-bgs-authorisation-api/v1"
ServiceCAFConsent == "psd2-bgs-consent-cisp-api-2.0.0/v2"
ServiceCAF == "psd2-cards-api-1.3.2/v1"
ServiceBulkPayments == "psd2-bulk-payments-api-1.3.2/v1"
ServiceCleanUpPayments == "psd2-payments-cleanup-api-1.3.2/v1"
ServicePayments == "psd2-payments-api-1.3.2/v1"
ServiceSigningBaskets == "psd2-signing-baskets-api-1.3.2/v1"
ServicePeriodicDomestic == "psd2-periodic-payments-api-1.3.2/v1"
ServicePeriodic == "psd2-periodic-payments-api-1.3.2/v1"

Accounts ==
  Accessor("Accounts", ServiceAccounts, AccountsClient!Operations)

\* Mutant: the second client of the service is wired without
\* WithRequestEditorFn.
accountsRawClient_NoEditor ==
  Client("accountsRawClient", URL(ServiceAccounts), FALSE,
         AccountsClient!Operations)

\* The client of the raw reads, which has no accessor (helpers.go).
accountsRawClient ==
  Accessor("accountsRawClient", ServiceAccounts, AccountsClient!Operations)

Consent ==
  Accessor("Consent", ServiceConsent, ConsentClient!Operations)

ConsentAuth ==
  Accessor("ConsentAuth", ServiceConsentAuth, ConsentAuthClient!Operations)

CAFConsent ==
  Accessor("CAFConsent", ServiceCAFConsent, CAFConsentClient!Operations)

CAF ==
  Accessor("CAF", ServiceCAF, CAFClient!Operations)

BulkPayments ==
  Accessor("BulkPayments", ServiceBulkPayments, BulkPaymentsClient!Operations)

CleanUpPayments ==
  Accessor("CleanUpPayments", ServiceCleanUpPayments,
           CleanUpPaymentsClient!Operations)

Payments ==
  Accessor("Payments", ServicePayments, PaymentsClient!Operations)

SigningBaskets ==
  Accessor("SigningBaskets", ServiceSigningBaskets,
           SigningBasketsClient!Operations)

PeriodicDomestic ==
  Accessor("PeriodicDomestic", ServicePeriodicDomestic,
           PeriodicDomesticClient!Operations)

Periodic ==
  Accessor("Periodic", ServicePeriodic, PeriodicClient!Operations)

\* Clients that a program wires itself, at the URLs the library uses by hand.
OAuth2 == Client("OAuth2", <<"APIBase">>, FALSE, OAuth2Client!Operations)

OAuthCisp ==
  Client("OAuthCisp", <<"APIBase">>, FALSE, OAuthCispClient!Operations)

OAuthBridge ==
  Client("OAuthBridge", <<"BridgeBase">>, FALSE, OAuthBridgeClient!Operations)

Wired ==
  Accounts \cup accountsRawClient \cup Consent \cup ConsentAuth
    \cup CAFConsent \cup CAF \cup BulkPayments \cup CleanUpPayments
    \cup Payments \cup SigningBaskets \cup PeriodicDomestic \cup Periodic

AllOperations == Wired \cup OAuth2 \cup OAuthCisp \cup OAuthBridge

\* Operations by client and name.
ByID(ops) == [i \in {o.id : o \in ops} |-> CHOOSE o \in ops : o.id = i]
===============================================================================
