------------------------------ MODULE ConsentApi ------------------------------
(*****************************************************************************)
(* Package psd2/consent: account-information consents (AIS).                 *)
(*****************************************************************************)
EXTENDS GeneratedClient

NewConsentParams ==
  [uuid |-> {}, string |-> {"client_id", "X-Request-ID"},
   pointer |-> Signed \cup Forwarded \cup Payer \cup Redirect]

NewNewConsentRequest ==
  [method |-> "POST", path |-> <<"consents">>, query |-> {},
   params |-> NewConsentParams, body |-> "json"]

ParseNewConsentResponse ==
  [NoCases EXCEPT !.struct = {200, 400, 404, 408, 500}]

DeleteConsentParams ==
  [uuid |-> {}, string |-> {"client_id", "X-Request-ID", "Authorization"},
   pointer |-> Signed]

NewDeleteConsentRequest ==
  [method |-> "DELETE", path |-> <<"consents", ":consentId">>, query |-> {},
   params |-> DeleteConsentParams, body |-> "none"]

ParseDeleteConsentResponse ==
  [NoCases EXCEPT !.struct = {400, 404, 408, 500}]

GetConsentParams ==
  [uuid |-> {}, string |-> {"client_id", "X-Request-ID"}, pointer |-> Signed]

NewGetConsentRequest ==
  [method |-> "GET", path |-> <<"consents", ":consentId">>, query |-> {},
   params |-> GetConsentParams, body |-> "none"]

ParseGetConsentResponse ==
  [NoCases EXCEPT !.struct = {200, 400, 404, 408, 500}]

GetConsentStatusParams ==
  [uuid |-> {}, string |-> {"X-Request-ID"}, pointer |-> Signed]

NewGetConsentStatusRequest ==
  [method |-> "GET", path |-> <<"consents", ":consentId", "status">>,
   query |-> {}, params |-> GetConsentStatusParams, body |-> "none"]

ParseGetConsentStatusResponse ==
  [NoCases EXCEPT !.struct = {200, 404, 408, 500}]

\* The operations of the client, by name.
Operations ==
  [NewConsent |->
     [request |-> NewNewConsentRequest,
      parse |-> ParseNewConsentResponse],
   DeleteConsent |->
     [request |-> NewDeleteConsentRequest,
      parse |-> ParseDeleteConsentResponse],
   GetConsent |->
     [request |-> NewGetConsentRequest,
      parse |-> ParseGetConsentResponse],
   GetConsentStatus |->
     [request |-> NewGetConsentStatusRequest,
      parse |-> ParseGetConsentStatusResponse]]
===============================================================================
