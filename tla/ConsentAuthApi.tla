---------------------------- MODULE ConsentAuthApi ----------------------------
(*****************************************************************************)
(* Package psd2/consentauth: authorisations of a consent (AIS).              *)
(*****************************************************************************)
EXTENDS GeneratedClient

GetConsentAuthorisationParams ==
  [uuid |-> {"X-Request-ID"}, string |-> {},
   pointer |-> Signed \cup Forwarded]

NewGetConsentAuthorisationRequest ==
  [method |-> "GET", path |-> <<"consents", ":consentId", "authorisations">>,
   query |-> {}, params |-> GetConsentAuthorisationParams, body |-> "none"]

ParseGetConsentAuthorisationResponse ==
  [NoCases EXCEPT !.struct = {200, 400, 401}, !.any = {500, 503}]

StartConsentAuthorisationParams ==
  [uuid |-> {"X-Request-ID"}, string |-> {},
   pointer |-> Signed \cup Forwarded \cup Payer \cup Redirect]

NewStartConsentAuthorisationRequest ==
  [method |-> "POST", path |-> <<"consents", ":consentId", "authorisations">>,
   query |-> {}, params |-> StartConsentAuthorisationParams, body |-> "json"]

ParseStartConsentAuthorisationResponse ==
  [NoCases EXCEPT !.struct = {400, 401}, !.map = {201}, !.any = {500, 503}]

GetConsentScaStatusParams ==
  [uuid |-> {"X-Request-ID"}, string |-> {},
   pointer |-> Signed \cup Forwarded]

NewGetConsentScaStatusRequest ==
  [method |-> "GET",
   path |-> <<"consents", ":consentId", "authorisations",
      ":authorisationId">>,
   query |-> {}, params |-> GetConsentScaStatusParams, body |-> "none"]

ParseGetConsentScaStatusResponse ==
  [NoCases EXCEPT !.struct = {200, 400, 401}, !.any = {500, 503}]

\* The operations of the client, by name.
Operations ==
  [GetConsentAuthorisation |->
     [request |-> NewGetConsentAuthorisationRequest,
      parse |-> ParseGetConsentAuthorisationResponse],
   StartConsentAuthorisation |->
     [request |-> NewStartConsentAuthorisationRequest,
      parse |-> ParseStartConsentAuthorisationResponse],
   GetConsentScaStatus |->
     [request |-> NewGetConsentScaStatusRequest,
      parse |-> ParseGetConsentScaStatusResponse]]
===============================================================================
