---------------------------- MODULE CafConsentApi -----------------------------
(*****************************************************************************)
(* Package psd2/cafconsent: consents for the confirmation of funds (CISP).   *)
(*****************************************************************************)
EXTENDS GeneratedClient

CreateConsentConfirmationOfFundsParams ==
  [uuid |-> {}, string |-> {"X-Request-ID"},
   pointer |-> Signed \cup Forwarded \cup Payer \cup Redirect \cup
      {"TPP-Explicit-Authorisation-Preferred"}]

NewCreateConsentConfirmationOfFundsRequest ==
  [method |-> "POST", path |-> <<"consents", "confirmation-of-funds">>,
   query |-> {}, params |-> CreateConsentConfirmationOfFundsParams,
   body |-> "json"]

ParseCreateConsentConfirmationOfFundsResponse ==
  [NoCases EXCEPT !.struct =
     {201, 400, 401, 403, 404, 405, 406, 408, 409, 415, 429, 500, 503}]

DeleteConsentConfirmationOfFundsParams ==
  [uuid |-> {}, string |-> {"X-Request-ID", "Authorization"},
   pointer |-> Signed \cup Forwarded]

NewDeleteConsentConfirmationOfFundsRequest ==
  [method |-> "DELETE",
   path |-> <<"consents", "confirmation-of-funds", ":consentId">>,
   query |-> {}, params |-> DeleteConsentConfirmationOfFundsParams,
   body |-> "none"]

ParseDeleteConsentConfirmationOfFundsResponse ==
  [NoCases EXCEPT !.struct =
     {400, 401, 403, 404, 405, 406, 408, 409, 415, 429, 500}]

GetConsentConfirmationOfFundsParams ==
  [uuid |-> {}, string |-> {"X-Request-ID"},
   pointer |-> Signed \cup Forwarded]

NewGetConsentConfirmationOfFundsRequest ==
  [method |-> "GET",
   path |-> <<"consents", "confirmation-of-funds", ":consentId">>,
   query |-> {}, params |-> GetConsentConfirmationOfFundsParams,
   body |-> "none"]

ParseGetConsentConfirmationOfFundsResponse ==
  [NoCases EXCEPT !.struct =
     {200, 400, 401, 403, 404, 405, 406, 408, 409, 415, 429, 500}]

GetStatusConsentConfirmationOfFundsParams ==
  [uuid |-> {}, string |-> {"X-Request-ID"},
   pointer |-> Signed \cup Forwarded]

NewGetStatusConsentConfirmationOfFundsRequest ==
  [method |-> "GET",
   path |-> <<"consents", "confirmation-of-funds", ":consentId", "status">>,
   query |-> {}, params |-> GetStatusConsentConfirmationOfFundsParams,
   body |-> "none"]

ParseGetStatusConsentConfirmationOfFundsResponse ==
  [NoCases EXCEPT !.struct =
     {200, 400, 401, 403, 404, 405, 406, 408, 409, 415, 429, 500}]

\* The operations of the client, by name.
Operations ==
  [CreateConsentConfirmationOfFunds |->
     [request |-> NewCreateConsentConfirmationOfFundsRequest,
      parse |-> ParseCreateConsentConfirmationOfFundsResponse],
   DeleteConsentConfirmationOfFunds |->
     [request |-> NewDeleteConsentConfirmationOfFundsRequest,
      parse |-> ParseDeleteConsentConfirmationOfFundsResponse],
   GetConsentConfirmationOfFunds |->
     [request |-> NewGetConsentConfirmationOfFundsRequest,
      parse |-> ParseGetConsentConfirmationOfFundsResponse],
   GetStatusConsentConfirmationOfFunds |->
     [request |-> NewGetStatusConsentConfirmationOfFundsRequest,
      parse |-> ParseGetStatusConsentConfirmationOfFundsResponse]]
===============================================================================
