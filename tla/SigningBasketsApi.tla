-------------------------- MODULE SigningBasketsApi ---------------------------
(*****************************************************************************)
(* Package psd2/signingbaskets: signing baskets (PIS).                       *)
(*****************************************************************************)
EXTENDS GeneratedClient

CreateSigningBasketParams ==
  [uuid |-> {"X-Request-ID"}, string |-> {"PSU-IP-Address"},
   pointer |-> Signed \cup (Forwarded \ {"PSU-IP-Address"}) \cup Payer \cup
      Redirect \cup {"Consent-ID", "TPP-Explicit-Authorisation-Preferred"}]

NewCreateSigningBasketRequest ==
  [method |-> "POST", path |-> <<"signing-baskets">>, query |-> {},
   params |-> CreateSigningBasketParams, body |-> "json"]

ParseCreateSigningBasketResponse ==
  [NoCases EXCEPT !.struct = {201, 400, 401, 403, 404, 405, 409},
                  !.map = {406, 408, 415, 429, 500, 503}]

CancelSigningBasketParams ==
  [uuid |-> {}, string |-> {}, pointer |-> Signed]

NewCancelSigningBasketRequest ==
  [method |-> "DELETE", path |-> <<"signing-baskets", ":basketId">>,
   query |-> {}, params |-> CancelSigningBasketParams, body |-> "none"]

ParseCancelSigningBasketResponse ==
  [NoCases EXCEPT !.struct = {400, 401, 403, 404, 405, 409}]

GetBasketInformationParams ==
  [uuid |-> {"X-Request-ID"}, string |-> {"PSU-IP-Address"},
   pointer |-> Signed \cup (Forwarded \ {"PSU-IP-Address"})]

NewGetBasketInformationRequest ==
  [method |-> "GET", path |-> <<"signing-baskets", ":basketId">>,
   query |-> {}, params |-> GetBasketInformationParams, body |-> "none"]

ParseGetBasketInformationResponse ==
  [NoCases EXCEPT !.struct = {200, 400, 401, 403, 404, 405, 409}]

GetSigningBasketAuthorisationParams ==
  [uuid |-> {"X-Request-ID"}, string |-> {"PSU-IP-Address"},
   pointer |-> Signed \cup (Forwarded \ {"PSU-IP-Address"})]

NewGetSigningBasketAuthorisationRequest ==
  [method |-> "GET",
   path |-> <<"signing-baskets", ":basketId", "authorisations">>,
   query |-> {}, params |-> GetSigningBasketAuthorisationParams,
   body |-> "none"]

ParseGetSigningBasketAuthorisationResponse ==
  [NoCases EXCEPT !.struct = {200, 400, 401, 403, 404, 405, 409},
                  !.map = {406, 408, 415, 429, 500, 503}]

PostSigningBasketAuthorisationParams ==
  [uuid |-> {"X-Request-ID"}, string |-> {"PSU-IP-Address"},
   pointer |-> Signed \cup (Forwarded \ {"PSU-IP-Address"}) \cup Payer \cup
      Redirect]

NewPostSigningBasketAuthorisationRequest ==
  [method |-> "POST",
   path |-> <<"signing-baskets", ":basketId", "authorisations">>,
   query |-> {}, params |-> PostSigningBasketAuthorisationParams,
   body |-> "json"]

ParsePostSigningBasketAuthorisationResponse ==
  [NoCases EXCEPT !.struct = {201, 400, 401, 403, 404, 405, 409},
                  !.map = {406, 408, 415, 429, 500, 503}]

GetSigningBasketScaStatusParams ==
  [uuid |-> {"X-Request-ID"}, string |-> {"PSU-IP-Address"},
   pointer |-> Signed \cup (Forwarded \ {"PSU-IP-Address"})]

NewGetSigningBasketScaStatusRequest ==
  [method |-> "GET",
   path |-> <<"signing-baskets", ":basketId", "authorisations",
      ":authorisationId">>,
   query |-> {}, params |-> GetSigningBasketScaStatusParams, body |-> "none"]

ParseGetSigningBasketScaStatusResponse ==
  [NoCases EXCEPT !.struct = {200, 400, 401, 403, 404, 405, 409},
                  !.map = {406, 408, 415, 429, 500, 503}]

GetSigningBasketStatusParams ==
  [uuid |-> {"X-Request-ID"}, string |-> {"PSU-IP-Address"},
   pointer |-> Signed \cup (Forwarded \ {"PSU-IP-Address"}) \cup Payer]

NewGetSigningBasketStatusRequest ==
  [method |-> "GET", path |-> <<"signing-baskets", ":basketId", "status">>,
   query |-> {}, params |-> GetSigningBasketStatusParams, body |-> "none"]

ParseGetSigningBasketStatusResponse ==
  [NoCases EXCEPT !.struct = {200, 400, 401, 403, 404, 405, 409}]

\* The operations of the client, by name.
Operations ==
  [CreateSigningBasket |->
     [request |-> NewCreateSigningBasketRequest,
      parse |-> ParseCreateSigningBasketResponse],
   CancelSigningBasket |->
     [request |-> NewCancelSigningBasketRequest,
      parse |-> ParseCancelSigningBasketResponse],
   GetBasketInformation |->
     [request |-> NewGetBasketInformationRequest,
      parse |-> ParseGetBasketInformationResponse],
   GetSigningBasketAuthorisation |->
     [request |-> NewGetSigningBasketAuthorisationRequest,
      parse |-> ParseGetSigningBasketAuthorisationResponse],
   PostSigningBasketAuthorisation |->
     [request |-> NewPostSigningBasketAuthorisationRequest,
      parse |-> ParsePostSigningBasketAuthorisationResponse],
   GetSigningBasketScaStatus |->
     [request |-> NewGetSigningBasketScaStatusRequest,
      parse |-> ParseGetSigningBasketScaStatusResponse],
   GetSigningBasketStatus |->
     [request |-> NewGetSigningBasketStatusRequest,
      parse |-> ParseGetSigningBasketStatusResponse]]
===============================================================================
