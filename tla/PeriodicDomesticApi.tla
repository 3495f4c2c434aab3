------------------------- MODULE PeriodicDomesticApi --------------------------
(*****************************************************************************)
(* Package psd2/periodicdomestic: initiation of periodic domestic payments   *)
(* (PIS).                                                                    *)
(*****************************************************************************)
EXTENDS GeneratedClient

InitiateDomesticPaymentParams ==
  [uuid |-> {"X-Request-ID"}, string |-> {"PSU-IP-Address"},
   pointer |-> Signed \cup (Forwarded \ {"PSU-IP-Address"}) \cup Payer \cup
      Redirect \cup {"Consent-ID", "TPP-Explicit-Authorisation-Preferred",
      "TPP-Rejection-NoFunds-Preferred"}]

NewInitiateDomesticPaymentRequest ==
  [method |-> "POST", path |-> <<":paymentService", "domestic">>,
   query |-> {}, params |-> InitiateDomesticPaymentParams, body |-> "json"]

ParseInitiateDomesticPaymentResponse ==
  [NoCases EXCEPT !.struct = {201, 400, 401, 403, 404, 405, 409}]

\* The operations of the client, by name.
Operations ==
  [InitiateDomesticPayment |->
     [request |-> NewInitiateDomesticPaymentRequest,
      parse |-> ParseInitiateDomesticPaymentResponse]]
===============================================================================
