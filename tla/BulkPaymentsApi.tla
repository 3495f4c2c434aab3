--------------------------- MODULE BulkPaymentsApi ----------------------------
(*****************************************************************************)
(* Package psd2/bulkpayments: initiation of bulk payments (PIS).             *)
(*****************************************************************************)
EXTENDS GeneratedClient

InitiateBulkPaymentsParams ==
  [uuid |-> {"X-Request-ID"}, string |-> {"PSU-IP-Address"},
   pointer |-> Signed \cup (Forwarded \ {"PSU-IP-Address"}) \cup Payer \cup
      Redirect \cup {"Consent-ID", "TPP-Explicit-Authorisation-Preferred",
      "TPP-Rejection-NoFunds-Preferred", "TPP-Notification-URI",
      "TPP-Notification-Content-Preferred"}]

NewInitiateBulkPaymentsRequest ==
  [method |-> "POST", path |-> <<"bulk-payments", ":payment_product">>,
   query |-> {}, params |-> InitiateBulkPaymentsParams, body |-> "json"]

ParseInitiateBulkPaymentsResponse ==
  [NoCases EXCEPT !.struct = {201, 400, 401, 403, 404, 405, 409}]

\* The operations of the client, by name.
Operations ==
  [InitiateBulkPayments |->
     [request |-> NewInitiateBulkPaymentsRequest,
      parse |-> ParseInitiateBulkPaymentsResponse]]
===============================================================================
