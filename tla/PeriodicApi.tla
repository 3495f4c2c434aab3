----------------------------- MODULE PeriodicApi ------------------------------
(*****************************************************************************)
(* Package psd2/periodic: periodic payments (PIS).                           *)
(*****************************************************************************)
EXTENDS GeneratedClient

CancelPaymentParams ==
  [uuid |-> {"X-Request-ID"}, string |-> {},
   pointer |-> Signed \cup Forwarded]

NewCancelPaymentRequest ==
  [method |-> "DELETE",
   path |-> <<":paymentService", ":paymentProduct", ":paymentId">>,
   query |-> {}, params |-> CancelPaymentParams, body |-> "none"]

ParseCancelPaymentResponse ==
  [NoCases EXCEPT !.struct = {400, 401, 403, 404, 405, 409}, !.map = {202}]

GetPaymentInformationParams ==
  [uuid |-> {"X-Request-ID"}, string |-> {},
   pointer |-> Signed \cup Forwarded]

NewGetPaymentInformationRequest ==
  [method |-> "GET",
   path |-> <<":paymentService", ":paymentProduct", ":paymentId">>,
   query |-> {}, params |-> GetPaymentInformationParams, body |-> "none"]

ParseGetPaymentInformationResponse ==
  [NoCases EXCEPT !.struct = {200, 400, 401, 403, 404, 405, 409}]

GetListAuthorisationSubresourcesParams ==
  [uuid |-> {"X-Request-ID"}, string |-> {},
   pointer |-> Signed \cup Forwarded]

NewGetListAuthorisationSubresourcesRequest ==
  [method |-> "GET",
   path |-> <<":paymentService", ":paymentProduct", ":paymentId",
      "authorisations">>,
   query |-> {}, params |-> GetListAuthorisationSubresourcesParams,
   body |-> "none"]

ParseGetListAuthorisationSubresourcesResponse ==
  [NoCases EXCEPT !.struct = {200, 400, 401, 403, 404, 405, 409},
                  !.map = {406, 408, 415, 429, 503}, !.default = TRUE]

GetAuthorisationSubresourceParams ==
  [uuid |-> {"X-Request-ID"}, string |-> {},
   pointer |-> Signed \cup Forwarded]

NewGetAuthorisationSubresourceRequest ==
  [method |-> "GET",
   path |-> <<":paymentService", ":paymentProduct", ":paymentId",
      "authorisations", ":authorisationId">>,
   query |-> {}, params |-> GetAuthorisationSubresourceParams,
   body |-> "none"]

ParseGetAuthorisationSubresourceResponse ==
  [NoCases EXCEPT !.struct = {200, 400, 401, 403, 404, 405, 409},
                  !.map = {406, 408, 415, 429, 503}, !.default = TRUE]

GetPaymentInitiationStatusParams ==
  [uuid |-> {"X-Request-ID"}, string |-> {},
   pointer |-> Signed \cup Forwarded]

NewGetPaymentInitiationStatusRequest ==
  [method |-> "GET",
   path |-> <<":paymentService", ":paymentProduct", ":paymentId", "status">>,
   query |-> {}, params |-> GetPaymentInitiationStatusParams, body |-> "none"]

ParseGetPaymentInitiationStatusResponse ==
  [NoCases EXCEPT !.struct = {200, 400, 401, 403, 404, 405, 409}]

\* The operations of the client, by name.
Operations ==
  [CancelPayment |->
     [request |-> NewCancelPaymentRequest,
      parse |-> ParseCancelPaymentResponse],
   GetPaymentInformation |->
     [request |-> NewGetPaymentInformationRequest,
      parse |-> ParseGetPaymentInformationResponse],
   GetListAuthorisationSubresources |->
     [request |-> NewGetListAuthorisationSubresourcesRequest,
      parse |-> ParseGetListAuthorisationSubresourcesResponse],
   GetAuthorisationSubresource |->
     [request |-> NewGetAuthorisationSubresourceRequest,
      parse |-> ParseGetAuthorisationSubresourceResponse],
   GetPaymentInitiationStatus |->
     [request |-> NewGetPaymentInitiationStatusRequest,
      parse |-> ParseGetPaymentInitiationStatusResponse]]
===============================================================================
