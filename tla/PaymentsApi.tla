----------------------------- MODULE PaymentsApi ------------------------------
(*****************************************************************************)
(* Package psd2/payments: payment details, cancellation and authorisation    *)
(* (PIS).                                                                    *)
(*****************************************************************************)
EXTENDS GeneratedClient

GetPaymentInformationBulkParams ==
  [uuid |-> {"X-Request-ID"}, string |-> {},
   pointer |-> Signed \cup Forwarded]

NewGetPaymentInformationBulkRequest ==
  [method |-> "GET",
   path |-> <<"bulk-payments", ":payment_product", ":paymentId">>,
   query |-> {}, params |-> GetPaymentInformationBulkParams, body |-> "none"]

ParseGetPaymentInformationBulkResponse ==
  [NoCases EXCEPT !.struct = {200, 400, 401, 403, 404, 405, 409},
                  !.xml = {200, 400, 401, 403, 404, 405, 409}]

GetPaymentInformationSingleParams ==
  [uuid |-> {"X-Request-ID"}, string |-> {},
   pointer |-> Signed \cup Forwarded]

NewGetPaymentInformationSingleRequest ==
  [method |-> "GET",
   path |-> <<"payments", ":payment_product", ":paymentId">>, query |-> {},
   params |-> GetPaymentInformationSingleParams, body |-> "none"]

ParseGetPaymentInformationSingleResponse ==
  [NoCases EXCEPT !.struct = {200, 400, 401, 403, 404, 405, 409}]

GetPaymentInformationPeriodocParams ==
  [uuid |-> {"X-Request-ID"}, string |-> {},
   pointer |-> Signed \cup Forwarded]

NewGetPaymentInformationPeriodocRequest ==
  [method |-> "GET",
   path |-> <<"periodic-payments", ":payment_product", ":paymentId">>,
   query |-> {}, params |-> GetPaymentInformationPeriodocParams,
   body |-> "none"]

ParseGetPaymentInformationPeriodocResponse ==
  [NoCases EXCEPT !.struct = {200, 400, 401, 403, 404, 405, 409}]

CancelPaymentParams ==
  [uuid |-> {"X-Request-ID"}, string |-> {},
   pointer |-> Signed \cup Forwarded]

NewCancelPaymentRequest ==
  [method |-> "DELETE",
   path |-> <<":payment_service", ":payment_product", ":paymentId">>,
   query |-> {}, params |-> CancelPaymentParams, body |-> "none"]

ParseCancelPaymentResponse ==
  [NoCases EXCEPT !.struct = {400, 401, 403, 404, 405, 409}, !.map = {202}]

GetListAuthorisationSubresourcesParams ==
  [uuid |-> {"X-Request-ID"}, string |-> {},
   pointer |-> Signed \cup Forwarded]

NewGetListAuthorisationSubresourcesRequest ==
  [method |-> "GET",
   path |-> <<":payment_service", ":payment_product", ":paymentId",
      "authorisations">>,
   query |-> {}, params |-> GetListAuthorisationSubresourcesParams,
   body |-> "none"]

ParseGetListAuthorisationSubresourcesResponse ==
  [NoCases EXCEPT !.struct = {200, 400, 401, 403, 404, 405, 409},
                  !.map = {406, 408, 415, 429, 503}, !.default = TRUE]

PostAuthorisationSubresourceParams ==
  [uuid |-> {"X-Request-ID"}, string |-> {},
   pointer |-> Signed \cup Forwarded \cup Payer \cup Redirect \cup
      {"TPP-Notification-URI", "TPP-Notification-Content-Preferred"}]

NewPostAuthorisationSubresourceRequest ==
  [method |-> "POST",
   path |-> <<":payment_service", ":payment_product", ":paymentId",
      "authorisations">>,
   query |-> {}, params |-> PostAuthorisationSubresourceParams,
   body |-> "json"]

ParsePostAuthorisationSubresourceResponse ==
  [NoCases EXCEPT !.struct = {201, 400, 401, 403, 404, 405, 409},
                  !.map = {406, 408, 415, 429, 503}, !.default = TRUE]

GetAuthorisationSubresourceParams ==
  [uuid |-> {"X-Request-ID"}, string |-> {},
   pointer |-> Signed \cup Forwarded]

NewGetAuthorisationSubresourceRequest ==
  [method |-> "GET",
   path |-> <<":payment_service", ":payment_product", ":paymentId",
      "authorisations", ":authorisationId">>,
   query |-> {}, params |-> GetAuthorisationSubresourceParams,
   body |-> "none"]

ParseGetAuthorisationSubresourceResponse ==
  [NoCases EXCEPT !.struct = {200, 400, 401, 403, 404, 405, 409},
                  !.map = {406, 408, 415, 429, 503}, !.default = TRUE]

GetAuthorisationCancellationInformationParams ==
  [uuid |-> {"X-Request-ID"}, string |-> {},
   pointer |-> Signed \cup Forwarded]

NewGetAuthorisationCancellationInformationRequest ==
  [method |-> "GET",
   path |-> <<":payment_service", ":payment_product", ":paymentId",
      "cancellation-authorisations">>,
   query |-> {}, params |-> GetAuthorisationCancellationInformationParams,
   body |-> "none"]

ParseGetAuthorisationCancellationInformationResponse ==
  [NoCases EXCEPT !.struct = {400, 401, 403, 404, 405, 409},
                  !.map = {406, 408, 415, 429, 503}, !.list = {200},
                  !.default = TRUE]

PostAuthorisationCancellationParams ==
  [uuid |-> {"X-Request-ID"}, string |-> {},
   pointer |-> Signed \cup Forwarded \cup Payer \cup Redirect \cup
      {"TPP-Notification-URI", "TPP-Notification-Content-Preferred"}]

NewPostAuthorisationCancellationRequest ==
  [method |-> "POST",
   path |-> <<":payment_service", ":payment_product", ":paymentId",
      "cancellation-authorisations">>,
   query |-> {}, params |-> PostAuthorisationCancellationParams,
   body |-> "none"]

ParsePostAuthorisationCancellationResponse ==
  [NoCases EXCEPT !.struct = {201, 400, 401, 403, 404, 405, 409},
                  !.map = {406, 408, 415, 429, 503}, !.default = TRUE]

GetPaymentInitiationStatusParams ==
  [uuid |-> {"X-Request-ID"}, string |-> {},
   pointer |-> Signed \cup Forwarded]

NewGetPaymentInitiationStatusRequest ==
  [method |-> "GET",
   path |-> <<":payment_service", ":payment_product", ":paymentId",
      "status">>,
   query |-> {}, params |-> GetPaymentInitiationStatusParams, body |-> "none"]

ParseGetPaymentInitiationStatusResponse ==
  [NoCases EXCEPT !.struct = {200, 400, 401, 403, 404, 405, 409}]

\* The operations of the client, by name.
Operations ==
  [GetPaymentInformationBulk |->
     [request |-> NewGetPaymentInformationBulkRequest,
      parse |-> ParseGetPaymentInformationBulkResponse],
   GetPaymentInformationSingle |->
     [request |-> NewGetPaymentInformationSingleRequest,
      parse |-> ParseGetPaymentInformationSingleResponse],
   GetPaymentInformationPeriodoc |->
     [request |-> NewGetPaymentInformationPeriodocRequest,
      parse |-> ParseGetPaymentInformationPeriodocResponse],
   CancelPayment |->
     [request |-> NewCancelPaymentRequest,
      parse |-> ParseCancelPaymentResponse],
   GetListAuthorisationSubresources |->
     [request |-> NewGetListAuthorisationSubresourcesRequest,
      parse |-> ParseGetListAuthorisationSubresourcesResponse],
   PostAuthorisationSubresource |->
     [request |-> NewPostAuthorisationSubresourceRequest,
      parse |-> ParsePostAuthorisationSubresourceResponse],
   GetAuthorisationSubresource |->
     [request |-> NewGetAuthorisationSubresourceRequest,
      parse |-> ParseGetAuthorisationSubresourceResponse],
   GetAuthorisationCancellationInformation |->
     [request |-> NewGetAuthorisationCancellationInformationRequest,
      parse |-> ParseGetAuthorisationCancellationInformationResponse],
   PostAuthorisationCancellation |->
     [request |-> NewPostAuthorisationCancellationRequest,
      parse |-> ParsePostAuthorisationCancellationResponse],
   GetPaymentInitiationStatus |->
     [request |-> NewGetPaymentInitiationStatusRequest,
      parse |-> ParseGetPaymentInitiationStatusResponse]]
===============================================================================
