-------------------------- MODULE CleanUpPaymentsApi --------------------------
(*****************************************************************************)
(* Package psd2/cleanuppayments: clean-up of a sandbox user's payments.      *)
(*****************************************************************************)
EXTENDS GeneratedClient

PaymentsCleanUpParams ==
  [uuid |-> {"X-Request-ID"}, string |-> {"PSU-ID"}, pointer |-> Signed]

NewPaymentsCleanUpRequest ==
  [method |-> "DELETE", path |-> <<"payments", "clean-up">>, query |-> {},
   params |-> PaymentsCleanUpParams, body |-> "none"]

ParsePaymentsCleanUpResponse == NoCases

\* The operations of the client, by name.
Operations ==
  [PaymentsCleanUp |->
     [request |-> NewPaymentsCleanUpRequest,
      parse |-> ParsePaymentsCleanUpResponse]]
===============================================================================
